-------------------- MODULE ResidentWorkerProcessProofs ---------------------
(***************************************************************************)
(* No request outlives its launch, what is said to be loaded has answered, *)
(* and no worker is left without an owner: for any number of calls and of  *)
(* launches.  Of an answer that such a worker streams: its proper lines    *)
(* are accepted, and what anyone is told of the end is what is recorded.   *)
(***************************************************************************)
EXTENDS ResidentWorkerProcess, StreamedAnswer, FiniteSetTheorems, SequenceTheorems, TLAPS

Waits == [at : Stages, launch : Launches \cup {NoLaunch}]

-----------------------------------------------------------------------------
(* What the operators of the model return. *)

LEMMA WaitIsRecord ==
    ASSUME NEW stage \in Stages, NEW l \in Launches \cup {NoLaunch}
    PROVE  [at |-> stage, launch |-> l] \in Waits
  BY DEF Waits

LEMMA EndedType ==
    ASSUME NEW t, NEW stage \in Stages, NEW l \in Launches \cup {NoLaunch}
    PROVE  Ended(t, stage, l) \in Waits /\ Ended(t, stage, l).at = stage
  BY DEF Waits, Ended

LEMMA GoesType ==
    ASSUME task \in [Tasks -> Waits], NEW t \in Tasks, NEW stage \in Stages,
           NEW l \in Launches \cup {NoLaunch}
    PROVE  Goes(t, stage, l) \in [Tasks -> Waits]
  BY WaitIsRecord DEF Goes

LEMMA LoadEndsType ==
    ASSUME task \in [Tasks -> Waits], NEW outcome \in Stages
    PROVE  LoadEnds(outcome) \in [Tasks -> Waits]
  <1>1. "idle" \in Stages /\ NoLaunch \in Launches \cup {NoLaunch}  BY DEF Stages
  <1> QED  BY <1>1, WaitIsRecord DEF LoadEnds

LEMMA RejectedType ==
    ASSUME NEW tasks \in [Tasks -> Waits], NEW l \in Launches \cup {NoLaunch}
    PROVE  Rejected(tasks, l) \in [Tasks -> Waits]
  <1>1. "refused" \in Stages  BY DEF Stages
  <1>2. \A t \in Tasks : Ended(t, "refused", l) \in Waits
    BY <1>1, EndedType
  <1> QED  BY <1>2 DEF Rejected

LEMMA NewLaunchType == NewLaunch \in Launch
  BY DEF NewLaunch, Launch

(* One field or more of a launch changes. *)
LEMMA FieldTypes ==
    ASSUME NEW r \in Launch, NEW h \in {"open", "ready", "rejected"},
           NEW c \in {"no", "asked", "waiting", "over"}, NEW b \in BOOLEAN
    PROVE  /\ [r EXCEPT !.process = "exited"] \in Launch
           /\ [r EXCEPT !.process = "running", !.loop = "marking"] \in Launch
           /\ [r EXCEPT !.loop = "reading"] \in Launch
           /\ [r EXCEPT !.handshake = h] \in Launch
           /\ [r EXCEPT !.hasModel = b] \in Launch
           /\ [r EXCEPT !.closeWhenStarted = b] \in Launch
           /\ [r EXCEPT !.fault = TRUE, !.killed = TRUE, !.handshake = h] \in Launch
           /\ [r EXCEPT !.close = c, !.killed = b] \in Launch
           /\ [r EXCEPT !.close = c, !.handshake = h, !.closeWhenStarted = FALSE]
                \in Launch
  <1>1. /\ [r EXCEPT !.process = "exited"] \in Launch
        /\ [r EXCEPT !.process = "running", !.loop = "marking"] \in Launch
        /\ [r EXCEPT !.loop = "reading"] \in Launch
    BY DEF Launch
  <1>2. /\ [r EXCEPT !.handshake = h] \in Launch
        /\ [r EXCEPT !.hasModel = b] \in Launch
        /\ [r EXCEPT !.closeWhenStarted = b] \in Launch
    BY DEF Launch
  <1>3. [r EXCEPT !.fault = TRUE, !.killed = TRUE, !.handshake = h] \in Launch
    BY DEF Launch
  <1>4. [r EXCEPT !.close = c, !.killed = b] \in Launch
    BY DEF Launch
  <1>5. [r EXCEPT !.close = c, !.handshake = h, !.closeWhenStarted = FALSE] \in Launch
    BY DEF Launch
  <1> QED BY <1>1, <1>2, <1>3, <1>4, <1>5

LEMMA PutType ==
    ASSUME launch \in [Launches -> Launch], NEW l, NEW r,
           l \in Launches => r \in Launch
    PROVE  [launch EXCEPT ![l] = r] \in [Launches -> Launch]
  OBVIOUS

LEMMA OverType ==
    ASSUME launch \in [Launches -> Launch], NEW l \in Launches
    PROVE  Over(l) \in Launch
  BY DEF Over, NewLaunch, HandshakeClosed, Launch

LEMMA ClosedType ==
    ASSUME launch \in [Launches -> Launch], NEW l \in Launches
    PROVE  /\ HandshakeClosed(l) \in {"open", "ready", "rejected"}
           /\ ClosingStage(l) \in {"asked", "waiting", "over"}
  BY DEF HandshakeClosed, ClosingStage, Launch

LEMMA CloseTypes ==
    ASSUME TypeOK, NEW l \in Launches \cup {NoLaunch},
           NEW tasks \in [Tasks -> Waits],
           Close(l, tasks)
    PROVE  /\ launch' \in [Launches -> Launch]
           /\ pending' \subseteq Tasks \X Launches
           /\ task' \in [Tasks -> Waits]
           /\ loadState' \in LoadStates
  <1>1. launch' \in [Launches -> Launch]
    <2>1. ASSUME l \in Launches
          PROVE  /\ [launch[l] EXCEPT !.close = ClosingStage(l),
                                      !.handshake = HandshakeClosed(l),
                                      !.closeWhenStarted = FALSE] \in Launch
                 /\ [launch[l] EXCEPT !.closeWhenStarted = FALSE] \in Launch
      BY <2>1, ClosedType, FieldTypes DEF TypeOK
    <2>2. \/ launch' = [launch EXCEPT
                ![l] = [launch[l] EXCEPT !.close = ClosingStage(l),
                                         !.handshake = HandshakeClosed(l),
                                         !.closeWhenStarted = FALSE]]
          \/ launch' = [launch EXCEPT
                ![l] = [launch[l] EXCEPT !.closeWhenStarted = FALSE]]
      BY DEF Close
    <2> QED  BY <2>1, <2>2, PutType DEF TypeOK
  <1>2. pending' \subseteq Tasks \X Launches
    BY DEF TypeOK, Close, PendingElsewhere
  <1>3. task' \in [Tasks -> Waits]
    BY RejectedType DEF Close
  <1>4. loadState' \in LoadStates
    BY DEF TypeOK, Close, LoadStateFor, LoadStates
  <1> QED  BY <1>1, <1>2, <1>3, <1>4

LEMMA TasksAre ==
    /\ Loader \in Tasks /\ Unload \in Tasks /\ Chats \subseteq Tasks /\ Loads \subseteq Tasks
    /\ Unload # Loader /\ Loader \notin Chats /\ Unload \notin Chats /\ Loader \notin Loads
  BY ProcessAssumption DEF ProcessAssumption, Tasks

LEMMA StagesAre ==
    {"idle", "load", "loaded", "backoff", "start", "handshake", "sent",
     "answered", "refused", "closing", "done", "failed"} \subseteq Stages
  BY DEF Stages

-----------------------------------------------------------------------------
(* Types. *)

LEMMA TypeInit == Init => TypeOK
  <1> SUFFICES ASSUME Init PROVE TypeOK  OBVIOUS
  <1>1. launch \in [Launches -> Launch]  BY NewLaunchType DEF Init
  <1>2. task \in [Tasks -> Waits]  BY StagesAre DEF Init, Waits
  <1>3. crashes \in 0 .. CrashLimit
    BY ProcessAssumption, SMT DEF Init, ProcessAssumption
  <1> QED  BY <1>1, <1>2, <1>3 DEF Init, TypeOK, LoadStates, Waits

LEMMA LoadFailsTypes == ASSUME TypeOK, LoadFails PROVE TypeOK'
  <1>1. task' \in [Tasks -> Waits]
    BY LoadEndsType, StagesAre DEF TypeOK, LoadFails, Waits
  <1> QED  BY <1>1 DEF TypeOK, LoadFails, LoadStates, Waits

LEMMA CallLoadTypes == ASSUME TypeOK, NEW t \in Tasks, CallLoad(t) PROVE TypeOK'
  <1>1. task' \in [Tasks -> Waits]
    <2>1. \A stage \in Stages : Goes(t, stage, NoLaunch) \in [Tasks -> Waits]
      BY GoesType DEF TypeOK, Waits
    <2>2. [Goes(t, "load", NoLaunch) EXCEPT ![Loader].at = "backoff"]
            \in [Tasks -> Waits]
      <3> DEFINE G == Goes(t, "load", NoLaunch)
      <3>1. G \in [Tasks -> Waits]  BY <2>1, StagesAre
      <3>2. [G[Loader] EXCEPT !.at = "backoff"] \in Waits
        BY <3>1, TasksAre, StagesAre DEF Waits
      <3>3. [G EXCEPT ![Loader].at = "backoff"]
              = [G EXCEPT ![Loader] = [G[Loader] EXCEPT !.at = "backoff"]]
        OBVIOUS
      <3> HIDE DEF G
      <3> QED  BY <3>1, <3>2, <3>3 DEF G
    <2> QED  BY <2>1, <2>2, StagesAre DEF CallLoad
  <1> QED  BY <1>1 DEF TypeOK, CallLoad, LoadStates, Waits

LEMMA EnsureTypes ==
    ASSUME TypeOK, NEW t \in Tasks, EnsureStarted(t),
           UNCHANGED <<launch, active, crashes, pending, drained>>
    PROVE  TypeOK'
  <1>1. task' \in [Tasks -> Waits]
    BY GoesType, StagesAre DEF TypeOK, EnsureStarted, Waits, Reusable
  <1> QED  BY <1>1 DEF TypeOK, EnsureStarted, LoadStates, Waits

LEMMA LoaderTypes == ASSUME TypeOK, LoaderStep PROVE TypeOK'
  <1>1. CASE LoaderEnsures
    <2>1. CASE EnsureStarted(Loader)
      BY <1>1, <2>1, EnsureTypes, TasksAre DEF LoaderEnsures
    <2>2. CASE task' = LoadEnds("loaded") /\ UNCHANGED <<starting, loaded, loadState>>
      <3>1. task' \in [Tasks -> Waits]
        BY <2>2, LoadEndsType, StagesAre DEF TypeOK, Waits
      <3> QED  BY <1>1, <2>2, <3>1 DEF LoaderEnsures, TypeOK, Waits
    <2> QED  BY <1>1, <2>1, <2>2 DEF LoaderEnsures
  <1>2. CASE LoaderAnswered
    <2>1. CASE LoadFails  BY <2>1, LoadFailsTypes
    <2>2. CASE ~LoadFails
      <3>1. task' \in [Tasks -> Waits]
        BY <1>2, <2>2, LoadEndsType, StagesAre DEF TypeOK, Waits, LoaderAnswered
      <3>2. crashes' \in 0 .. CrashLimit
        BY <1>2, <2>2, ProcessAssumption, SMT DEF LoaderAnswered, ProcessAssumption
      <3> QED  BY <1>2, <2>2, <3>1, <3>2 DEF LoaderAnswered, TypeOK, LoadStates, Waits
    <2> QED  BY <2>1, <2>2
  <1>3. CASE LoaderUnavailable \/ LoaderRefused
    BY <1>3, LoadFailsTypes DEF LoaderUnavailable, LoaderRefused
  <1> QED  BY <1>1, <1>2, <1>3 DEF LoaderStep

LEMMA StartTypes == ASSUME TypeOK, StartStep PROVE TypeOK'
  <1>1. CASE PrepareFails
    <2>1. launch' \in [Launches -> Launch]
      BY <1>1, NewLaunchType DEF PrepareFails, TypeOK
    <2>2. starting \in Launches
      BY <1>1 DEF PrepareFails, TypeOK
    <2>3. \A t \in Tasks : Ended(t, "refused", starting) \in Waits
      BY <2>2, EndedType, StagesAre
    <2>4. task' \in [Tasks -> Waits]
      BY <1>1, <2>3 DEF PrepareFails, TypeOK, Waits
    <2> QED  BY <1>1, <2>1, <2>4 DEF PrepareFails, TypeOK, LoadStates, Waits
  <1>2. CASE SpawnWorker
    <2>1. launch' \in [Launches -> Launch]
      <3>1. [launch[starting] EXCEPT !.process = "running", !.loop = "marking"] \in Launch
        BY <1>2, FieldTypes, ClosedType DEF SpawnWorker, TypeOK
      <3>2. launch' = [launch EXCEPT ![starting] = [launch[starting] EXCEPT !.process = "running", !.loop = "marking"]]
        BY <1>2 DEF SpawnWorker
      <3> QED  BY <3>1, <3>2, PutType DEF TypeOK
    <2> QED  BY <1>2, <2>1 DEF SpawnWorker, TypeOK
  <1>3. CASE Marked
    <2>1. launch' \in [Launches -> Launch]
      <3>1. [launch[starting] EXCEPT !.loop = "reading"] \in Launch
        BY <1>3, FieldTypes, ClosedType DEF Marked, TypeOK
      <3>2. launch' = [launch EXCEPT ![starting] = [launch[starting] EXCEPT !.loop = "reading"]]
        BY <1>3 DEF Marked
      <3> QED  BY <3>1, <3>2, PutType DEF TypeOK
    <2> QED  BY <1>3, <2>1 DEF Marked, TypeOK
  <1> QED  BY <1>1, <1>2, <1>3 DEF StartStep

LEMMA TaskTypes == ASSUME TypeOK, NEW t \in Tasks, TaskStep(t) PROVE TypeOK'
  <1>0. On(t) \in Launches \cup {NoLaunch}  BY DEF TypeOK, On
  <1>1. CASE StartAwaited(t)
    <2>1. task' \in [Tasks -> Waits]
      BY <1>1, <1>0, EndedType, StagesAre DEF StartAwaited, TypeOK, Waits
    <2> QED  BY <1>1, <2>1 DEF StartAwaited, TypeOK, LoadStates, Waits
  <1>2. CASE ChatEnsures(t)
    <2>1. CASE EnsureStarted(t)
      BY <1>2, <2>1, EnsureTypes DEF ChatEnsures
    <2>2. CASE ~EnsureStarted(t)
      <3>1. task' \in [Tasks -> Waits]
        BY <1>2, <2>2, GoesType, StagesAre DEF ChatEnsures, TypeOK, Waits
      <3> QED  BY <1>2, <2>2, <3>1 DEF ChatEnsures, TypeOK, Waits
    <2> QED  BY <2>1, <2>2
  <1>3. CASE Send(t)
    <2>0. Sendable(On(t)) => On(t) \in Launches
      BY <1>0 DEF Sendable, Usable
    <2>1. task' \in [Tasks -> Waits]
      BY <1>3, <1>0, EndedType, StagesAre DEF Send, TypeOK, Waits
    <2>2. pending' \subseteq Tasks \X Launches
      BY <1>3, <2>0 DEF Send, TypeOK
    <2> QED  BY <1>3, <2>1, <2>2 DEF Send, TypeOK, Waits
  <1> QED  BY <1>1, <1>2, <1>3 DEF TaskStep

LEMMA UnhealthyTypes ==
    ASSUME TypeOK, NEW l \in Launches, ProtocolUnhealthy(l) PROVE TypeOK'
  <1>1. launch' \in [Launches -> Launch]
    <2>1. [launch[l] EXCEPT !.fault = TRUE, !.killed = TRUE,
                                   !.handshake = HandshakeClosed(l)] \in Launch
      BY FieldTypes, ClosedType DEF ProtocolUnhealthy, TypeOK
    <2>2. launch' = [launch EXCEPT ![l] = [launch[l] EXCEPT !.fault = TRUE, !.killed = TRUE,
                                   !.handshake = HandshakeClosed(l)]]
      BY DEF ProtocolUnhealthy
    <2> QED  BY <2>1, <2>2, PutType DEF TypeOK
  <1>2. task' \in [Tasks -> Waits]
    BY RejectedType DEF TypeOK, ProtocolUnhealthy, Waits
  <1>3. pending' \subseteq Tasks \X Launches
    BY DEF TypeOK, ProtocolUnhealthy, PendingElsewhere
  <1> QED  BY <1>1, <1>2, <1>3 DEF TypeOK, ProtocolUnhealthy, LoadStates, Waits

LEMMA WorkerTypes ==
    ASSUME TypeOK, NEW l \in Launches,
           Ready(l) \/ BadLine(l) \/ HandshakeTimeout(l) \/ Exit(l)
             \/ HandleExit(l) \/ Answers(l)
    PROVE  TypeOK'
  <1>1. CASE Ready(l)
    <2>1. launch' \in [Launches -> Launch]
      <3>1. [launch[l] EXCEPT !.handshake = "ready"] \in Launch
        BY <1>1, FieldTypes, ClosedType DEF Ready, TypeOK
      <3>2. launch' = [launch EXCEPT ![l] = [launch[l] EXCEPT !.handshake = "ready"]]
        BY <1>1 DEF Ready
      <3> QED  BY <3>1, <3>2, PutType DEF TypeOK
    <2> QED  BY <1>1, <2>1 DEF Ready, TypeOK
  <1>2. CASE BadLine(l) \/ HandshakeTimeout(l)
    BY <1>2, UnhealthyTypes DEF BadLine, HandshakeTimeout
  <1>3. CASE Exit(l)
    <2>1. launch' \in [Launches -> Launch]
      <3>1. [launch[l] EXCEPT !.process = "exited"] \in Launch
        BY <1>3, FieldTypes, ClosedType DEF Exit, TypeOK
      <3>2. launch' = [launch EXCEPT ![l] = [launch[l] EXCEPT !.process = "exited"]]
        BY <1>3 DEF Exit
      <3> QED  BY <3>1, <3>2, PutType DEF TypeOK
    <2> QED  BY <1>3, <2>1 DEF Exit, TypeOK
  <1>4. CASE HandleExit(l)
    <2>1. launch' \in [Launches -> Launch]
      BY <1>4, OverType DEF TypeOK, HandleExit
    <2>2. task' \in [Tasks -> Waits]
      BY <1>4, RejectedType DEF TypeOK, HandleExit, Waits
    <2>3. crashes' \in 0 .. CrashLimit
      BY <1>4, ProcessAssumption DEF TypeOK, HandleExit, ProcessAssumption
    <2>4. pending' \subseteq Tasks \X Launches
      BY <1>4 DEF TypeOK, HandleExit, PendingElsewhere
    <2> QED  BY <1>4, <2>1, <2>2, <2>3, <2>4 DEF TypeOK, HandleExit, LoadStates, Waits
  <1>5. CASE Answers(l)
    <2> PICK t \in Tasks, type \in {"completed", "failed"} : Answer(l, t, type)
      BY <1>5 DEF Answers
    <2>1. launch' \in [Launches -> Launch]
      <3>1. [launch[l] EXCEPT
                    !.hasModel = @ \/ (t = Loader /\ type = "completed")] \in Launch
        BY FieldTypes, ClosedType DEF Answer, TypeOK
      <3>2. launch' = [launch EXCEPT ![l] = [launch[l] EXCEPT
                    !.hasModel = @ \/ (t = Loader /\ type = "completed")]]
        BY DEF Answer
      <3> QED  BY <3>1, <3>2, PutType DEF TypeOK
    <2>2. task' \in [Tasks -> Waits]
      BY EndedType, StagesAre DEF Answer, TypeOK, Waits
    <2>3. pending' \subseteq Tasks \X Launches
      BY DEF Answer, TypeOK
    <2> QED  BY <2>1, <2>2, <2>3 DEF Answer, TypeOK, LoadStates, Waits
  <1> QED  BY <1>1, <1>2, <1>3, <1>4, <1>5

LEMMA CloseStepTypes ==
    ASSUME TypeOK, NEW l \in Launches, CloseStep(l) PROVE TypeOK'
  <1>1. CASE CloseRace(l)
    <2>1. launch' \in [Launches -> Launch]
      <3>1. [launch[l] EXCEPT
                    !.close = IF launch[l].loop = "over" THEN "over" ELSE "waiting",
                    !.killed = launch[l].process = "running"] \in Launch
        BY <1>1, FieldTypes, ClosedType DEF CloseRace, TypeOK
      <3>2. launch' = [launch EXCEPT ![l] = [launch[l] EXCEPT
                    !.close = IF launch[l].loop = "over" THEN "over" ELSE "waiting",
                    !.killed = launch[l].process = "running"]]
        BY <1>1 DEF CloseRace
      <3> QED  BY <3>1, <3>2, PutType DEF TypeOK
    <2> QED  BY <1>1, <2>1 DEF CloseRace, TypeOK
  <1>2. CASE CloseAfterStart(l)
    <2>1. task \in [Tasks -> Waits]  BY DEF TypeOK, Waits
    <2> QED  BY <1>2, <2>1, CloseTypes DEF CloseAfterStart, TypeOK, Waits
  <1> QED  BY <1>1, <1>2 DEF CloseStep

LEMMA UnloadTypes ==
    ASSUME TypeOK, UnloadCloses \/ UnloadEnds \/ CallUnload PROVE TypeOK'
  <1>0. task \in [Tasks -> Waits] /\ On(Unload) \in Launches \cup {NoLaunch}
    BY TasksAre DEF TypeOK, Waits, On
  <1>1. CASE UnloadEnds
    <2>1. task' \in [Tasks -> Waits]
      BY <1>0, <1>1, GoesType, TasksAre, StagesAre DEF UnloadEnds
    <2> QED  BY <1>1, <2>1 DEF UnloadEnds, TypeOK, Waits
  <1>2. CASE CallUnload
    <2>1. task' \in [Tasks -> Waits]
      BY <1>0, <1>2, GoesType, TasksAre, StagesAre DEF CallUnload, TypeOK
    <2> QED  BY <1>2, <2>1 DEF CallUnload, TypeOK, Waits
  <1>3. CASE UnloadCloses
    <2>1. Goes(Unload, "closing", On(Unload)) \in [Tasks -> Waits]
      BY <1>0, GoesType, TasksAre, StagesAre
    <2> QED  BY <1>0, <1>3, <2>1, CloseTypes DEF UnloadCloses, TypeOK, Waits
  <1> QED  BY <1>1, <1>2, <1>3

LEMMA DrainTypes == ASSUME TypeOK, DrainShutsDown PROVE TypeOK'
  <1>0. task \in [Tasks -> Waits]  BY DEF TypeOK, Waits
  <1>1. CASE starting # NoLaunch /\ launch' = [launch EXCEPT ![starting].closeWhenStarted = TRUE]
               /\ UNCHANGED <<pending, task, loadState>>
    <2>1. launch' \in [Launches -> Launch]
      <3>1. [launch[starting] EXCEPT !.closeWhenStarted = TRUE] \in Launch
        BY <1>1, FieldTypes DEF TypeOK
      <3>2. launch' = [launch EXCEPT ![starting] =
                         [launch[starting] EXCEPT !.closeWhenStarted = TRUE]]
        BY <1>1
      <3> QED  BY <3>1, <3>2, PutType DEF TypeOK
    <2> QED  BY <1>1, <2>1 DEF DrainShutsDown, TypeOK
  <1>2. CASE starting = NoLaunch /\ active # NoLaunch /\ Close(active, task)
    <2>1. active \in Launches  BY <1>2 DEF TypeOK
    <2> QED  BY <1>0, <1>2, <2>1, CloseTypes DEF DrainShutsDown, TypeOK, Waits
  <1>3. CASE UNCHANGED <<launch, pending, task, loadState>>
    BY <1>3 DEF DrainShutsDown, TypeOK
  <1> QED  BY <1>1, <1>2, <1>3 DEF DrainShutsDown

LEMMA TypeStep == ASSUME TypeOK, [Next]_vars PROVE TypeOK'
  <1>1. CASE Continue
    BY <1>1, LoaderTypes, StartTypes, UnloadTypes, TaskTypes, CloseStepTypes
    DEF Continue
  <1>2. CASE CallUnload \/ DrainShutsDown
    BY <1>2, UnloadTypes, DrainTypes
  <1>3. CASE \E t \in Tasks : CallLoad(t)
    BY <1>3, CallLoadTypes
  <1>4. CASE \E l \in Launches : \/ Ready(l) \/ BadLine(l) \/ HandshakeTimeout(l)
                                \/ Exit(l) \/ HandleExit(l) \/ Answers(l)
    BY <1>4, WorkerTypes
  <1>5. CASE UNCHANGED vars
    BY <1>5 DEF vars, TypeOK
  <1> QED  BY <1>1, <1>2, <1>3, <1>4, <1>5 DEF Next

-----------------------------------------------------------------------------
(* The inductive invariant. *)

Busy == {"start", "handshake", "sent", "answered"}
Preparing == starting # NoLaunch /\ launch[starting].loop = "preparing"

(* How far a launch is: startWorker holds it up to the read loop, and the     *)
(* active one has neither faulted nor ended.                                  *)
Phases ==
    /\ \A l \in Launches :
         /\ launch[l].process = "none" <=> launch[l].loop = "preparing"
         /\ launch[l].loop = "preparing" => ~launch[l].fault
         /\ launch[l].loop = "marking" => starting = l /\ active = l
         /\ launch[l].loop = "over" => launch[l].process = "exited"
    /\ starting # NoLaunch => launch[starting].loop \in {"preparing", "marking"}
    /\ active # NoLaunch => /\ launch[active].loop \in {"marking", "reading"}
                            /\ ~launch[active].fault

(* Launches are spawned one after the other, and none twice. *)
SpawnedInOrder ==
    \E k \in 0 .. MaxLaunches :
        Spawned = 1 .. k /\ (Preparing => starting = k + 1)

(* While a worker is started no other is of use, nothing is loaded, and       *)
(* loadOnce holds no usable launch.                                           *)
StartingAlone ==
    /\ Preparing => ~Reusable(active)
    /\ starting # NoLaunch => ~loaded
    /\ Preparing /\ At(Loader) \in Busy => ~Usable(On(Loader))

(* loadOnce runs only while nothing is loaded; once it has its answer, its    *)
(* launch has the model for as long as it reads.                              *)
LoaderHonest ==
    /\ At(Loader) \in Busy => ~loaded /\ On(Loader) \in Launches
    /\ At(Loader) = "answered" =>
         \/ launch[On(Loader)].hasModel /\ launch[On(Loader)].loop = "reading"
         \/ launch[On(Loader)].loop = "over"

(* While a chat whose load has succeeded has not gone on, no worker has been  *)
(* spawned and none has exited: a load under way meanwhile is on a worker     *)
(* that runs or is not spawned yet.                                           *)
ChatsFollow ==
    ~FollowedUp =>
      /\ starting # NoLaunch => Preparing
      /\ At(Loader) = "start" => On(Loader) = starting /\ Preparing
      /\ At(Loader) \in {"handshake", "sent", "answered"} /\ Usable(On(Loader))
           => launch[On(Loader)].process = "running"

LoadedHasModel == loaded => active # NoLaunch /\ launch[active].hasModel

LaunchInv == Phases /\ SpawnedInOrder /\ StraysAreDying
LoadInv == StartingAlone /\ LoaderHonest /\ ChatsFollow /\ LoadedHasModel

Core == TypeOK /\ LaunchInv /\ LoadInv

-----------------------------------------------------------------------------
(* Steps that load nothing and send no chat on, seen from the launches. *)

Quiet ==
    /\ loaded' => loaded
    /\ \A t \in Chats : At(t)' = "loaded" => At(t) = "loaded"
    /\ task'[Loader] = task[Loader] \/ At(Loader)' \notin Busy

(* No launch starts, ends or faults; one may be closed or get its model. *)
Calm ==
    /\ UNCHANGED <<active, starting>>
    /\ \A l \in Launches :
         /\ launch'[l].process = launch[l].process
         /\ launch'[l].loop = launch[l].loop
         /\ launch'[l].fault = launch[l].fault
         /\ launch[l].hasModel => launch'[l].hasModel
         /\ launch'[l].close = launch[l].close \/ launch'[l].close # "no"
         /\ launch[l].killed /\ launch[l].process = "running" => launch'[l].killed

(* Launch l has faulted or ended: it is not the active one any more. *)
Dropped(l) ==
    /\ launch[l].loop = "reading"
    /\ active' = IF active = l THEN NoLaunch ELSE active
    /\ loaded' = (loaded /\ active # l)
    /\ UNCHANGED starting
    /\ \A k \in Launches \ {l} : launch'[k] = launch[k]
    /\ launch'[l].process = launch[l].process
    /\ \/ launch'[l].loop = "reading" /\ launch'[l].hasModel = launch[l].hasModel
       \/ launch'[l].loop = "over" /\ launch[l].process = "exited"
    /\ launch'[l].killed \/ launch[l].process = "exited"

(* ensureStarted calls startWorker. *)
Starts ==
    /\ ~Reusable(active) /\ starting = NoLaunch /\ Next1 \in Launches
    /\ starting' = Next1 /\ loaded' = FALSE
    /\ UNCHANGED <<launch, active>>

LEMMA CalmLaunches ==
    ASSUME Core, TypeOK', Calm PROVE LaunchInv'
  <1>1. Spawned' = Spawned  BY DEF Spawned, Calm
  <1>2. Preparing' <=> Preparing  BY DEF Preparing, Calm, Core, TypeOK
  <1>3. SpawnedInOrder'
    BY <1>1, <1>2 DEF SpawnedInOrder, Core, LaunchInv, Calm
  <1>4. Phases'
    BY DEF Core, LaunchInv, TypeOK, Phases, Calm
  <1>5. StraysAreDying'
    BY DEF Core, LaunchInv, TypeOK, StraysAreDying, Calm
  <1> QED  BY <1>3, <1>4, <1>5 DEF LaunchInv

LEMMA CalmKeeps ==
    ASSUME Core, TypeOK', Calm, Quiet PROVE Core'
  <1>1. LaunchInv'  BY CalmLaunches
  <1>2. Preparing' <=> Preparing  BY DEF Preparing, Calm, Core, TypeOK
  <1>3. Reusable(active)' => Reusable(active)
    BY DEF Reusable, Calm, Core, TypeOK
  <1>4. ASSUME task'[Loader] = task[Loader]
        PROVE  Usable(On(Loader))' => Usable(On(Loader))
    BY <1>4 DEF Usable, On, Calm, Core, TypeOK, NoLaunch
  <1>5. StartingAlone'
    BY <1>2, <1>3, <1>4 DEF Quiet, Calm, StartingAlone, Core, LoadInv, At
  <1>6. LoaderHonest'
    <2>1. CASE task'[Loader] = task[Loader]
      BY <2>1 DEF Quiet, Calm, LoaderHonest, Core, LoadInv, At, On, Busy
    <2>2. CASE At(Loader)' \notin Busy
      BY <2>2 DEF LoaderHonest, Busy
    <2> QED  BY <2>1, <2>2 DEF Quiet
  <1>7. ChatsFollow'
    <2>0. FollowedUp => FollowedUp'  BY DEF Quiet, FollowedUp
    <2>1. CASE task'[Loader] = task[Loader]
      <3>1. At(Loader)' = At(Loader) /\ On(Loader)' = On(Loader)
        BY <2>1 DEF At, On
      <3>2. Usable(On(Loader)) => On(Loader) \in Launches
        BY DEF Usable, Core, TypeOK
      <3> QED  BY <1>2, <1>4, <2>0, <2>1, <3>1, <3>2
               DEF ChatsFollow, Core, LoadInv, Calm
    <2>2. CASE At(Loader)' \notin Busy
      BY <1>2, <2>0, <2>2 DEF ChatsFollow, Busy, Core, LoadInv, Calm
    <2> QED  BY <2>1, <2>2 DEF Quiet
  <1>8. LoadedHasModel'
    BY DEF Quiet, Calm, LoadedHasModel, Core, LoadInv, TypeOK
  <1> QED  BY <1>1, <1>5, <1>6, <1>7, <1>8 DEF Core, LoadInv

LEMMA DroppedKeeps ==
    ASSUME Core, TypeOK', NEW l \in Launches, Dropped(l), Quiet
    PROVE  Core'
  <1>1. launch' \in [Launches -> Launch] /\ launch \in [Launches -> Launch]
    BY DEF Core, TypeOK
  <1>2. launch[l].process # "none" /\ launch[l].loop = "reading"
        /\ launch'[l].loop \in {"reading", "over"}
    BY DEF Core, LaunchInv, Phases, Dropped
  <1>3. Spawned' = Spawned
    BY <1>2 DEF Spawned, Dropped
  <1>4. Preparing' <=> Preparing
    BY <1>2 DEF Preparing, Dropped, Core, TypeOK
  <1>5. SpawnedInOrder'
    BY <1>3, <1>4 DEF SpawnedInOrder, Core, LaunchInv, Dropped
  <1>6. Phases'
    <2>1. \A k \in Launches :
            /\ launch'[k].process = "none" <=> launch'[k].loop = "preparing"
            /\ launch'[k].loop = "preparing" => ~launch'[k].fault
            /\ launch'[k].loop = "marking" => starting' = k /\ active' = k
            /\ launch'[k].loop = "over" => launch'[k].process = "exited"
      BY <1>2 DEF Core, LaunchInv, Phases, Dropped
    <2>2. starting' # NoLaunch => launch'[starting'].loop \in {"preparing", "marking"}
      BY <1>2 DEF Core, LaunchInv, TypeOK, Phases, Dropped
    <2>3. active' # NoLaunch => /\ launch'[active'].loop \in {"marking", "reading"}
                                /\ ~launch'[active'].fault
      BY DEF Core, LaunchInv, TypeOK, Phases, Dropped
    <2> QED  BY <2>1, <2>2, <2>3 DEF Phases
  <1>7. StraysAreDying'
    BY DEF Core, LaunchInv, TypeOK, StraysAreDying, Dropped
  <1>8. Reusable(active)' => Reusable(active)
    BY DEF Reusable, Dropped, Core, TypeOK, NoLaunch
  <1>9. ASSUME task'[Loader] = task[Loader], Usable(On(Loader))'
        PROVE  /\ Usable(On(Loader))
               /\ launch'[On(Loader)] = launch[On(Loader)]
    BY <1>9 DEF Usable, On, Dropped, Core, TypeOK, NoLaunch
  <1>10. StartingAlone'
    BY <1>4, <1>8, <1>9 DEF Quiet, Dropped, StartingAlone, Core, LoadInv, At
  <1>11. LoaderHonest'
    <2>1. CASE task'[Loader] = task[Loader]
      BY <2>1, <1>2 DEF Quiet, Dropped, LoaderHonest, Core, LoadInv, At, On, Busy
    <2>2. CASE At(Loader)' \notin Busy
      BY <2>2 DEF LoaderHonest, Busy
    <2> QED  BY <2>1, <2>2 DEF Quiet
  <1>12. ChatsFollow'
    <2>0. FollowedUp => FollowedUp'  BY DEF Quiet, FollowedUp
    <2>1. CASE task'[Loader] = task[Loader]
      <3>1. At(Loader)' = At(Loader) /\ On(Loader)' = On(Loader)
        BY <2>1 DEF At, On
      <3> QED  BY <1>4, <1>9, <2>0, <2>1, <3>1
               DEF ChatsFollow, Core, LoadInv, Dropped
    <2>2. CASE At(Loader)' \notin Busy
      BY <1>4, <2>0, <2>2 DEF ChatsFollow, Busy, Core, LoadInv, Dropped
    <2> QED  BY <2>1, <2>2 DEF Quiet
  <1>13. LoadedHasModel'
    BY DEF Dropped, LoadedHasModel, Core, LoadInv, TypeOK
  <1> QED  BY <1>5, <1>6, <1>7, <1>10, <1>11, <1>12, <1>13
           DEF Core, LoadInv, LaunchInv

LEMMA ExitKeeps ==
    ASSUME Core, TypeOK', NEW l \in Launches, Exit(l)
    PROVE  Core'
  <1>1. /\ launch' \in [Launches -> Launch] /\ launch \in [Launches -> Launch]
        /\ launch' = [launch EXCEPT ![l] = [launch[l] EXCEPT !.process = "exited"]]
    BY DEF Core, TypeOK, Exit
  <1>2. \A k \in Launches :
          /\ launch'[k].process = IF k = l THEN "exited" ELSE launch[k].process
          /\ launch'[k].loop = launch[k].loop /\ launch'[k].fault = launch[k].fault
          /\ launch'[k].close = launch[k].close /\ launch'[k].killed = launch[k].killed
          /\ launch'[k].hasModel = launch[k].hasModel
    BY <1>1 DEF Launch
  <1>3. UNCHANGED <<active, starting, loaded, task>> /\ FollowedUp
        /\ launch[l].process = "running"
    BY DEF Exit
  <1>4. Spawned' = Spawned  BY <1>2, <1>3 DEF Spawned
  <1>5. Preparing' <=> Preparing  BY <1>2, <1>3 DEF Preparing, Core, TypeOK
  <1>6. SpawnedInOrder'
    BY <1>3, <1>4, <1>5 DEF SpawnedInOrder, Core, LaunchInv
  <1>7. Phases'
    BY <1>2, <1>3 DEF Core, LaunchInv, TypeOK, Phases
  <1>8. StraysAreDying'
    BY <1>2, <1>3 DEF Core, LaunchInv, StraysAreDying
  <1>9. At(Loader)' = At(Loader) /\ On(Loader)' = On(Loader)
    BY <1>3 DEF At, On
  <1>10. StartingAlone'
    <2>1. Reusable(active)' => Reusable(active)
      BY <1>2, <1>3 DEF Reusable, Core, TypeOK
    <2>2. Usable(On(Loader))' => Usable(On(Loader))
      BY <1>2, <1>3, <1>9 DEF Usable, Core, TypeOK
    <2> QED  BY <1>3, <1>5, <1>9, <2>1, <2>2 DEF StartingAlone, Core, LoadInv
  <1>11. LoaderHonest'
    BY <1>2, <1>3, <1>9 DEF LoaderHonest, Core, LoadInv, Busy
  <1>12. ChatsFollow'
    BY <1>3 DEF ChatsFollow, FollowedUp, At
  <1>13. LoadedHasModel'
    BY <1>2, <1>3 DEF LoadedHasModel, Core, LoadInv, TypeOK
  <1> QED  BY <1>6, <1>7, <1>8, <1>10, <1>11, <1>12, <1>13
           DEF Core, LoadInv, LaunchInv

LEMMA PrepareFailsKeeps ==
    ASSUME Core, TypeOK', PrepareFails
    PROVE  Core'
  <1>0. Loader \in Tasks /\ Chats \subseteq Tasks  BY TasksAre
  <1>1. /\ starting \in Launches /\ launch[starting].loop = "preparing"
        /\ starting' = NoLaunch /\ UNCHANGED <<active, loaded>>
        /\ \A k \in Launches \ {starting} : launch'[k] = launch[k]
        /\ launch'[starting] = NewLaunch /\ launch[starting].process = "none"
    BY DEF Core, LaunchInv, Phases, TypeOK, PrepareFails
  <1>2. active # starting
    BY <1>1 DEF Core, LaunchInv, Phases, NoLaunch, Launches
  <1>3. ~Preparing'  BY <1>1 DEF Preparing
  <1>4. Spawned' = Spawned  BY <1>1 DEF Spawned, NewLaunch
  <1>5. SpawnedInOrder'
    BY <1>3, <1>4 DEF SpawnedInOrder, Core, LaunchInv
  <1>6. Phases'
    BY <1>1, <1>2 DEF Core, LaunchInv, TypeOK, Phases, NewLaunch
  <1>7. StraysAreDying'
    BY <1>1 DEF Core, LaunchInv, StraysAreDying, NewLaunch
  <1>8. StartingAlone'
    BY <1>1, <1>3 DEF StartingAlone
  <1>9. \/ task'[Loader] = task[Loader]
           /\ ~(At(Loader) = "start" /\ On(Loader) = starting)
        \/ At(Loader)' = "refused"
    <2>1. task'[Loader] = IF task[Loader] = [at |-> "start", launch |-> starting]
                          THEN Ended(Loader, "refused", starting)
                          ELSE task[Loader]
      BY <1>0 DEF PrepareFails
    <2>2. task[Loader] \in Waits
      BY <1>0 DEF Core, TypeOK, Waits
    <2>3. CASE task[Loader] = [at |-> "start", launch |-> starting]
      BY <2>1, <2>3 DEF At, Ended
    <2>4. CASE task[Loader] # [at |-> "start", launch |-> starting]
      BY <2>1, <2>2, <2>4 DEF At, On, Waits
    <2> QED  BY <2>3, <2>4
  <1>10. ASSUME task'[Loader] = task[Loader],
                ~(At(Loader) = "start" /\ On(Loader) = starting)
         PROVE  LoaderHonest' /\ ChatsFollow'
    <2>1. At(Loader)' = At(Loader) /\ On(Loader)' = On(Loader)
      BY <1>10 DEF At, On
    <2>2. LoaderHonest'
      BY <1>1, <2>1 DEF LoaderHonest, Core, LoadInv, Busy
    <2>3. FollowedUp => FollowedUp'
      BY <1>0 DEF FollowedUp, At, PrepareFails, Ended
    <2>4. Usable(On(Loader))' => /\ Usable(On(Loader))
                                 /\ launch'[On(Loader)] = launch[On(Loader)]
      BY <1>1, <1>2, <2>1 DEF Usable, Core, TypeOK
    <2>5. ChatsFollow'
      BY <1>1, <1>10, <2>1, <2>3, <2>4 DEF ChatsFollow, Core, LoadInv
    <2> QED  BY <2>2, <2>5
  <1>11. ASSUME At(Loader)' = "refused" PROVE LoaderHonest' /\ ChatsFollow'
    BY <1>1, <1>11 DEF LoaderHonest, ChatsFollow, Busy
  <1>12. LoadedHasModel'
    BY <1>1, <1>2 DEF LoadedHasModel, Core, LoadInv, TypeOK
  <1> QED  BY <1>5, <1>6, <1>7, <1>8, <1>9, <1>10, <1>11, <1>12
           DEF Core, LoadInv, LaunchInv

LEMMA SpawnKeeps ==
    ASSUME Core, TypeOK', SpawnWorker
    PROVE  Core'
  <1>1. /\ starting \in Launches /\ launch[starting].loop = "preparing"
        /\ active' = starting /\ UNCHANGED <<starting, loaded, task>>
        /\ \A k \in Launches \ {starting} : launch'[k] = launch[k]
        /\ launch'[starting] = [launch[starting] EXCEPT !.process = "running",
                                                        !.loop = "marking"]
        /\ FollowedUp /\ Preparing
    BY DEF Core, TypeOK, SpawnWorker, Preparing
  <1>2. /\ launch'[starting].process = "running" /\ launch'[starting].loop = "marking"
        /\ ~launch'[starting].fault
    BY <1>1 DEF Core, TypeOK, LaunchInv, Phases, Launch
  <1>3. ~Preparing'  BY <1>1, <1>2 DEF Preparing
  <1>4. SpawnedInOrder'
    <2> PICK k \in 0 .. MaxLaunches : Spawned = 1 .. k /\ starting = k + 1
      BY <1>1 DEF SpawnedInOrder, Core, LaunchInv
    <2>1. k + 1 \in 1 .. MaxLaunches
      BY <1>1 DEF Launches
    <2>2. Spawned' = Spawned \cup {starting}
      <3>1. \A l \in Launches : launch'[l].process # "none"
                              <=> l = starting \/ launch[l].process # "none"
        BY <1>1, <1>2
      <3> QED  BY <1>1, <3>1 DEF Spawned
    <2>3. Spawned' = 1 .. (k + 1)
      BY <2>1, <2>2
    <2>4. k + 1 \in 0 .. MaxLaunches
      BY <2>1
    <2> QED  BY <1>3, <2>3, <2>4 DEF SpawnedInOrder
  <1>5. Phases'
    <2>1. \A k \in Launches :
            /\ launch'[k].process = "none" <=> launch'[k].loop = "preparing"
            /\ launch'[k].loop = "preparing" => ~launch'[k].fault
            /\ launch'[k].loop = "over" => launch'[k].process = "exited"
      <3>1. \A k \in Launches \ {starting} :
              /\ launch'[k].process = "none" <=> launch'[k].loop = "preparing"
              /\ launch'[k].loop = "preparing" => ~launch'[k].fault
              /\ launch'[k].loop = "over" => launch'[k].process = "exited"
        BY <1>1 DEF Core, LaunchInv, Phases
      <3> QED  BY <1>2, <3>1
    <2>2. \A k \in Launches :
            launch'[k].loop = "marking" => starting' = k /\ active' = k
      BY <1>1, <1>2 DEF Core, LaunchInv, Phases
    <2>3. starting' # NoLaunch => launch'[starting'].loop \in {"preparing", "marking"}
      BY <1>1, <1>2
    <2>4. active' # NoLaunch => /\ launch'[active'].loop \in {"marking", "reading"}
                                /\ ~launch'[active'].fault
      BY <1>1, <1>2
    <2> QED  BY <2>1, <2>2, <2>3, <2>4 DEF Phases
  <1>6. StraysAreDying'
    <2>1. ~Reusable(active)
      BY <1>1 DEF Core, LoadInv, StartingAlone
    <2> QED  BY <1>1, <2>1
             DEF Core, LaunchInv, StraysAreDying, Reusable, NoLaunch, Launches
  <1>7. At(Loader)' = At(Loader) /\ On(Loader)' = On(Loader)
    BY <1>1 DEF At, On
  <1>8. StartingAlone'
    BY <1>1, <1>3 DEF StartingAlone, Core, LoadInv
  <1>9. LoaderHonest'
    BY <1>1, <1>7 DEF LoaderHonest, Core, LoadInv, Busy
  <1>10. ChatsFollow'
    BY <1>1 DEF ChatsFollow, FollowedUp, At
  <1>11. LoadedHasModel'
    BY <1>1 DEF LoadedHasModel, StartingAlone, Core, LoadInv, Preparing
  <1> QED  BY <1>4, <1>5, <1>6, <1>8, <1>9, <1>10, <1>11
           DEF Core, LoadInv, LaunchInv

LEMMA MarkedKeeps ==
    ASSUME Core, TypeOK', Marked
    PROVE  Core'
  <1>1. /\ starting \in Launches /\ launch[starting].loop = "marking"
        /\ starting' = NoLaunch /\ UNCHANGED <<active, loaded, task>>
        /\ \A k \in Launches \ {starting} : launch'[k] = launch[k]
        /\ launch'[starting] = [launch[starting] EXCEPT !.loop = "reading"]
        /\ ~Preparing
    BY DEF Core, TypeOK, Marked, Preparing
  <1>2. \A k \in Launches :
          /\ launch'[k].process = launch[k].process
          /\ launch'[k].loop = IF k = starting THEN "reading" ELSE launch[k].loop
          /\ launch'[k].fault = launch[k].fault /\ launch'[k].killed = launch[k].killed
          /\ launch'[k].close = launch[k].close
          /\ launch'[k].hasModel = launch[k].hasModel
    BY <1>1 DEF Core, TypeOK, Launch
  <1>3. ~Preparing'  BY <1>1 DEF Preparing
  <1>4. Spawned' = Spawned  BY <1>2 DEF Spawned
  <1>5. SpawnedInOrder'
    BY <1>3, <1>4 DEF SpawnedInOrder, Core, LaunchInv
  <1>6. Phases'
    BY <1>1, <1>2 DEF Core, LaunchInv, TypeOK, Phases
  <1>7. StraysAreDying'
    BY <1>1, <1>2 DEF Core, LaunchInv, StraysAreDying
  <1>8. At(Loader)' = At(Loader) /\ On(Loader)' = On(Loader)
    BY <1>1 DEF At, On
  <1>9. StartingAlone'
    BY <1>1, <1>3 DEF StartingAlone
  <1>10. LoaderHonest'
    BY <1>1, <1>2, <1>8 DEF LoaderHonest, Core, LoadInv, Busy
  <1>11. ChatsFollow'
    <2>1. FollowedUp
      BY <1>1 DEF ChatsFollow, Core, LoadInv, NoLaunch, Launches
    <2> QED  BY <1>1, <2>1 DEF ChatsFollow, FollowedUp, At
  <1>12. LoadedHasModel'
    BY <1>1, <1>2 DEF LoadedHasModel, Core, LoadInv, TypeOK
  <1> QED  BY <1>5, <1>6, <1>7, <1>9, <1>10, <1>11, <1>12
           DEF Core, LoadInv, LaunchInv

(* A launch that startWorker begins with is new. *)
LEMMA NextIsNew ==
    ASSUME Core, starting = NoLaunch, Next1 \in Launches
    PROVE  /\ launch[Next1].loop = "preparing" /\ active # Next1
           /\ \E k \in 0 .. MaxLaunches : Spawned = 1 .. k /\ Next1 = k + 1
  <1> PICK k \in 0 .. MaxLaunches : Spawned = 1 .. k
    BY DEF Core, LaunchInv, SpawnedInOrder
  <1>1. {l \in Launches : l = starting \/ l \in Spawned} = 1 .. k
    BY DEF Spawned, NoLaunch, Launches
  <1>2. Cardinality(1 .. k) = k
    BY FS_Interval, ProcessAssumption DEF ProcessAssumption
  <1>3. Next1 = k + 1  BY <1>1, <1>2 DEF Next1
  <1>4. Next1 \notin Spawned  BY <1>3
  <1> QED
    BY <1>3, <1>4 DEF Spawned, Core, LaunchInv, Phases, NoLaunch, Launches

LEMMA StartsLaunches ==
    ASSUME Core, Starts
    PROVE  /\ LaunchInv' /\ Preparing' /\ starting' = Next1 /\ Next1 \in Launches
           /\ active' # Next1 /\ ~Reusable(active)'
  <1>1. /\ launch[Next1].loop = "preparing" /\ active # Next1
        /\ \E k \in 0 .. MaxLaunches : Spawned = 1 .. k /\ Next1 = k + 1
    BY NextIsNew DEF Starts
  <1>2. Spawned' = Spawned  BY DEF Spawned, Starts
  <1>3. SpawnedInOrder'  BY <1>1, <1>2 DEF SpawnedInOrder, Starts
  <1>4. Phases'
    BY <1>1 DEF Core, LaunchInv, TypeOK, Phases, Starts, NoLaunch, Launches
  <1>5. StraysAreDying'
    BY DEF Core, LaunchInv, StraysAreDying, Starts
  <1>6. Preparing'
    BY <1>1 DEF Preparing, Starts, NoLaunch, Launches
  <1>7. ~Reusable(active)'
    BY DEF Starts, Reusable
  <1> QED  BY <1>1, <1>3, <1>4, <1>5, <1>6, <1>7 DEF LaunchInv, Starts

(* A chat that has to start a worker: loadOnce holds no launch meanwhile. *)
LEMMA ChatStartsKeeps ==
    ASSUME Core, TypeOK', Starts, Quiet, ~FollowedUp
    PROVE  Core'
  <1>1. /\ LaunchInv' /\ Preparing' /\ starting' = Next1 /\ Next1 \in Launches
        /\ active' # Next1 /\ ~Reusable(active)'
    BY StartsLaunches
  <1>2. At(Loader) # "start"
    BY DEF ChatsFollow, Core, LoadInv, Starts, Preparing
  <1>3. At(Loader) \in Busy => ~Usable(On(Loader))
    BY <1>2 DEF ChatsFollow, Core, LoadInv, Starts, Usable, Reusable, Busy
  <1>4. CASE task'[Loader] = task[Loader]
    <2>1. At(Loader)' = At(Loader) /\ On(Loader)' = On(Loader)
      BY <1>4 DEF At, On
    <2>2. Usable(On(Loader))' => Usable(On(Loader))
      BY <2>1 DEF Usable, Starts
    <2>3. StartingAlone'
      BY <1>1, <1>3, <2>1, <2>2 DEF StartingAlone, Starts
    <2>4. LoaderHonest'
      BY <2>1 DEF LoaderHonest, Core, LoadInv, Starts
    <2>5. ChatsFollow'
      BY <1>1, <1>2, <1>3, <2>1, <2>2 DEF ChatsFollow, Busy
    <2> QED  BY <1>1, <2>3, <2>4, <2>5 DEF Core, LoadInv, LoadedHasModel, Starts
  <1>5. CASE At(Loader)' \notin Busy
    BY <1>1, <1>5 DEF Core, LoadInv, StartingAlone, LoaderHonest, ChatsFollow,
                      LoadedHasModel, Busy, Starts
  <1> QED  BY <1>4, <1>5 DEF Quiet

-----------------------------------------------------------------------------
(* Every step is one of these, or moves loadOnce on a worker that is there. *)

(* loadOnce goes on with the launch it has. *)
LEMMA LoaderStaysKeeps ==
    ASSUME Core, TypeOK', Calm, loaded' = loaded,
           \A t \in Chats : At(t)' = "loaded" => At(t) = "loaded",
           At(Loader) \in Busy, On(Loader)' = On(Loader),
           At(Loader)' \in {"handshake", "sent", "answered"},
           At(Loader)' = "answered" =>
             launch'[On(Loader)].hasModel /\ launch[On(Loader)].loop = "reading",
           At(Loader) = "start" => ~(On(Loader) = starting /\ Preparing)
    PROVE  Core'
  <1>1. LaunchInv'  BY CalmLaunches
  <1>2. Preparing' <=> Preparing  BY DEF Preparing, Calm, Core, TypeOK
  <1>3. Reusable(active)' => Reusable(active)
    BY DEF Reusable, Calm, Core, TypeOK
  <1>4. Usable(On(Loader))' => Usable(On(Loader))
    BY DEF Usable, Calm, Core, TypeOK, NoLaunch
  <1>5. StartingAlone'
    BY <1>2, <1>3, <1>4 DEF Calm, StartingAlone, Core, LoadInv
  <1>6. On(Loader) \in Launches /\ ~loaded
    BY DEF LoaderHonest, Core, LoadInv
  <1>7. LoaderHonest'
    BY <1>6 DEF Calm, LoaderHonest
  <1>8. FollowedUp => FollowedUp'  BY DEF FollowedUp
  <1>9. ChatsFollow'
    <2>1. CASE FollowedUp  BY <1>8, <2>1 DEF ChatsFollow
    <2>2. CASE ~FollowedUp
      <3>1. At(Loader) \in {"handshake", "sent", "answered"}
        BY <2>2 DEF ChatsFollow, Core, LoadInv, Busy
      <3>2. starting # NoLaunch => Preparing
        BY <2>2 DEF ChatsFollow, Core, LoadInv
      <3>3. Usable(On(Loader))' => launch'[On(Loader)].process = "running"
        BY <1>4, <1>6, <2>2, <3>1 DEF ChatsFollow, Core, LoadInv, Calm
      <3> QED  BY <1>2, <3>2, <3>3 DEF ChatsFollow, Calm
    <2> QED  BY <2>1, <2>2
  <1>10. LoadedHasModel'
    BY <1>6 DEF LoadedHasModel
  <1> QED  BY <1>1, <1>5, <1>7, <1>9, <1>10 DEF Core, LoadInv

LEMMA StillIsCalm ==
    ASSUME UNCHANGED <<launch, active, starting>> PROVE Calm
  BY DEF Calm

(* loadOnce is over and nothing is being started. *)
LEMMA LoaderIdleKeeps ==
    ASSUME Core, TypeOK', UNCHANGED <<launch, active, starting>>,
           starting = NoLaunch, At(Loader)' \notin Busy, LoadedHasModel'
    PROVE  Core'
  <1>1. LaunchInv'  BY CalmLaunches, StillIsCalm
  <1>2. StartingAlone' /\ LoaderHonest' /\ ChatsFollow'
    BY DEF StartingAlone, LoaderHonest, ChatsFollow, Preparing, Busy
  <1> QED  BY <1>1, <1>2 DEF Core, LoadInv

LEMMA NotStartingWhenLoaded ==
    ASSUME Core, loaded PROVE starting = NoLaunch /\ At(Loader) \notin Busy
  BY DEF Core, LoadInv, StartingAlone, LoaderHonest

LEMMA CallLoadKeeps ==
    ASSUME Core, TypeOK', NEW t \in Tasks, CallLoad(t)
    PROVE  Core'
  <1>0. /\ t \in Chats \cup Loads /\ t # Loader /\ Loader \in Tasks
        /\ UNCHANGED <<launch, active, starting, loaded>>
        /\ task \in [Tasks -> Waits]
    BY TasksAre DEF CallLoad, Core, TypeOK, Waits
  <1>1. CASE IsLoaded /\ task' = Goes(t, "loaded", NoLaunch)
    <2>1. task'[Loader] = task[Loader]
      BY <1>0, <1>1 DEF Goes
    <2>2. starting = NoLaunch /\ At(Loader)' \notin Busy
      BY <1>1, <2>1, NotStartingWhenLoaded DEF IsLoaded, At
    <2>3. LoadedHasModel'
      BY <1>0 DEF LoadedHasModel, Core, LoadInv
    <2> QED  BY <1>0, <2>2, <2>3, LoaderIdleKeeps
  <1>2. CASE ~(IsLoaded /\ task' = Goes(t, "loaded", NoLaunch))
    <2>1. \/ task' = Goes(t, "load", NoLaunch)
          \/ task' = [Goes(t, "load", NoLaunch) EXCEPT ![Loader].at = "backoff"]
          \/ task' = Goes(t, "failed", NoLaunch)
      BY <1>2 DEF CallLoad
    <2>2. \A u \in Chats : At(u)' = "loaded" => At(u) = "loaded"
      BY <1>0, <2>1, TasksAre DEF At, Goes
    <2>3. task'[Loader] = task[Loader] \/ At(Loader)' \notin Busy
      BY <1>0, <2>1 DEF At, Goes, Busy, Waits
    <2> QED  BY <1>0, <2>2, <2>3, CalmKeeps, StillIsCalm DEF Quiet
  <1> QED  BY <1>1, <1>2

LEMMA LoadEndsLoader ==
    ASSUME NEW outcome, task' = LoadEnds(outcome)
    PROVE  /\ At(Loader)' = "idle"
           /\ outcome # "loaded" =>
                \A t \in Chats : At(t)' = "loaded" => At(t) = "loaded"
  BY TasksAre DEF LoadEnds, At

LEMMA LoadFailsKeeps ==
    ASSUME Core, TypeOK', LoadFails
    PROVE  Core'
  <1>1. Quiet
    BY LoadEndsLoader DEF LoadFails, Quiet, Busy
  <1>2. Calm  BY StillIsCalm DEF LoadFails
  <1> QED  BY <1>1, <1>2, CalmKeeps

LEMMA LoaderEnsuresKeeps ==
    ASSUME Core, TypeOK', LoaderEnsures
    PROVE  Core'
  <1>0. Loader \in Tasks /\ task \in [Tasks -> Waits] /\ UNCHANGED <<launch, active>>
    BY TasksAre DEF Core, TypeOK, Waits, LoaderEnsures
  <1>1. CASE loaded /\ task' = LoadEnds("loaded") /\ UNCHANGED <<starting, loaded>>
    <2>1. starting = NoLaunch /\ At(Loader)' \notin Busy
      BY <1>1, NotStartingWhenLoaded, LoadEndsLoader DEF Busy
    <2>2. LoadedHasModel'
      BY <1>0, <1>1 DEF LoadedHasModel, Core, LoadInv
    <2> QED  BY <1>0, <1>1, <2>1, <2>2, LoaderIdleKeeps
  <1>2. CASE ~(loaded /\ Reusable(active)) /\ EnsureStarted(Loader)
    <2>1. \A t \in Chats : At(t)' = At(t)
      BY <1>0, <1>2, TasksAre DEF EnsureStarted, Goes, At
    <2>2. FollowedUp' <=> FollowedUp  BY <2>1 DEF FollowedUp
    <2>3. CASE Reusable(active) /\ task' = Goes(Loader, "handshake", active)
               /\ UNCHANGED <<starting, loaded>>
      <3>1. At(Loader)' = "handshake" /\ On(Loader)' = active
        BY <1>0, <2>3 DEF Goes, At, On
      <3>2. LaunchInv'  BY <1>0, <2>3, CalmLaunches, StillIsCalm
      <3>3. ~Preparing /\ ~loaded /\ active \in Launches
            /\ launch[active].process = "running"
        BY <1>2, <2>3 DEF Core, LoadInv, StartingAlone, Reusable, TypeOK
      <3>4. Preparing' <=> Preparing  BY <1>0, <2>3 DEF Preparing
      <3>5. StartingAlone'
        BY <1>0, <2>3, <3>3, <3>4 DEF StartingAlone
      <3>6. LoaderHonest'
        BY <2>3, <3>1, <3>3 DEF LoaderHonest
      <3>7. ChatsFollow'
        BY <1>0, <2>2, <2>3, <3>1, <3>3, <3>4 DEF ChatsFollow, Core, LoadInv
      <3>8. LoadedHasModel'  BY <2>3, <3>3 DEF LoadedHasModel
      <3> QED  BY <3>2, <3>5, <3>6, <3>7, <3>8 DEF Core, LoadInv
    <2>4. CASE starting # NoLaunch /\ task' = Goes(Loader, "start", starting)
               /\ UNCHANGED <<starting, loaded>>
      <3>1. At(Loader)' = "start" /\ On(Loader)' = starting
        BY <1>0, <2>4 DEF Goes, At, On
      <3>2. LaunchInv'  BY <1>0, <2>4, CalmLaunches, StillIsCalm
      <3>3. ~loaded /\ starting \in Launches
        BY <2>4 DEF Core, LoadInv, StartingAlone, TypeOK
      <3>4. Preparing' <=> Preparing  BY <1>0, <2>4 DEF Preparing
      <3>5. Preparing => active # starting
        BY DEF Preparing, Core, LaunchInv, Phases
      <3>6. StartingAlone'
        <4>1. Reusable(active)' <=> Reusable(active)  BY <1>0 DEF Reusable
        <4>2. Preparing => ~Usable(On(Loader))'
          BY <1>0, <3>1, <3>5 DEF Usable
        <4> QED  BY <2>4, <3>3, <3>4, <4>1, <4>2 DEF StartingAlone, Core, LoadInv
      <3>7. LoaderHonest'
        BY <2>4, <3>1, <3>3 DEF LoaderHonest
      <3>8. ChatsFollow'
        BY <2>2, <2>4, <3>1, <3>4 DEF ChatsFollow, Core, LoadInv
      <3>9. LoadedHasModel'  BY <2>4, <3>3 DEF LoadedHasModel
      <3> QED  BY <3>2, <3>6, <3>7, <3>8, <3>9 DEF Core, LoadInv
    <2>5. CASE Starts /\ task' = Goes(Loader, "start", Next1)
      <3>1. At(Loader)' = "start" /\ On(Loader)' = Next1
        BY <1>0, <2>5 DEF Goes, At, On
      <3>2. /\ LaunchInv' /\ Preparing' /\ starting' = Next1 /\ Next1 \in Launches
            /\ active' # Next1 /\ ~Reusable(active)' /\ ~loaded'
        BY <2>5, StartsLaunches DEF Starts
      <3>3. ~Usable(On(Loader))'
        BY <3>1, <3>2 DEF Usable
      <3>4. StartingAlone'  BY <3>2, <3>3 DEF StartingAlone
      <3>5. LoaderHonest'  BY <3>1, <3>2 DEF LoaderHonest
      <3>6. ChatsFollow'  BY <3>1, <3>2 DEF ChatsFollow
      <3>7. LoadedHasModel'  BY <3>2 DEF LoadedHasModel
      <3> QED  BY <3>2, <3>4, <3>5, <3>6, <3>7 DEF Core, LoadInv
    <2> QED  BY <1>0, <1>2, <2>3, <2>4, <2>5 DEF EnsureStarted, Starts
  <1> QED  BY <1>1, <1>2 DEF LoaderEnsures

LEMMA LoaderAnsweredKeeps ==
    ASSUME Core, TypeOK', LoaderAnswered
    PROVE  Core'
  <1>1. CASE LoadFails  BY <1>1, LoadFailsKeeps
  <1>2. CASE Usable(On(Loader)) /\ loaded' = TRUE /\ task' = LoadEnds("loaded")
             /\ UNCHANGED <<launch, active, starting>>
    <2>1. active = On(Loader) /\ active # NoLaunch /\ At(Loader) = "answered"
      BY <1>2 DEF Usable, LoaderAnswered
    <2>2. launch[active].hasModel /\ launch[active].loop = "reading"
      BY <2>1 DEF Core, LoadInv, LoaderHonest, LaunchInv, Phases
    <2>3. starting = NoLaunch
      <3>1. ~Preparing
        BY <1>2, <2>1 DEF Core, LoadInv, StartingAlone, Busy
      <3> QED  BY <2>2, <3>1 DEF Preparing, Core, LaunchInv, Phases, TypeOK
    <2>4. At(Loader)' \notin Busy
      BY <1>2, LoadEndsLoader DEF Busy
    <2>5. LoadedHasModel'
      BY <1>2, <2>1, <2>2 DEF LoadedHasModel
    <2> QED  BY <1>2, <2>3, <2>4, <2>5, LoaderIdleKeeps
  <1> QED  BY <1>1, <1>2 DEF LoaderAnswered

LEMMA StartAwaitedKeeps ==
    ASSUME Core, TypeOK', NEW t \in Tasks, StartAwaited(t)
    PROVE  Core'
  <1>0. /\ Loader \in Tasks /\ task \in [Tasks -> Waits]
        /\ UNCHANGED <<launch, active, starting, loaded>> /\ Calm
        /\ At(t) = "start" /\ launch[On(t)].loop \notin {"preparing", "marking"}
    BY TasksAre, StillIsCalm DEF StartAwaited, Core, TypeOK, Waits
  <1>1. task' = [task EXCEPT ![t] = IF Usable(On(t))
                                    THEN [task[t] EXCEPT !.at = "handshake"]
                                    ELSE Ended(t, "refused", On(t))]
    BY DEF StartAwaited
  <1>2. At(t)' \in {"handshake", "refused"}
    BY <1>0, <1>1 DEF At, Ended, Waits
  <1>3. \A u \in Chats : At(u)' = "loaded" => At(u) = "loaded"
    BY <1>0, <1>1, <1>2, TasksAre DEF At
  <1>4. CASE t = Loader /\ At(Loader)' = "handshake"
    <2>1. On(Loader)' = On(Loader)
      BY <1>0, <1>1, <1>4 DEF On, At, Ended, Waits
    <2>2. ~(On(Loader) = starting /\ Preparing)
      BY <1>0, <1>4 DEF Preparing
    <2> QED  BY <1>0, <1>3, <1>4, <2>1, <2>2, LoaderStaysKeeps DEF Busy
  <1>5. CASE ~(t = Loader /\ At(Loader)' = "handshake")
    <2>1. task'[Loader] = task[Loader] \/ At(Loader)' \notin Busy
      BY <1>0, <1>1, <1>2, <1>5 DEF Busy
    <2> QED  BY <1>0, <1>3, <2>1, CalmKeeps DEF Quiet
  <1> QED  BY <1>4, <1>5

LEMMA ChatEnsuresKeeps ==
    ASSUME Core, TypeOK', NEW t \in Tasks, ChatEnsures(t)
    PROVE  Core'
  <1>0. /\ Loader \in Tasks /\ task \in [Tasks -> Waits] /\ t # Loader /\ t \in Chats
        /\ UNCHANGED <<launch, active>> /\ At(t) = "loaded" /\ ~FollowedUp
    BY TasksAre DEF ChatEnsures, Core, TypeOK, Waits, FollowedUp
  <1>1. \E stage \in {"handshake", "start", "failed"} : \E l : task' = Goes(t, stage, l)
    BY DEF ChatEnsures, EnsureStarted
  <1>2. /\ task'[Loader] = task[Loader]
        /\ \A u \in Chats : At(u)' = "loaded" => At(u) = "loaded"
    BY <1>0, <1>1, TasksAre DEF Goes, At
  <1>3. CASE UNCHANGED <<starting, loaded>>
    BY <1>0, <1>2, <1>3, CalmKeeps, StillIsCalm DEF Quiet
  <1>4. CASE Starts
    <2>1. Quiet  BY <1>2, <1>4 DEF Quiet, Starts
    <2> QED  BY <1>0, <1>4, <2>1, ChatStartsKeeps
  <1> QED  BY <1>0, <1>3, <1>4 DEF ChatEnsures, EnsureStarted, Starts

LEMMA SendKeeps ==
    ASSUME Core, TypeOK', NEW t \in Tasks, Send(t)
    PROVE  Core'
  <1>0. /\ Loader \in Tasks /\ task \in [Tasks -> Waits]
        /\ UNCHANGED <<launch, active, starting, loaded>> /\ Calm
        /\ At(t) = "handshake"
    BY TasksAre, StillIsCalm DEF Send, Core, TypeOK, Waits
  <1>1. \/ task' = [task EXCEPT ![t] = [task[t] EXCEPT !.at = "sent"]]
        \/ task' = [task EXCEPT ![t] = Ended(t, "refused", On(t))]
    BY DEF Send
  <1>2. At(t)' \in {"sent", "refused"}
    BY <1>0, <1>1 DEF At, Ended, Waits
  <1>3. \A u \in Chats : At(u)' = "loaded" => At(u) = "loaded"
    BY <1>0, <1>1, <1>2, TasksAre DEF At
  <1>4. CASE t = Loader /\ At(Loader)' = "sent"
    <2>1. On(Loader)' = On(Loader)
      BY <1>0, <1>1, <1>4 DEF On, At, Ended, Waits
    <2> QED  BY <1>0, <1>3, <1>4, <2>1, LoaderStaysKeeps DEF Busy
  <1>5. CASE ~(t = Loader /\ At(Loader)' = "sent")
    <2>1. task'[Loader] = task[Loader] \/ At(Loader)' \notin Busy
      BY <1>0, <1>1, <1>2, <1>5 DEF Busy
    <2> QED  BY <1>0, <1>3, <2>1, CalmKeeps DEF Quiet
  <1> QED  BY <1>4, <1>5

(* Rejected requests are over; no other task moves. *)
LEMMA RejectedQuiet ==
    ASSUME NEW tasks \in [Tasks -> Waits], NEW l
    PROVE  \A t \in Tasks : \/ Rejected(tasks, l)[t] = tasks[t]
                            \/ Rejected(tasks, l)[t].at = "refused"
  BY DEF Rejected, Ended

LEMMA QuietByTasks ==
    ASSUME task \in [Tasks -> Waits], loaded' => loaded,
           \A t \in Tasks : task'[t] = task[t] \/ At(t)' \in {"refused", "done", "closing"}
    PROVE  Quiet
  BY TasksAre DEF Quiet, At, Busy

LEMMA UnhealthyKeeps ==
    ASSUME Core, TypeOK', NEW l \in Launches, launch[l].loop = "reading",
           ProtocolUnhealthy(l)
    PROVE  Core'
  <1>1. task \in [Tasks -> Waits] /\ launch \in [Launches -> Launch]
    BY DEF Core, TypeOK, Waits
  <1>2. Quiet
    <2>1. \A t \in Tasks : task'[t] = task[t] \/ At(t)' = "refused"
      BY <1>1, RejectedQuiet DEF ProtocolUnhealthy, At
    <2> QED  BY <1>1, <2>1, QuietByTasks DEF ProtocolUnhealthy
  <1>3. launch' = [launch EXCEPT
          ![l] = [launch[l] EXCEPT !.fault = TRUE, !.killed = TRUE,
                                   !.handshake = HandshakeClosed(l)]]
    BY DEF ProtocolUnhealthy
  <1>4. /\ \A k \in Launches \ {l} : launch'[k] = launch[k]
        /\ launch'[l].process = launch[l].process /\ launch'[l].loop = launch[l].loop
        /\ launch'[l].hasModel = launch[l].hasModel /\ launch'[l].killed
    BY <1>1, <1>3 DEF Launch
  <1>5. Dropped(l)
    BY <1>4 DEF Dropped, ProtocolUnhealthy
  <1> QED  BY <1>2, <1>5, DroppedKeeps

LEMMA HandleExitKeeps ==
    ASSUME Core, TypeOK', NEW l \in Launches, HandleExit(l)
    PROVE  Core'
  <1>1. task \in [Tasks -> Waits] /\ launch \in [Launches -> Launch]
    BY DEF Core, TypeOK, Waits
  <1>2. Quiet
    <2>1. \A t \in Tasks : task'[t] = task[t] \/ At(t)' = "refused"
      BY <1>1, RejectedQuiet DEF HandleExit, At
    <2> QED  BY <1>1, <2>1, QuietByTasks DEF HandleExit
  <1>3. Over(l).process = "exited" /\ Over(l).loop = "over"
    BY DEF Over, NewLaunch
  <1>4. /\ \A k \in Launches \ {l} : launch'[k] = launch[k]
        /\ launch'[l] = Over(l)
    BY <1>1 DEF HandleExit
  <1>5. Dropped(l)
    BY <1>3, <1>4 DEF Dropped, HandleExit
  <1> QED  BY <1>2, <1>5, DroppedKeeps

LEMMA CloseIsCalm ==
    ASSUME TypeOK, NEW l \in Launches \cup {NoLaunch}, NEW tasks, Close(l, tasks),
           UNCHANGED <<active, starting>>
    PROVE  Calm
  <1>1. launch \in [Launches -> Launch]  BY DEF TypeOK
  <1>2. \/ launch' = [launch EXCEPT
             ![l] = [launch[l] EXCEPT !.close = ClosingStage(l),
                                      !.handshake = HandshakeClosed(l),
                                      !.closeWhenStarted = FALSE]]
        \/ launch' = [launch EXCEPT
             ![l] = [launch[l] EXCEPT !.closeWhenStarted = FALSE]]
    BY DEF Close
  <1>3. ClosingStage(l) # "no"  BY DEF ClosingStage
  <1>4. \A k \in Launches :
          /\ launch'[k].process = launch[k].process
          /\ launch'[k].loop = launch[k].loop
          /\ launch'[k].fault = launch[k].fault
          /\ launch'[k].hasModel = launch[k].hasModel
          /\ launch'[k].killed = launch[k].killed
          /\ launch'[k].close = launch[k].close \/ launch'[k].close # "no"
    <2>1. CASE launch' = [launch EXCEPT
             ![l] = [launch[l] EXCEPT !.close = ClosingStage(l),
                                      !.handshake = HandshakeClosed(l),
                                      !.closeWhenStarted = FALSE]]
      BY <1>1, <1>3, <2>1 DEF Launch
    <2>2. CASE launch' = [launch EXCEPT
             ![l] = [launch[l] EXCEPT !.closeWhenStarted = FALSE]]
      BY <1>1, <2>2 DEF Launch
    <2> QED  BY <1>2, <2>1, <2>2
  <1> QED  BY <1>4 DEF Calm

LEMMA CloseKeeps ==
    ASSUME Core, TypeOK', NEW l \in Launches \cup {NoLaunch},
           NEW tasks \in [Tasks -> Waits], Close(l, tasks),
           \A t \in Tasks : tasks[t] = task[t] \/ tasks[t].at = "closing",
           UNCHANGED <<active, starting>>, loaded' => loaded
    PROVE  Core'
  <1>1. task \in [Tasks -> Waits]  BY DEF Core, TypeOK, Waits
  <1>2. \A t \in Tasks : task'[t] = task[t] \/ At(t)' \in {"refused", "closing"}
    <2>1. task' = tasks \/ task' = Rejected(tasks, l)  BY DEF Close
    <2> QED  BY <2>1, RejectedQuiet DEF At
  <1>3. Quiet  BY <1>1, <1>2, QuietByTasks
  <1>4. Calm  BY CloseIsCalm DEF Core
  <1> QED  BY <1>3, <1>4, CalmKeeps

LEMMA WorkerKeeps ==
    ASSUME Core, TypeOK', NEW l \in Launches,
           Ready(l) \/ BadLine(l) \/ HandshakeTimeout(l) \/ Exit(l)
             \/ HandleExit(l) \/ Answers(l)
    PROVE  Core'
  <1>0. task \in [Tasks -> Waits] /\ launch \in [Launches -> Launch]
    BY DEF Core, TypeOK, Waits
  <1>1. CASE Ready(l)
    <2>1. Calm  BY <1>0, <1>1 DEF Calm, Ready, Launch
    <2>2. Quiet  BY <1>0, <1>1, QuietByTasks DEF Ready
    <2> QED  BY <2>1, <2>2, CalmKeeps
  <1>2. CASE BadLine(l) \/ HandshakeTimeout(l)
    BY <1>2, UnhealthyKeeps DEF BadLine, HandshakeTimeout
  <1>3. CASE Exit(l)  BY <1>3, ExitKeeps
  <1>4. CASE HandleExit(l)  BY <1>4, HandleExitKeeps
  <1>5. CASE Answers(l)
    <2> PICK t \in Tasks, type \in {"completed", "failed"} : Answer(l, t, type)
      BY <1>5 DEF Answers
    <2>1. launch' = [launch EXCEPT ![l] = [launch[l] EXCEPT
            !.hasModel = @ \/ (t = Loader /\ type = "completed")]]
      BY DEF Answer
    <2>2. Calm /\ loaded' = loaded
      BY <1>0, <2>1 DEF Calm, Answer, Launch
    <2>3. /\ At(t) = "sent" /\ On(t) = l /\ launch[l].loop = "reading"
          /\ task' = [task EXCEPT ![t] =
               Ended(t, IF type = "completed" THEN "answered" ELSE "refused", l)]
      BY DEF Answer, At, On
    <2>4. \A u \in Chats : At(u)' = "loaded" => At(u) = "loaded"
      BY <1>0, <2>3 DEF At, Ended
    <2>5. CASE t = Loader /\ type = "completed"
      <3>1. At(Loader)' = "answered" /\ On(Loader)' = l
        BY <1>0, <2>3, <2>5, TasksAre DEF At, On, Ended
      <3>2. launch'[l].hasModel
        BY <1>0, <2>1, <2>5 DEF Launch
      <3> QED  BY <2>2, <2>3, <2>4, <2>5, <3>1, <3>2, LoaderStaysKeeps DEF Busy
    <2>6. CASE ~(t = Loader /\ type = "completed")
      <3>1. task'[Loader] = task[Loader] \/ At(Loader)' \notin Busy
        BY <1>0, <2>3, <2>6, TasksAre DEF At, Ended, Busy
      <3> QED  BY <2>2, <2>4, <3>1, CalmKeeps DEF Quiet
    <2> QED  BY <2>5, <2>6
  <1> QED  BY <1>1, <1>2, <1>3, <1>4, <1>5

LEMMA CloseStepKeeps ==
    ASSUME Core, TypeOK', NEW l \in Launches, CloseStep(l)
    PROVE  Core'
  <1>0. task \in [Tasks -> Waits] /\ launch \in [Launches -> Launch]
    BY DEF Core, TypeOK, Waits
  <1>1. CASE CloseRace(l)
    <2>1. launch' = [launch EXCEPT ![l] = [launch[l] EXCEPT
            !.close = IF launch[l].loop = "over" THEN "over" ELSE "waiting",
            !.killed = launch[l].process = "running"]]
      BY <1>1 DEF CloseRace
    <2>2. Calm  BY <1>0, <1>1, <2>1 DEF Calm, CloseRace, Launch
    <2>3. Quiet  BY <1>0, <1>1, QuietByTasks DEF CloseRace
    <2> QED  BY <2>2, <2>3, CalmKeeps
  <1>2. CASE CloseAfterStart(l)
    BY <1>0, <1>2, CloseKeeps DEF CloseAfterStart
  <1> QED  BY <1>1, <1>2 DEF CloseStep

LEMMA UnloadKeeps ==
    ASSUME Core, TypeOK', UnloadCloses \/ UnloadEnds \/ CallUnload \/ DrainShutsDown
    PROVE  Core'
  <1>0. /\ task \in [Tasks -> Waits] /\ launch \in [Launches -> Launch]
        /\ On(Unload) \in Launches \cup {NoLaunch}
        /\ Unload \in Tasks /\ Unload # Loader /\ Unload \notin Chats /\ Loader \in Tasks
        /\ Chats \subseteq Tasks
    BY TasksAre DEF Core, TypeOK, Waits, On
  <1>1. CASE UnloadCloses
    <2> DEFINE tasks == Goes(Unload, "closing", On(Unload))
    <2>1. /\ tasks \in [Tasks -> Waits]
          /\ \A t \in Tasks : tasks[t] = task[t] \/ tasks[t].at = "closing"
      BY <1>0, GoesType, StagesAre DEF Goes
    <2> HIDE DEF tasks
    <2> QED  BY <1>0, <1>1, <2>1, CloseKeeps DEF UnloadCloses, tasks
  <1>2. CASE UnloadEnds \/ CallUnload
    <2>1. /\ UNCHANGED <<launch, active, starting, loaded>>
          /\ \E stage \in Stages : \E l : task' = Goes(Unload, stage, l)
      BY <1>2, StagesAre DEF UnloadEnds, CallUnload
    <2>2. Quiet  BY <1>0, <2>1 DEF Quiet, Goes, At
    <2> QED  BY <2>1, <2>2, CalmKeeps, StillIsCalm
  <1>3. CASE DrainShutsDown
    <2>1. UNCHANGED <<active, starting, loaded>>  BY <1>3 DEF DrainShutsDown
    <2>2. CASE active # NoLaunch /\ Close(active, task)
      <3>1. active \in Launches  BY <2>2 DEF Core, TypeOK
      <3>2. \A t \in Tasks : task[t] = task[t] \/ task[t].at = "closing"
        OBVIOUS
      <3> QED  BY <1>0, <2>1, <2>2, <3>1, <3>2, CloseKeeps
    <2>3. CASE /\ UNCHANGED task
               /\ \/ UNCHANGED launch
                  \/ launch' = [launch EXCEPT ![starting].closeWhenStarted = TRUE]
      <3>1. Calm  BY <1>0, <2>1, <2>3 DEF Calm, Launch
      <3>2. Quiet  BY <1>0, <2>1, <2>3, QuietByTasks
      <3> QED  BY <3>1, <3>2, CalmKeeps
    <2> QED  BY <1>3, <2>2, <2>3 DEF DrainShutsDown
  <1> QED  BY <1>1, <1>2, <1>3

LEMMA CoreInit == Init => Core
  <1> SUFFICES ASSUME Init PROVE Core  OBVIOUS
  <1>0. TypeOK  BY TypeInit
  <1>1. \A l \in Launches : launch[l] = NewLaunch  BY DEF Init
  <1>2. Spawned = {}  BY <1>1 DEF Spawned, NewLaunch
  <1>3. 0 \in 0 .. MaxLaunches /\ 1 .. 0 = {}
    BY ProcessAssumption DEF ProcessAssumption
  <1>4. Phases  BY <1>1 DEF Phases, Init, NewLaunch
  <1>5. SpawnedInOrder  BY <1>2, <1>3 DEF SpawnedInOrder, Preparing, Init
  <1>6. StraysAreDying  BY <1>1 DEF StraysAreDying, NewLaunch
  <1>7. At(Loader) = "idle" /\ FollowedUp
    BY TasksAre DEF Init, At, FollowedUp
  <1>8. StartingAlone /\ LoaderHonest /\ ChatsFollow /\ LoadedHasModel
    BY <1>7 DEF StartingAlone, LoaderHonest, ChatsFollow, LoadedHasModel,
                Preparing, Init, Busy
  <1> QED  BY <1>0, <1>4, <1>5, <1>6, <1>8 DEF Core, LaunchInv, LoadInv

LEMMA CoreStep == ASSUME Core, [Next]_vars PROVE Core'
  <1>0. TypeOK'  BY TypeStep DEF Core
  <1>1. CASE LoaderStep
    BY <1>0, <1>1, LoaderEnsuresKeeps, LoaderAnsweredKeeps, LoadFailsKeeps
    DEF LoaderStep, LoaderUnavailable, LoaderRefused
  <1>2. CASE StartStep
    BY <1>0, <1>2, PrepareFailsKeeps, SpawnKeeps, MarkedKeeps DEF StartStep
  <1>3. CASE \E t \in Tasks : TaskStep(t)
    BY <1>0, <1>3, StartAwaitedKeeps, ChatEnsuresKeeps, SendKeeps DEF TaskStep
  <1>4. CASE \E l \in Launches : CloseStep(l)
    BY <1>0, <1>4, CloseStepKeeps
  <1>5. CASE UnloadCloses \/ UnloadEnds \/ CallUnload \/ DrainShutsDown
    BY <1>0, <1>5, UnloadKeeps
  <1>6. CASE \E t \in Tasks : CallLoad(t)
    BY <1>0, <1>6, CallLoadKeeps
  <1>7. CASE \E l \in Launches : \/ Ready(l) \/ BadLine(l) \/ HandshakeTimeout(l)
                                \/ Exit(l) \/ HandleExit(l) \/ Answers(l)
    BY <1>0, <1>7, WorkerKeeps
  <1>8. CASE UNCHANGED vars
    <2>1. task \in [Tasks -> Waits]  BY DEF Core, TypeOK, Waits
    <2> QED  BY <1>0, <1>8, <2>1, CalmKeeps, StillIsCalm, QuietByTasks DEF vars
  <1> QED  BY <1>1, <1>2, <1>3, <1>4, <1>5, <1>6, <1>7, <1>8 DEF Next, Continue

-----------------------------------------------------------------------------
(* Requests and their launches. *)

PendingHonest ==
    /\ \A p \in pending : /\ ~launch[p[2]].fault /\ launch[p[2]].close = "no"
                          /\ launch[p[2]].loop # "over"
    /\ \A t \in Tasks : At(t) = "sent" => <<t, On(t)>> \in pending
    /\ loadState = "resident" => active # NoLaunch

Inv == Core /\ PendingHonest

(* The launches of what is pending stay as they are, and nobody is sent. *)
LEMMA PendingKept ==
    ASSUME Inv, pending' = pending,
           \A l \in Launches :
             \/ launch'[l] = launch[l]
             \/ /\ launch'[l].fault = launch[l].fault
                /\ launch'[l].close = launch[l].close
                /\ launch'[l].loop # "over",
           \A t \in Tasks : At(t)' = "sent" => task'[t] = task[t],
           loadState' = "resident" => active' # NoLaunch
    PROVE  PendingHonest'
  <1>1. \A p \in pending : p[2] \in Launches
    BY DEF Inv, Core, TypeOK
  <1>2. \A p \in pending' : /\ ~launch'[p[2]].fault /\ launch'[p[2]].close = "no"
                            /\ launch'[p[2]].loop # "over"
    BY <1>1 DEF Inv, PendingHonest
  <1>3. \A t \in Tasks : At(t)' = "sent" => <<t, On(t)'>> \in pending'
    BY DEF Inv, PendingHonest, At, On
  <1> QED  BY <1>2, <1>3 DEF PendingHonest

(* Launch l is dropped and what is pending on it rejected. *)
LEMMA PendingRejected ==
    ASSUME Inv, NEW l \in Launches \cup {NoLaunch}, NEW tasks \in [Tasks -> Waits],
           pending' = PendingElsewhere(l), task' = Rejected(tasks, l),
           \A t \in Tasks : tasks[t].at = "sent" => tasks[t] = task[t],
           \A k \in Launches \ {l} : launch'[k] = launch[k],
           loadState' = "resident" => active' # NoLaunch
    PROVE  PendingHonest'
  <1>1. \A p \in pending : p[2] \in Launches
    BY DEF Inv, Core, TypeOK
  <1>2. \A p \in pending' : /\ ~launch'[p[2]].fault /\ launch'[p[2]].close = "no"
                            /\ launch'[p[2]].loop # "over"
    BY <1>1 DEF Inv, PendingHonest, PendingElsewhere
  <1>3. ASSUME NEW t \in Tasks, At(t)' = "sent"
        PROVE  <<t, On(t)'>> \in pending'
    <2>1. task'[t] = tasks[t] /\ ~(<<t, l>> \in pending
                                    /\ tasks[t] = [at |-> "sent", launch |-> l])
      BY <1>3 DEF Rejected, At, Ended
    <2>2. tasks[t].at = "sent" /\ tasks[t] = task[t] /\ task[t] \in Waits
      BY <1>3, <2>1 DEF At, Inv, Core, TypeOK, Waits
    <2>3. <<t, task[t].launch>> \in pending
      BY <2>2 DEF Inv, PendingHonest, At, On
    <2>4. task[t].launch # l
      BY <2>1, <2>2, <2>3 DEF Waits
    <2> QED  BY <2>1, <2>2, <2>3, <2>4 DEF PendingElsewhere, On
  <1> QED  BY <1>2, <1>3 DEF PendingHonest

LEMMA CloseHonest ==
    ASSUME Inv, NEW l \in Launches \cup {NoLaunch}, NEW tasks \in [Tasks -> Waits],
           \A t \in Tasks : tasks[t].at = "sent" => tasks[t] = task[t],
           Close(l, tasks), active' = active
    PROVE  PendingHonest'
  <1>0. launch \in [Launches -> Launch]  BY DEF Inv, Core, TypeOK
  <1>1. loadState' = "resident" => active' # NoLaunch
    BY DEF Close, LoadStateFor, Inv, PendingHonest
  <1>2. CASE pending' = PendingElsewhere(l) /\ task' = Rejected(tasks, l)
    <2>1. \A k \in Launches \ {l} : launch'[k] = launch[k]
      BY <1>0 DEF Close
    <2> QED  BY <1>1, <1>2, <2>1, PendingRejected
  <1>3. CASE /\ launch' = [launch EXCEPT ![l].closeWhenStarted = FALSE]
             /\ task' = tasks /\ pending' = pending
    <2>1. \A k \in Launches : /\ launch'[k].fault = launch[k].fault
                              /\ launch'[k].close = launch[k].close
                              /\ launch'[k].loop = launch[k].loop
      BY <1>0, <1>3 DEF Launch
    <2>2. \A p \in pending : p[2] \in Launches
      BY DEF Inv, Core, TypeOK
    <2>3. \A p \in pending' : /\ ~launch'[p[2]].fault /\ launch'[p[2]].close = "no"
                              /\ launch'[p[2]].loop # "over"
      BY <1>3, <2>1, <2>2 DEF Inv, PendingHonest
    <2>4. \A t \in Tasks : At(t)' = "sent" => <<t, On(t)'>> \in pending'
      BY <1>3 DEF Inv, PendingHonest, At, On
    <2> QED  BY <1>1, <2>3, <2>4 DEF PendingHonest
  <1> QED  BY <1>2, <1>3 DEF Close

LEMMA LoadEndsSent ==
    ASSUME NEW outcome \in {"loaded", "failed"}, task' = LoadEnds(outcome)
    PROVE  \A t \in Tasks : At(t)' = "sent" => task'[t] = task[t]
  BY DEF LoadEnds, At

LEMMA GoesSent ==
    ASSUME task \in [Tasks -> Waits], NEW t \in Tasks,
           NEW stage \in Stages \ {"sent"}, NEW l, task' = Goes(t, stage, l)
    PROVE  \A u \in Tasks : At(u)' = "sent" => task'[u] = task[u]
  BY DEF Goes, At

LEMMA LoadFailsHonest == ASSUME Inv, LoadFails PROVE PendingHonest'
  <1>1. \A t \in Tasks : At(t)' = "sent" => task'[t] = task[t]
    BY LoadEndsSent DEF LoadFails
  <1>2. loadState' = "resident" => active' # NoLaunch
    BY DEF LoadFails, Inv, PendingHonest
  <1> QED  BY <1>1, <1>2, PendingKept DEF LoadFails

LEMMA LoaderHonestly == ASSUME Inv, LoaderStep PROVE PendingHonest'
  <1>0. task \in [Tasks -> Waits] /\ Loader \in Tasks
    BY TasksAre DEF Inv, Core, TypeOK, Waits
  <1>1. CASE LoadFails  BY <1>1, LoadFailsHonest
  <1>2. CASE LoaderEnsures
    <2>1. \A t \in Tasks : At(t)' = "sent" => task'[t] = task[t]
      <3>1. CASE task' = LoadEnds("loaded")  BY <3>1, LoadEndsSent
      <3>2. CASE \E stage \in {"handshake", "start"} : \E l : task' = Goes(Loader, stage, l)
        BY <1>0, <3>2, GoesSent, StagesAre
      <3> QED  BY <1>2, <3>1, <3>2 DEF LoaderEnsures, EnsureStarted
    <2>2. loadState' = "resident" => active' # NoLaunch
      BY <1>2 DEF LoaderEnsures, EnsureStarted, Inv, PendingHonest
    <2> QED  BY <1>2, <2>1, <2>2, PendingKept DEF LoaderEnsures
  <1>3. CASE LoaderAnswered /\ ~LoadFails
    <2>1. \A t \in Tasks : At(t)' = "sent" => task'[t] = task[t]
      BY <1>3, LoadEndsSent DEF LoaderAnswered
    <2>2. active' # NoLaunch
      BY <1>3 DEF LoaderAnswered, Usable
    <2> QED  BY <1>3, <2>1, <2>2, PendingKept DEF LoaderAnswered
  <1> QED  BY <1>1, <1>2, <1>3 DEF LoaderStep, LoaderUnavailable, LoaderRefused

LEMMA StartHonest == ASSUME Inv, StartStep PROVE PendingHonest'
  <1>0. task \in [Tasks -> Waits] /\ launch \in [Launches -> Launch]
        /\ starting \in Launches \cup {NoLaunch}
    BY DEF Inv, Core, TypeOK, Waits
  <1>1. CASE PrepareFails
    <2>1. \A t \in Tasks : At(t)' = "sent" => task'[t] = task[t]
      BY <1>1 DEF PrepareFails, At, Ended
    <2>2. loadState' = "resident" => active' # NoLaunch
      BY <1>1 DEF PrepareFails, Inv, PendingHonest
    <2>3. \A p \in pending' : /\ ~launch'[p[2]].fault /\ launch'[p[2]].close = "no"
                              /\ launch'[p[2]].loop # "over"
      BY <1>0, <1>1 DEF PrepareFails, NewLaunch, Inv, PendingHonest
    <2>4. \A t \in Tasks : At(t)' = "sent" => <<t, On(t)'>> \in pending'
      BY <1>1, <2>1 DEF Inv, PendingHonest, At, On, PrepareFails
    <2> QED  BY <2>2, <2>3, <2>4 DEF PendingHonest
  <1>2. CASE SpawnWorker
    <2>1. launch' = [launch EXCEPT ![starting] =
            [launch[starting] EXCEPT !.process = "running", !.loop = "marking"]]
      BY <1>2 DEF SpawnWorker
    <2>2. \A l \in Launches : \/ launch'[l] = launch[l]
                              \/ /\ launch'[l].fault = launch[l].fault
                                 /\ launch'[l].close = launch[l].close
                                 /\ launch'[l].loop # "over"
      BY <1>0, <2>1 DEF Launch
    <2> QED  BY <1>2, <2>2, PendingKept DEF SpawnWorker
  <1>3. CASE Marked
    <2>1. launch' = [launch EXCEPT ![starting] =
            [launch[starting] EXCEPT !.loop = "reading"]]
      BY <1>3 DEF Marked
    <2>2. \A l \in Launches : \/ launch'[l] = launch[l]
                              \/ /\ launch'[l].fault = launch[l].fault
                                 /\ launch'[l].close = launch[l].close
                                 /\ launch'[l].loop # "over"
      BY <1>0, <2>1 DEF Launch
    <2>3. loadState' = "resident" => active' # NoLaunch
      BY <1>3 DEF Marked, Inv, PendingHonest
    <2> QED  BY <1>3, <2>2, <2>3, PendingKept DEF Marked
  <1> QED  BY <1>1, <1>2, <1>3 DEF StartStep

LEMMA TaskHonest ==
    ASSUME Inv, NEW t \in Tasks, TaskStep(t) \/ CallLoad(t) PROVE PendingHonest'
  <1>0. task \in [Tasks -> Waits] /\ On(t) \in Launches \cup {NoLaunch}
    BY DEF Inv, Core, TypeOK, Waits, On
  <1>1. CASE StartAwaited(t)
    <2>1. \A u \in Tasks : At(u)' = "sent" => task'[u] = task[u]
      BY <1>0, <1>1 DEF StartAwaited, At, Ended, Waits
    <2>2. loadState' = "resident" => active' # NoLaunch
      BY <1>1 DEF StartAwaited, Inv, PendingHonest
    <2> QED  BY <1>1, <2>1, <2>2, PendingKept DEF StartAwaited
  <1>2. CASE ChatEnsures(t)
    <2>1. \E stage \in {"handshake", "start", "failed"} : \E l : task' = Goes(t, stage, l)
      BY <1>2 DEF ChatEnsures, EnsureStarted
    <2>2. \A u \in Tasks : At(u)' = "sent" => task'[u] = task[u]
      BY <1>0, <2>1, GoesSent, StagesAre
    <2>3. loadState' = "resident" => active' # NoLaunch
      BY <1>2 DEF ChatEnsures, EnsureStarted, Inv, PendingHonest
    <2> QED  BY <1>2, <2>2, <2>3, PendingKept DEF ChatEnsures
  <1>3. CASE CallLoad(t)
    <2>1. \A u \in Tasks : At(u)' = "sent" => task'[u] = task[u]
      <3>1. CASE \E stage \in {"loaded", "load", "failed"} : task' = Goes(t, stage, NoLaunch)
        BY <1>0, <3>1, GoesSent, StagesAre
      <3>2. CASE task' = [Goes(t, "load", NoLaunch) EXCEPT ![Loader].at = "backoff"]
        BY <1>0, <3>2, TasksAre DEF Goes, At, Waits
      <3> QED  BY <1>3, <3>1, <3>2 DEF CallLoad
    <2>2. loadState' = "resident" => active' # NoLaunch
      BY <1>3 DEF CallLoad, Inv, PendingHonest
    <2> QED  BY <1>3, <2>1, <2>2, PendingKept DEF CallLoad
  <1>4. CASE Send(t)
    <2>0. UNCHANGED <<launch, active, loadState>>  BY <1>4 DEF Send
    <2>1. CASE Sendable(On(t))
      <3>1. /\ active = On(t) /\ active # NoLaunch /\ launch[On(t)].close = "no"
            /\ pending' = pending \cup {<<t, On(t)>>}
            /\ \/ task' = [task EXCEPT ![t] = [task[t] EXCEPT !.at = "sent"]]
               \/ task' = [task EXCEPT ![t] = Ended(t, "refused", On(t))]
        BY <1>4, <2>1 DEF Send, Sendable, Usable
      <3>2. ~launch[On(t)].fault /\ launch[On(t)].loop # "over"
        BY <3>1 DEF Inv, Core, LaunchInv, Phases
      <3>3. \A p \in pending' : /\ ~launch'[p[2]].fault /\ launch'[p[2]].close = "no"
                                /\ launch'[p[2]].loop # "over"
        BY <2>0, <3>1, <3>2 DEF Inv, PendingHonest
      <3>4. \A u \in Tasks : At(u)' = "sent" => <<u, On(u)'>> \in pending'
        BY <1>0, <3>1 DEF Inv, PendingHonest, At, On, Ended, Waits
      <3> QED  BY <2>0, <3>3, <3>4 DEF PendingHonest, Inv
    <2>2. CASE ~Sendable(On(t))
      <3>1. \A u \in Tasks : At(u)' = "sent" => task'[u] = task[u]
        BY <1>0, <1>4, <2>2 DEF Send, At, Ended
      <3> QED  BY <1>4, <2>0, <2>2, <3>1, PendingKept DEF Send, Inv, PendingHonest
    <2> QED  BY <2>1, <2>2
  <1> QED  BY <1>1, <1>2, <1>3, <1>4 DEF TaskStep

LEMMA WorkerHonest ==
    ASSUME Inv, NEW l \in Launches,
           Ready(l) \/ BadLine(l) \/ HandshakeTimeout(l) \/ Exit(l)
             \/ HandleExit(l) \/ Answers(l)
    PROVE  PendingHonest'
  <1>0. task \in [Tasks -> Waits] /\ launch \in [Launches -> Launch]
    BY DEF Inv, Core, TypeOK, Waits
  <1>1. CASE Ready(l)
    <2>1. launch' = [launch EXCEPT ![l] = [launch[l] EXCEPT !.handshake = "ready"]]
      BY <1>1 DEF Ready
    <2>2. \A k \in Launches : \/ launch'[k] = launch[k]
                              \/ /\ launch'[k].fault = launch[k].fault
                                 /\ launch'[k].close = launch[k].close
                                 /\ launch'[k].loop # "over"
      BY <1>0, <1>1, <2>1 DEF Launch, Ready
    <2> QED  BY <1>1, <2>2, PendingKept DEF Ready, Inv, PendingHonest
  <1>2. CASE BadLine(l) \/ HandshakeTimeout(l)
    <2>1. ProtocolUnhealthy(l)  BY <1>2 DEF BadLine, HandshakeTimeout
    <2>2. \A k \in Launches \ {l} : launch'[k] = launch[k]
      BY <1>0, <2>1 DEF ProtocolUnhealthy
    <2>3. loadState' = "resident" => active' # NoLaunch
      BY <2>1 DEF ProtocolUnhealthy, Inv, PendingHonest
    <2> QED  BY <1>0, <2>1, <2>2, <2>3, PendingRejected DEF ProtocolUnhealthy
  <1>3. CASE Exit(l)
    <2>1. launch' = [launch EXCEPT ![l] = [launch[l] EXCEPT !.process = "exited"]]
      BY <1>3 DEF Exit
    <2>2. \A k \in Launches : \/ launch'[k] = launch[k]
                              \/ /\ launch'[k].fault = launch[k].fault
                                 /\ launch'[k].close = launch[k].close
                                 /\ launch'[k].loop # "over"
      <3>1. launch[l].loop # "over"
        BY <1>3 DEF Exit, Inv, Core, LaunchInv, Phases
      <3> QED  BY <1>0, <2>1, <3>1 DEF Launch
    <2> QED  BY <1>3, <2>2, PendingKept DEF Exit, Inv, PendingHonest
  <1>4. CASE HandleExit(l)
    <2>1. \A k \in Launches \ {l} : launch'[k] = launch[k]
      BY <1>0, <1>4 DEF HandleExit
    <2>2. loadState' = "resident" => active' # NoLaunch
      BY <1>4 DEF HandleExit, Inv, PendingHonest
    <2>3. CASE IsCrash(l)
      BY <1>0, <1>4, <2>1, <2>2, <2>3, PendingRejected DEF HandleExit
    <2>4. CASE ~IsCrash(l)
      <3>1. /\ pending' = pending /\ task' = task /\ launch[l].close # "no"
        BY <1>4, <2>4 DEF HandleExit, IsCrash
      <3>2. \A p \in pending : p[2] \in Launches \ {l}
        BY <3>1 DEF Inv, PendingHonest, Core, TypeOK
      <3>3. \A p \in pending' : /\ ~launch'[p[2]].fault /\ launch'[p[2]].close = "no"
                                /\ launch'[p[2]].loop # "over"
        BY <2>1, <3>1, <3>2 DEF Inv, PendingHonest
      <3>4. \A t \in Tasks : At(t)' = "sent" => <<t, On(t)'>> \in pending'
        BY <3>1 DEF Inv, PendingHonest, At, On
      <3> QED  BY <2>2, <3>3, <3>4 DEF PendingHonest
    <2> QED  BY <2>3, <2>4
  <1>5. CASE Answers(l)
    <2> PICK t \in Tasks, type \in {"completed", "failed"} : Answer(l, t, type)
      BY <1>5 DEF Answers
    <2>1. launch' = [launch EXCEPT ![l] = [launch[l] EXCEPT
            !.hasModel = @ \/ (t = Loader /\ type = "completed")]]
      BY DEF Answer
    <2>2. \A k \in Launches : /\ launch'[k].fault = launch[k].fault
                              /\ launch'[k].close = launch[k].close
                              /\ launch'[k].loop = launch[k].loop
      BY <1>0, <2>1 DEF Launch
    <2>3. /\ pending' = pending \ {<<t, l>>} /\ active' = active
          /\ \A u \in Tasks : At(u)' = "sent" => u # t /\ task'[u] = task[u]
      BY <1>0 DEF Answer, At, Ended
    <2>4. \A p \in pending : p[2] \in Launches
      BY DEF Inv, Core, TypeOK
    <2>5. \A p \in pending' : /\ ~launch'[p[2]].fault /\ launch'[p[2]].close = "no"
                              /\ launch'[p[2]].loop # "over"
      BY <2>2, <2>3, <2>4 DEF Inv, PendingHonest
    <2>6. \A u \in Tasks : At(u)' = "sent" => <<u, On(u)'>> \in pending'
      BY <2>3 DEF Inv, PendingHonest, At, On
    <2>7. loadState' = "resident" => active' # NoLaunch
      BY DEF Answer, Inv, PendingHonest
    <2> QED  BY <2>5, <2>6, <2>7 DEF PendingHonest
  <1> QED  BY <1>1, <1>2, <1>3, <1>4, <1>5

LEMMA CloseStepHonest ==
    ASSUME Inv, NEW l \in Launches, CloseStep(l) PROVE PendingHonest'
  <1>0. task \in [Tasks -> Waits] /\ launch \in [Launches -> Launch]
    BY DEF Inv, Core, TypeOK, Waits
  <1>1. CASE CloseRace(l)
    <2>1. \A p \in pending : p[2] \in Launches \ {l}
      BY <1>1 DEF CloseRace, Inv, PendingHonest, Core, TypeOK
    <2>2. \A k \in Launches \ {l} : launch'[k] = launch[k]
      BY <1>0, <1>1 DEF CloseRace
    <2>3. UNCHANGED <<pending, task, loadState, active>>  BY <1>1 DEF CloseRace
    <2> QED  BY <2>1, <2>2, <2>3 DEF Inv, PendingHonest, At, On
  <1>2. CASE CloseAfterStart(l)
    BY <1>0, <1>2, CloseHonest DEF CloseAfterStart
  <1> QED  BY <1>1, <1>2 DEF CloseStep

LEMMA UnloadHonest ==
    ASSUME Inv, UnloadCloses \/ UnloadEnds \/ CallUnload \/ DrainShutsDown
    PROVE  PendingHonest'
  <1>0. /\ task \in [Tasks -> Waits] /\ launch \in [Launches -> Launch]
        /\ Unload \in Tasks /\ On(Unload) \in Launches \cup {NoLaunch}
    BY TasksAre DEF Inv, Core, TypeOK, Waits, On
  <1>1. CASE UnloadCloses
    <2> DEFINE tasks == Goes(Unload, "closing", On(Unload))
    <2>1. tasks \in [Tasks -> Waits]
          /\ \A t \in Tasks : tasks[t].at = "sent" => tasks[t] = task[t]
      BY <1>0, GoesType, StagesAre DEF Goes
    <2> HIDE DEF tasks
    <2> QED  BY <1>0, <1>1, <2>1, CloseHonest DEF UnloadCloses, tasks
  <1>2. CASE UnloadEnds \/ CallUnload
    <2>1. /\ UNCHANGED <<launch, active, pending, loadState>>
          /\ \E stage \in {"done", "handshake", "refused"} : \E l :
               task' = Goes(Unload, stage, l)
      BY <1>2 DEF UnloadEnds, CallUnload
    <2>2. \A u \in Tasks : At(u)' = "sent" => task'[u] = task[u]
      BY <1>0, <2>1, GoesSent, StagesAre
    <2> QED  BY <2>1, <2>2, PendingKept DEF Inv, PendingHonest
  <1>3. CASE DrainShutsDown
    <2>1. UNCHANGED active  BY <1>3 DEF DrainShutsDown
    <2>2. CASE active # NoLaunch /\ Close(active, task)
      <3>1. active \in Launches  BY <2>2 DEF Inv, Core, TypeOK
      <3> QED  BY <1>0, <2>1, <2>2, <3>1, CloseHonest
    <2>3. CASE /\ UNCHANGED <<pending, task, loadState>>
               /\ \/ UNCHANGED launch
                  \/ launch' = [launch EXCEPT ![starting].closeWhenStarted = TRUE]
      <3>1. \A k \in Launches : /\ launch'[k].fault = launch[k].fault
                                /\ launch'[k].close = launch[k].close
                                /\ launch'[k].loop = launch[k].loop
        BY <1>0, <2>3 DEF Launch
      <3>2. \A p \in pending : p[2] \in Launches
        BY DEF Inv, Core, TypeOK
      <3>3. \A p \in pending' : /\ ~launch'[p[2]].fault /\ launch'[p[2]].close = "no"
                                /\ launch'[p[2]].loop # "over"
        BY <2>3, <3>1, <3>2 DEF Inv, PendingHonest
      <3> QED  BY <2>1, <2>3, <3>3 DEF Inv, PendingHonest, At, On
    <2> QED  BY <1>3, <2>2, <2>3 DEF DrainShutsDown
  <1> QED  BY <1>1, <1>2, <1>3

LEMMA InvInit == Init => Inv
  <1> SUFFICES ASSUME Init PROVE Inv  OBVIOUS
  <1>1. PendingHonest
    BY DEF Init, PendingHonest, At
  <1> QED  BY <1>1, CoreInit DEF Inv

LEMMA InvStep == ASSUME Inv, [Next]_vars PROVE Inv'
  <1>0. Core'  BY CoreStep DEF Inv
  <1>1. CASE Continue
    BY <1>1, LoaderHonestly, StartHonest, UnloadHonest, TaskHonest, CloseStepHonest, <1>0
    DEF Continue, Inv
  <1>2. CASE CallUnload \/ DrainShutsDown
    BY <1>0, <1>2, UnloadHonest DEF Inv
  <1>3. CASE \E t \in Tasks : CallLoad(t)
    BY <1>0, <1>3, TaskHonest DEF Inv
  <1>4. CASE \E l \in Launches : \/ Ready(l) \/ BadLine(l) \/ HandshakeTimeout(l)
                                \/ Exit(l) \/ HandleExit(l) \/ Answers(l)
    BY <1>0, <1>4, WorkerHonest DEF Inv
  <1>5. CASE UNCHANGED vars
    BY <1>0, <1>5 DEF Inv, PendingHonest, vars, At, On
  <1> QED  BY <1>1, <1>2, <1>3, <1>4, <1>5 DEF Next

-----------------------------------------------------------------------------

THEOREM InvAlways == Spec => []Inv
  BY InvInit, InvStep, PTL DEF Spec

(* The types of the variables, in every state the process can reach. *)
THEOREM TypeCorrect == Spec => []TypeOK
  <1>1. Inv => TypeOK  BY DEF Inv, Core
  <1> QED  BY <1>1, InvAlways, PTL

(* No request outlives its launch: what sendControl has registered waits on a *)
(* launch that still answers or still rejects it, and this.loaded speaks of a *)
(* worker that has answered a load.                                           *)
THEOREM RequestsNeverOutliveLaunch == Spec => []PendingIsLive
  <1>1. Inv => PendingIsLive
    BY DEF Inv, Core, LoadInv, LoadedHasModel, PendingHonest, PendingIsLive
  <1> QED  BY <1>1, InvAlways, PTL

(* A worker that runs and that the process no longer holds as active has been *)
(* killed or told to shut down: restarts leave no worker behind.              *)
THEOREM NoWorkerLeftBehind == Spec => []StraysAreDying
  <1>1. Inv => StraysAreDying  BY DEF Inv, Core, LaunchInv
  <1> QED  BY <1>1, InvAlways, PTL

(* A launch that is prepared is spawned once at most, in order, and while     *)
(* startWorker is busy with one no other is usable and nothing is loaded.     *)
THEOREM OneWorkerAtATime == Spec => [](SpawnedInOrder /\ StartingAlone)
  <1>1. Inv => SpawnedInOrder /\ StartingAlone
    BY DEF Inv, Core, LaunchInv, LoadInv
  <1> QED  BY <1>1, InvAlways, PTL

-----------------------------------------------------------------------------
(* An answer: the lines of the worker (StreamedAnswer). *)

Ids == {"chat", "cancel"}
ChatStates == {"unknown", "registered", "accepted", "started", "terminal"}

Trackers == [negotiated : {TRUE}, state : [Ids -> ChatStates]]

(* What the tracker knows of a chat that goes on is what the worker has said,  *)
(* and of a cancel that the worker has not read, that it was sent.             *)
LinesInv ==
    /\ tracker \in Trackers
    /\ worker = "idle" => said = "nothing" /\ command = "no"
    /\ worker = "generating" =>
         /\ said \in {"nothing", "accepted", "started", "token"}
         /\ said = "nothing" => tracker.state["chat"] = "registered"
         /\ said = "accepted" => tracker.state["chat"] = "accepted"
         /\ said \in {"started", "token"} => tracker.state["chat"] = "started"
    /\ at = "loading" => worker = "idle"
    /\ command = "sent" => tracker.state["cancel"] = "registered"
    /\ blame # "router"

LEMMA StateSet ==
    ASSUME NEW k \in Trackers, NEW id \in Ids, NEW s \in ChatStates
    PROVE  /\ [k EXCEPT !.state[id] = s] \in Trackers
           /\ [k EXCEPT !.state[id] = s].state[id] = s
           /\ \A other \in Ids \ {id} :
                 [k EXCEPT !.state[id] = s].state[other] = k.state[other]
  BY DEF Trackers

LEMMA RegisterIs ==
    ASSUME NEW k \in Trackers, NEW id \in Ids
    PROVE  /\ Register(k, id) \in Trackers
           /\ Register(k, id).state[id] = "registered"
           /\ \A other \in Ids \ {id} : Register(k, id).state[other] = k.state[other]
  <1>1. "registered" \in ChatStates
    BY DEF ChatStates
  <1> QED BY <1>1, StateSet DEF Register

LEMMA ConsumeIs ==
    ASSUME NEW k \in Trackers, NEW line, line.id \in Ids, line.type \in RequestEvents
    PROVE  /\ Consume(k, line) \in Trackers
           /\ line.type \in {"accepted", "started"} =>
                 Consume(k, line).state[line.id] = line.type
           /\ line.type \in {"token", "prefill_progress"} => Consume(k, line) = k
           /\ \A other \in Ids \ {line.id} : Consume(k, line).state[other] = k.state[other]
  <1>1. CASE line.type \in {"accepted", "started"}
    <2>1. Consume(k, line) = [k EXCEPT !.state[line.id] = line.type]
      BY <1>1 DEF Consume, Terminals
    <2>2. line.type \in ChatStates
      BY <1>1 DEF ChatStates
    <2> QED BY <1>1, <2>1, <2>2, StateSet
  <1>2. CASE line.type \in Terminals
    <2>1. Consume(k, line) = [k EXCEPT !.state[line.id] = "terminal"]
      BY <1>2 DEF Consume, Terminals
    <2>2. "terminal" \in ChatStates /\ line.type \notin {"accepted", "started"}
          /\ line.type \notin {"token", "prefill_progress"}
      BY <1>2 DEF ChatStates, Terminals
    <2> QED BY <2>1, <2>2, StateSet
  <1>3. CASE line.type \in {"token", "prefill_progress"}
    <2>1. Consume(k, line) = k
      BY <1>3 DEF Consume, Terminals
    <2> QED BY <1>3, <2>1
  <1> QED BY <1>1, <1>2, <1>3 DEF RequestEvents, Terminals

(* Which chat line the tracker takes, and what it knows then. *)
LEMMA HearsIs ==
    ASSUME LinesInv, NEW type \in RequestEvents, Hears(type)
    PROVE  /\ tracker' \in Trackers
           /\ tracker'.state["cancel"] = tracker.state["cancel"]
           /\ worker = "generating" /\ said' = type /\ blame' = blame
           /\ type \in {"accepted", "started"} => tracker'.state["chat"] = type
           /\ type = "token" => tracker'.state["chat"] = "started"
  <1> PICK line : line = ChatLine(type)
    OBVIOUS
  <1>1. line.id = "chat" /\ line.type = type
    BY DEF ChatLine, Line
  <1>2. /\ tracker' = Consume(tracker, line) /\ Accepts(tracker, line)
        /\ worker = "generating" /\ said' = type /\ blame' = blame
    BY DEF Hears
  <1>3. type = "token" => tracker.state["chat"] = "started"
    BY <1>1, <1>2 DEF Accepts, Follows, Terminals, RequestEvents
  <1>4. "chat" \in Ids /\ "cancel" \in Ids \ {"chat"} /\ tracker \in Trackers
    BY DEF LinesInv, Ids
  <1> QED BY <1>1, <1>2, <1>3, <1>4, ConsumeIs

LEMMA CancelSentIs ==
    ASSUME LinesInv, CancelSent
    PROVE  /\ tracker' \in Trackers
           /\ tracker'.state["cancel"] = "registered" /\ command' = "sent"
           /\ worker = "idle" => tracker'.state["chat"] = "registered"
           /\ worker # "idle" => tracker'.state["chat"] = tracker.state["chat"]
  <1> PICK k : k = IF worker = "idle" THEN Register(tracker, "chat") ELSE tracker
    OBVIOUS
  <1>1. tracker \in Trackers /\ "chat" \in Ids \ {"cancel"} /\ "cancel" \in Ids
    BY DEF LinesInv, Ids
  <1>2. /\ k \in Trackers
        /\ worker = "idle" => k.state["chat"] = "registered"
        /\ worker # "idle" => k = tracker
    BY <1>1, RegisterIs
  <1>3. tracker' = Register(k, "cancel") /\ command' = "sent"
    BY DEF CancelSent
  <1> QED BY <1>1, <1>2, <1>3, RegisterIs

LEMMA AbortsLines ==
    ASSUME LinesInv, Aborts, worker' = worker, at' = at \/ at' # "loading"
    PROVE  LinesInv'
  <1>1. said' = said /\ blame' = blame
    BY DEF Aborts
  <1>2. CASE worker = "generating" /\ CancelSent
    BY <1>1, <1>2, CancelSentIs DEF LinesInv
  <1>3. CASE UNCHANGED <<tracker, command>>
    BY <1>1, <1>3 DEF LinesInv
  <1> QED BY <1>2, <1>3 DEF Aborts

LEMMA FailsMoves == Fails => at' \in {"caught", "ended"}
  BY DEF Fails, Throws, JsonEnds, Ends

(* What a worker that keeps the protocol may say next is accepted. *)
LEMMA ProperAccepted ==
    ASSUME LinesInv, worker = "generating", NEW line, CanSay(line), line.inSequence,
           line \in {ChatLine(type) : type \in RequestEvents \cup {"ready", "garbage"}}
                      \cup {CancelLine("accepted"), Line("token", "chat", FALSE)}
    PROVE  Accepts(tracker, line)
  <1>1. CASE line = CancelLine("accepted")
    <2>1. line.id = "cancel" /\ line.type = "accepted" /\ line.inSequence
      BY <1>1 DEF CancelLine, Line
    <2>2. tracker.state["cancel"] = "registered" /\ tracker.negotiated
          /\ "cancel" \in DOMAIN tracker.state
      BY <2>1 DEF LinesInv, CanSay, Ids, Trackers
    <2>3. Follows("registered", "accepted")
      BY DEF Follows, Terminals
    <2> QED BY <2>1, <2>2, <2>3 DEF Accepts, Decodes, RequestEvents
  <1>2. ASSUME NEW type \in RequestEvents \cup {"ready", "garbage"}, line = ChatLine(type)
        PROVE  Accepts(tracker, line)
    <2>1. line.id = "chat" /\ line.type = type /\ line.inSequence
      BY <1>2 DEF ChatLine, Line
    <2>2. type \in RequestEvents
      BY <2>1 DEF CanSay
    <2>3. tracker.negotiated /\ "chat" \in DOMAIN tracker.state
      BY DEF LinesInv, Ids, Trackers
    <2>4. Follows(tracker.state["chat"], type)
      BY <2>1, <2>2 DEF LinesInv, CanSay, Follows, Terminals, RequestEvents
    <2> QED BY <2>1, <2>2, <2>3, <2>4 DEF Accepts, Decodes, RequestEvents
  <1>3. line # Line("token", "chat", FALSE)
    BY DEF Line
  <1> QED BY <1>1, <1>2, <1>3

LEMMA InitLines == AnswerInit => LinesInv
  <1> SUFFICES ASSUME AnswerInit PROVE LinesInv
    OBVIOUS
  <1>1. tracker = [NewTracker(Ids) EXCEPT !.negotiated = TRUE]
    <2>1. tracker = Consume(NewTracker(Ids), Line("ready", "none", TRUE))
      BY DEF AnswerInit, Ids
    <2>2. Line("ready", "none", TRUE).type = "ready"
      BY DEF Line
    <2> QED BY <2>1, <2>2 DEF Consume, Terminals
  <1> QED BY <1>1 DEF AnswerInit, LinesInv, NewTracker, ChatStates, Trackers

LEMMA StepLines == LinesInv /\ [AnswerNext]_answerVars => LinesInv'
  <1> SUFFICES ASSUME LinesInv, [AnswerNext]_answerVars PROVE LinesInv'
    OBVIOUS
  <1>1. CASE Load
    <2>4. worker = "idle"
      BY <1>1 DEF Load, LinesInv
    <2>5. "chat" \in Ids /\ "cancel" \in Ids \ {"chat"} /\ tracker \in Trackers
      BY DEF LinesInv, Ids
    <2>1. CASE Fails /\ UNCHANGED <<worker, wire>>
      BY <2>1, FailsMoves DEF LinesInv, wire
    <2>2. CASE worker' = "generating" /\ UNCHANGED <<said, blame>>
               /\ worker = "idle" /\ CancelSent /\ at' = "chatting"
      BY <2>2, CancelSentIs DEF LinesInv
    <2>3. CASE worker' = "generating" /\ UNCHANGED <<said, blame, command>>
               /\ worker = "idle" /\ tracker' = Register(tracker, "chat")
               /\ at' = "chatting"
      BY <2>3, <2>5, RegisterIs DEF LinesInv
    <2> QED BY <1>1, <2>1, <2>2, <2>3, <2>4 DEF Load
  <1>2. CASE Progress
    <2>1. PICK type \in {"accepted", "started"} : Hears(type)
      BY <1>2 DEF Progress
    <2>2. UNCHANGED <<worker, command, at>>
      BY <1>2 DEF Progress
    <2>3. type \in RequestEvents
      BY DEF RequestEvents
    <2> QED BY <2>1, <2>2, <2>3, HearsIs DEF LinesInv
  <1>3. CASE Token
    <2>1. Hears("token") /\ UNCHANGED <<worker, command, at>>
      BY <1>3 DEF Token
    <2>2. "token" \in RequestEvents
      BY DEF RequestEvents
    <2> QED BY <2>1, <2>2, HearsIs DEF LinesInv
  <1>4. CASE Completed
    <2>1. Hears("completed") /\ command' = command /\ worker' \in {"answered", "cancelled"}
          /\ at' \in {"draining", "ended"}
      BY <1>4 DEF Completed, Answered, JsonEnds, Ends
    <2>2. "completed" \in RequestEvents
      BY DEF RequestEvents
    <2> QED BY <2>1, <2>2, HearsIs DEF LinesInv
  <1>5. CASE CancelProgress
    <2>1. PICK type \in {"accepted", "completed"} :
                /\ command = (IF type = "accepted" THEN "sent" ELSE "read")
                /\ tracker' = Consume(tracker, CancelLine(type))
                /\ command' = IF type = "accepted" THEN "read" ELSE "done"
      BY <1>5 DEF CancelProgress
    <2>2. UNCHANGED <<worker, said, blame, at>> /\ said # "nothing"
      BY <1>5 DEF CancelProgress
    <2>3. type \in RequestEvents
      BY DEF RequestEvents
    <2>4. /\ tracker' \in Trackers
          /\ \A other \in Ids \ {"cancel"} : tracker'.state[other] = tracker.state[other]
      <3>1. "cancel" \in Ids /\ tracker \in Trackers
        BY DEF LinesInv, Ids
      <3>2. CancelLine(type).id = "cancel" /\ CancelLine(type).type = type
        BY DEF CancelLine, Line
      <3> QED BY <2>1, <2>3, <3>1, <3>2, ConsumeIs
    <2>5. tracker'.state["chat"] = tracker.state["chat"]
      BY <2>4 DEF Ids
    <2> QED BY <2>1, <2>2, <2>4, <2>5 DEF LinesInv, CancelProgress
  <1>6. CASE ChatRejected
    <2>1. worker' = "failed" /\ command' = command /\ at' # "loading"
      BY <1>6, FailsMoves DEF ChatRejected
    <2>2. CASE Hears("failed")
      <3>1. "failed" \in RequestEvents
        BY DEF RequestEvents
      <3> QED BY <2>1, <2>2, <3>1, HearsIs DEF LinesInv
    <2>3. CASE UNCHANGED <<tracker, said, blame>>
      BY <2>1, <2>3 DEF LinesInv
    <2> QED BY <1>6, <2>2, <2>3 DEF ChatRejected
  <1>7. CASE Refused
    <2>1. /\ worker = "generating" /\ worker' = "failed"
          /\ UNCHANGED <<tracker, said, command>> /\ at' # "loading"
      BY <1>7, FailsMoves DEF Refused
    <2>2. blame' = "worker"
      BY <1>7, <2>1, ProperAccepted DEF Refused
    <2> QED BY <2>1, <2>2 DEF LinesInv
  <1>8. CASE ClientLeaves
    <2>1. worker' = worker /\ (at' = at \/ at' # "loading")
      BY <1>8 DEF ClientLeaves
    <2>2. CASE Aborts
      BY <2>1, <2>2, AbortsLines
    <2>3. CASE UNCHANGED <<wire, aborted>>
      BY <2>1, <2>3 DEF LinesInv, wire
    <2> QED BY <1>8, <2>2, <2>3 DEF ClientLeaves
  <1>9. CASE OperatorCancels
    <2>1. worker' = worker /\ Aborts /\ at' = at
      BY <1>9 DEF OperatorCancels
    <2> QED BY <2>1, AbortsLines
  <1>10. CASE UNCHANGED <<worker, tracker, said, command, blame>>
              /\ (at' = at \/ at' # "loading")
    BY <1>10 DEF LinesInv
  <1>11. ASSUME Heartbeat \/ Drained \/ Tell \/ Told \/ Catch \/ Apologized
                \/ QueueWrites \/ Pull \/ ClientReads
         PROVE  UNCHANGED <<worker, tracker, said, command, blame>>
                /\ (at' = at \/ at' # "loading")
    BY <1>11 DEF Heartbeat, Drained, Tell, Told, Catch, Apologized, QueueWrites, Pull,
                 ClientReads, Throws, Ends, wire
  <1>12. ASSUME AdapterReads \/ AdapterEnds \/ OllamaClientLeaves
         PROVE  UNCHANGED <<worker, tracker, said, command, blame>>
                /\ (at' = at \/ at' # "loading")
    BY <1>12 DEF AdapterReads, AdapterEnds, AdapterOnly, OllamaClientLeaves, wire
  <1>13. CASE UNCHANGED answerVars
    BY <1>10, <1>13 DEF answerVars, wire
  <1> QED BY <1>1, <1>2, <1>3, <1>4, <1>5, <1>6, <1>7, <1>8, <1>9, <1>10, <1>11, <1>12,
             <1>13 DEF AnswerNext, Proceeds

(* A worker that keeps the protocol is never killed for a line of its own,     *)
(* whatever text it generates, however cancels, aborts and the last line of    *)
(* the chat pass each other.                                                   *)
THEOREM ProperLinesAccepted == AnswerSpec => []GoodLinesAccepted
  <1>1. LinesInv => GoodLinesAccepted
    BY DEF LinesInv, GoodLinesAccepted
  <1> QED BY <1>1, InitLines, StepLines, PTL DEF AnswerSpec

-----------------------------------------------------------------------------
(* An answer: what the client is told of its end. *)

Bare == {"role", "beat", "call", "finish", "done", "error", "body", "created", "completed"}
Deltas == [kind : Modes, text : Seq(Symbols)]
Chunks == Deltas \cup [kind : Bare, text : {<< >>}]
Shown == Deltas \cup [kind : {"beat"}, text : {<< >>}]
Readable == Chunks \cup {Chunk("final")}
Piped == [writer : {"queue"}, chunk : Shown] \cup [writer : {"route"}, chunk : Chunks]

Has(s, kind) == \E i \in DOMAIN s : s[i].kind = kind
PipeHas(p, kind) == \E i \in DOMAIN p : p[i].chunk.kind = kind
RouteIn(p) == \E i \in DOMAIN p : p[i].writer = "route"
OneOfRoute(p) ==
    \A i, j \in DOMAIN p : p[i].writer = "route" /\ p[j].writer = "route" => i = j
DoneLast(s) == \A i \in DOMAIN s : s[i].kind = "done" <=> i = Len(s)
EndLast(s) == \A i \in DOMAIN s : s[i].kind \in {"final", "error"} => i = Len(s)

(* A chunk of the kind has been written. *)
Out(kind) == PipeHas(pipe, kind) \/ Has(buffer, kind) \/ Has(received, kind)

TextTyped ==
    /\ text \in AnswerTexts /\ fed \in 0 .. Len(text) /\ filter \in Filters[text][fed]
    /\ reading = [n \in 0 .. Len(text) |-> Parsed(Take(text, n))]

ChunksTyped ==
    /\ writes \in Seq(Shown) /\ script \in Seq(Chunks)
    /\ pipe \in Seq(Piped) /\ OneOfRoute(pipe)
    /\ buffer \in Seq(Chunks) /\ Len(buffer) <= 1
    /\ received \in Seq(Readable)

(* How the request is recorded goes with where the route is. *)
Recorded ==
    /\ route \in Routes /\ (adapter = "none" <=> route # "ollama")
    /\ at \in {"loading", "chatting", "draining", "telling", "caught", "apologizing",
               "ended"}
    /\ worker = "generating" => at = "chatting"
    /\ status \in {"active", "ok", "error", "cancelled"}
    /\ status = "active" <=> at \notin {"apologizing", "ended"}
    /\ at = "apologizing" => status = "error"
    /\ cancelled = "early" => aborted /\ at # "telling" /\ status # "ok"

(* Whoever has left is written nothing, nor is a client that is not streamed to. *)
Unwritten ==
    /\ ~connected => writes = << >> /\ pipe = << >> /\ buffer = << >> /\ route # "ollama"
    /\ ~Streamed => /\ writes = << >> /\ pipe = << >> /\ buffer = << >> /\ script = << >>
                    /\ at \in {"loading", "chatting", "ended"}
                    /\ ~Has(received, "done") /\ ~Has(received, "error")

(* The adapter of the Ollama route stops where it tells of the end. *)
EndedOnce ==
    /\ route # "ollama" => ~Has(received, "final")
    /\ route = "ollama" =>
         /\ ~Has(received, "done") /\ EndLast(received)
         /\ Has(received, "final") \/ Has(received, "error") => adapter = "stopped"

NoEndYet ==
    at \in {"loading", "chatting", "draining", "caught"} =>
        ~Out("done") /\ ~Out("error") /\ ~Has(received, "final")

(* [DONE] is the last of the script, and nothing is told of the end before it. *)
Telling ==
    at = "telling" =>
        /\ ~Out("error") /\ ~Has(script, "error") /\ DoneLast(script)
        /\ script # << >> => ~PipeHas(pipe, "done")
        /\ script # << >> \/ RouteIn(pipe) =>
              ~Has(buffer, "done") /\ ~Has(received, "done") /\ ~Has(received, "final")
        /\ script = << >> /\ connected /\ route = "stream" => Out("done")

(* The adapter hears of an error unless it has stopped before. *)
Heard == adapter = "stopped" \/ Has(buffer, "error") \/ PipeHas(pipe, "error")

Apologizing ==
    at = "apologizing" =>
        /\ ~Out("done") /\ ~Has(received, "final")
        /\ script \in {<< >>, <<Chunk("error")>>}
        /\ route = "ollama" /\ script = << >> => Heard

EndTold ==
    at = "ended" =>
        /\ status = "ok" /\ Streamed =>
              /\ ~Out("error") /\ ~PipeHas(pipe, "done")
              /\ route = "stream" /\ connected => Out("done")
        /\ status = "error" =>
              ~Out("done") /\ ~Has(received, "final") /\ (route = "ollama" => Heard)
        /\ status = "cancelled" => ~Out("done") /\ ~Out("error")

FlowInv ==
    /\ TextTyped /\ ChunksTyped /\ Recorded /\ Unwritten /\ EndedOnce /\ NoEndYet
    /\ Telling /\ Apologizing /\ EndTold

-----------------------------------------------------------------------------
(* What is in a sequence of chunks. *)

LEMMA HasEmpty == \A kind : ~Has(<< >>, kind)
  BY DEF Has

LEMMA HasOne == ASSUME NEW c PROVE \A kind : Has(<<c>>, kind) <=> c.kind = kind
  BY DEF Has

LEMMA HasAppend ==
    ASSUME NEW S, NEW s \in Seq(S), NEW c \in S
    PROVE  \A kind : Has(Append(s, c), kind) <=> Has(s, kind) \/ c.kind = kind
  <1>1. \A i \in DOMAIN s : i \in DOMAIN Append(s, c) /\ Append(s, c)[i] = s[i]
    OBVIOUS
  <1>2. Len(s) + 1 \in DOMAIN Append(s, c) /\ Append(s, c)[Len(s) + 1] = c
    OBVIOUS
  <1>3. \A i \in DOMAIN Append(s, c) : i \in DOMAIN s \/ i = Len(s) + 1
    OBVIOUS
  <1> QED BY <1>1, <1>2, <1>3 DEF Has

LEMMA HasConcat ==
    ASSUME NEW S, NEW s \in Seq(S), NEW t \in Seq(S)
    PROVE  \A kind : Has(s \o t, kind) <=> Has(s, kind) \/ Has(t, kind)
  <1>1. DOMAIN s = 1 .. Len(s) /\ DOMAIN t = 1 .. Len(t) /\ Len(s) \in Nat /\ Len(t) \in Nat
    OBVIOUS
  <1>2. /\ DOMAIN (s \o t) = 1 .. Len(s) + Len(t)
        /\ \A i \in 1 .. Len(s) + Len(t) :
              (s \o t)[i] = IF i <= Len(s) THEN s[i] ELSE t[i - Len(s)]
    <2>1. s \o t \in Seq(S) /\ Len(s \o t) = Len(s) + Len(t)
      BY ConcatProperties
    <2> QED BY <2>1, ConcatProperties
  <1> SUFFICES ASSUME NEW kind PROVE Has(s \o t, kind) <=> Has(s, kind) \/ Has(t, kind)
    OBVIOUS
  <1>3. ASSUME Has(s, kind) PROVE Has(s \o t, kind)
    <2>1. PICK i \in 1 .. Len(s) : s[i].kind = kind
      BY <1>1, <1>3 DEF Has
    <2>2. i \in 1 .. Len(s) + Len(t) /\ (s \o t)[i] = s[i]
      BY <1>1, <1>2
    <2> QED BY <1>2, <2>1, <2>2 DEF Has
  <1>4. ASSUME Has(t, kind) PROVE Has(s \o t, kind)
    <2>1. PICK i \in 1 .. Len(t) : t[i].kind = kind
      BY <1>1, <1>4 DEF Has
    <2>2. Len(s) + i \in 1 .. Len(s) + Len(t) /\ (s \o t)[Len(s) + i] = t[i]
      BY <1>1, <1>2
    <2> QED BY <1>2, <2>1, <2>2 DEF Has
  <1>5. ASSUME Has(s \o t, kind) PROVE Has(s, kind) \/ Has(t, kind)
    <2>1. PICK i \in 1 .. Len(s) + Len(t) : (s \o t)[i].kind = kind
      BY <1>2, <1>5 DEF Has
    <2>2. CASE i <= Len(s)
      BY <1>1, <1>2, <2>1, <2>2 DEF Has
    <2>3. CASE ~(i <= Len(s))
      <3>1. i - Len(s) \in 1 .. Len(t) /\ (s \o t)[i] = t[i - Len(s)]
        BY <1>1, <1>2, <2>3
      <3> QED BY <1>1, <2>1, <3>1 DEF Has
    <2> QED BY <2>2, <2>3
  <1> QED BY <1>3, <1>4, <1>5

LEMMA HasTail ==
    ASSUME NEW S, NEW s \in Seq(S), s # << >>
    PROVE  /\ Head(s) \in S /\ Tail(s) \in Seq(S)
           /\ \A kind : Has(s, kind) <=> Head(s).kind = kind \/ Has(Tail(s), kind)
  <1>1. Head(s) \in S /\ Tail(s) \in Seq(S) /\ Head(s) = s[1] /\ 1 \in DOMAIN s
    OBVIOUS
  <1>2. \A i \in DOMAIN Tail(s) : i + 1 \in DOMAIN s /\ Tail(s)[i] = s[i + 1]
    OBVIOUS
  <1>3. \A i \in DOMAIN s : i = 1 \/ (i - 1 \in DOMAIN Tail(s) /\ s[i] = Tail(s)[i - 1])
    OBVIOUS
  <1> QED BY <1>1, <1>2, <1>3 DEF Has

(* A sequence of one chunk is that chunk. *)
LEMMA OneChunk ==
    ASSUME NEW S, NEW s \in Seq(S), Len(s) <= 1, s # << >>
    PROVE  s = <<Head(s)>> /\ Head(s) \in S
  <1>1. Len(s) \in Nat /\ Len(s) # 0
    BY EmptySeq
  <1>2. Len(s) = 1
    <2> SUFFICES ASSUME NEW n \in Nat, n # 0, n <= 1 PROVE n = 1
      BY <1>1
    <2> QED OBVIOUS
  <1> QED BY <1>2

LEMMA DoneLastTail ==
    ASSUME NEW s \in Seq(Chunks), s # << >>, DoneLast(s), ~Has(s, "error")
    PROVE  /\ DoneLast(Tail(s)) /\ Tail(s) \in Seq(Chunks) /\ Head(s) \in Chunks
           /\ Head(s).kind = "done" <=> Tail(s) = << >>
           /\ Head(s).kind # "error" /\ ~Has(Tail(s), "error")
  <1>1. /\ 1 \in DOMAIN s /\ Head(s) = s[1] /\ Len(Tail(s)) = Len(s) - 1
        /\ Tail(s) = << >> <=> Len(s) = 1
    <2>1. Tail(s) \in Seq(Chunks) /\ Len(s) \in Nat /\ Len(s) # 0
      BY EmptySeq
    <2>2. 1 \in DOMAIN s /\ Head(s) = s[1] /\ Len(Tail(s)) = Len(s) - 1
      BY <2>1
    <2>3. Tail(s) = << >> <=> Len(Tail(s)) = 0
      BY <2>1, EmptySeq
    <2> QED BY <2>1, <2>2, <2>3
  <1>2. \A i \in DOMAIN Tail(s) : i + 1 \in DOMAIN s /\ Tail(s)[i] = s[i + 1]
    OBVIOUS
  <1>3. DoneLast(Tail(s))
    BY <1>1, <1>2 DEF DoneLast
  <1>4. Head(s).kind = "done" <=> Tail(s) = << >>
    BY <1>1 DEF DoneLast
  <1> QED BY <1>3, <1>4, HasTail

LEMMA EndLastAppend ==
    ASSUME NEW S, NEW s \in Seq(S), NEW c \in S, ~Has(s, "final"), ~Has(s, "error")
    PROVE  EndLast(Append(s, c))
  <1>1. \A i \in DOMAIN s : Append(s, c)[i] = s[i]
    OBVIOUS
  <1>2. \A i \in DOMAIN Append(s, c) : i \in DOMAIN s \/ i = Len(Append(s, c))
    OBVIOUS
  <1> QED BY <1>1, <1>2 DEF EndLast, Has

(* What is in the pipe. *)
LEMMA PipeEmpty ==
    (\A kind : ~PipeHas(<< >>, kind)) /\ ~RouteIn(<< >>) /\ OneOfRoute(<< >>)
  BY DEF PipeHas, RouteIn, OneOfRoute

LEMMA PipeAppend ==
    ASSUME NEW p \in Seq(Piped), NEW b \in Piped, OneOfRoute(p)
    PROVE  /\ Append(p, b) \in Seq(Piped)
           /\ \A kind : PipeHas(Append(p, b), kind) <=> PipeHas(p, kind) \/ b.chunk.kind = kind
           /\ RouteIn(Append(p, b)) <=> RouteIn(p) \/ b.writer = "route"
           /\ ~RouteIn(p) \/ b.writer # "route" => OneOfRoute(Append(p, b))
  <1>1. \A i \in DOMAIN p : i \in DOMAIN Append(p, b) /\ Append(p, b)[i] = p[i]
    OBVIOUS
  <1>2. Len(p) + 1 \in DOMAIN Append(p, b) /\ Append(p, b)[Len(p) + 1] = b
    OBVIOUS
  <1>3. \A i \in DOMAIN Append(p, b) : i \in DOMAIN p \/ i = Len(p) + 1
    OBVIOUS
  <1>4. Append(p, b) \in Seq(Piped)
    OBVIOUS
  <1>5. \A kind : PipeHas(Append(p, b), kind) <=> PipeHas(p, kind) \/ b.chunk.kind = kind
    BY <1>1, <1>2, <1>3 DEF PipeHas
  <1>6. RouteIn(Append(p, b)) <=> RouteIn(p) \/ b.writer = "route"
    BY <1>1, <1>2, <1>3 DEF RouteIn
  <1>7. ~RouteIn(p) \/ b.writer # "route" => OneOfRoute(Append(p, b))
    BY <1>1, <1>2, <1>3 DEF RouteIn, OneOfRoute
  <1> QED BY <1>4, <1>5, <1>6, <1>7

LEMMA PipeTail ==
    ASSUME NEW p \in Seq(Piped), p # << >>, OneOfRoute(p)
    PROVE  /\ Head(p) \in Piped /\ Tail(p) \in Seq(Piped) /\ OneOfRoute(Tail(p))
           /\ \A kind : PipeHas(p, kind) <=>
                           Head(p).chunk.kind = kind \/ PipeHas(Tail(p), kind)
           /\ RouteIn(p) <=> Head(p).writer = "route" \/ RouteIn(Tail(p))
           /\ Head(p).writer = "route" => ~RouteIn(Tail(p))
  <1>1. Head(p) \in Piped /\ Tail(p) \in Seq(Piped) /\ Head(p) = p[1] /\ 1 \in DOMAIN p
    OBVIOUS
  <1>2. \A i \in DOMAIN Tail(p) : i + 1 \in DOMAIN p /\ i # 0 /\ Tail(p)[i] = p[i + 1]
    OBVIOUS
  <1>3. \A i \in DOMAIN p : i = 1 \/ (i - 1 \in DOMAIN Tail(p) /\ p[i] = Tail(p)[i - 1])
    OBVIOUS
  <1>4. \A kind : PipeHas(p, kind) <=> Head(p).chunk.kind = kind \/ PipeHas(Tail(p), kind)
    BY <1>1, <1>2, <1>3 DEF PipeHas
  <1>5. RouteIn(p) <=> Head(p).writer = "route" \/ RouteIn(Tail(p))
    BY <1>1, <1>2, <1>3 DEF RouteIn
  <1>6. \A i, j \in DOMAIN Tail(p) : i + 1 = j + 1 => i = j
    OBVIOUS
  <1>7. OneOfRoute(Tail(p))
    BY <1>2, <1>6 DEF OneOfRoute
  <1>8. \A i \in DOMAIN Tail(p) : i + 1 # 1
    OBVIOUS
  <1>9. Head(p).writer = "route" => ~RouteIn(Tail(p))
    BY <1>1, <1>2, <1>8 DEF OneOfRoute, RouteIn
  <1> QED BY <1>1, <1>4, <1>5, <1>7, <1>9

LEMMA ByRouteNone ==
    ASSUME pipe \in Seq(Piped)
    PROVE  ByRoute \in Nat /\ (ByRoute = 0 <=> ~RouteIn(pipe))
  <1> DEFINE Written == {i \in DOMAIN pipe : pipe[i].writer = "route"}
  <1>1. IsFiniteSet(DOMAIN pipe)
    <2>1. DOMAIN pipe = 1 .. Len(pipe) /\ Len(pipe) \in Nat
      OBVIOUS
    <2> QED BY <2>1, FS_Interval
  <1>2. IsFiniteSet(Written)
    BY <1>1, FS_Subset
  <1>3. Cardinality(Written) \in Nat /\ (Cardinality(Written) = 0 <=> Written = {})
    BY <1>2, FS_CardinalityType, FS_EmptySet
  <1>4. Written = {} <=> ~RouteIn(pipe)
    BY DEF RouteIn
  <1> QED BY <1>3, <1>4 DEF ByRoute

(* The chunks of the routes. *)
LEMMA ChunkIs ==
    /\ \A kind \in Bare : Chunk(kind) \in Chunks /\ Chunk(kind).kind = kind
    /\ \A c \in Chunks : c.kind \in Modes \cup Bare /\ (c.kind \in Bare => c = Chunk(c.kind))
    /\ Chunk("beat") \in Shown /\ Chunk("final").kind = "final"
    /\ Shown \subseteq Chunks /\ Chunks \subseteq Readable
    /\ \A c \in Shown : c.kind \in Modes \cup {"beat"}
  BY DEF Chunk, Chunks, Shown, Deltas, Readable, Bare, Modes

LEMMA DeltaIs ==
    ASSUME NEW mode \in Modes, NEW t \in Seq(Symbols)
    PROVE  /\ Delta(mode, t) \in Chunks /\ Delta(mode, t) \in Shown
           /\ Delta(mode, t).kind \in {"content", "reasoning"}
  BY DEF Delta, Chunks, Shown, Deltas, Modes

LEMMA ByIs ==
    /\ \A c \in Shown : /\ By("queue", c) \in Piped /\ By("queue", c).writer = "queue"
                        /\ By("queue", c).chunk = c
    /\ \A c \in Chunks : /\ By("route", c) \in Piped /\ By("route", c).writer = "route"
                         /\ By("route", c).chunk = c
    /\ \A b \in Piped : b.chunk \in Chunks
  <1>1. Shown \subseteq Chunks
    BY ChunkIs
  <1> QED BY <1>1 DEF By, Piped

LEMMA NoFinal == \A s \in Seq(Chunks) : ~Has(s, "final")
  <1> SUFFICES ASSUME NEW s \in Seq(Chunks), NEW i \in DOMAIN s PROVE s[i].kind # "final"
    BY DEF Has
  <1>1. s[i] \in Chunks
    OBVIOUS
  <1> QED BY <1>1, ChunkIs DEF Bare, Modes

(* What a text or the end of a call is told in. *)
Plain(s) == s \in Seq(Chunks) /\ ~Has(s, "done") /\ ~Has(s, "error")

LEMMA PlainOne ==
    ASSUME NEW c \in Chunks, c.kind \notin {"done", "error"} PROVE Plain(<<c>>)
  BY HasOne DEF Plain

LEMMA PlainChunk == \A kind \in Bare \ {"done", "error"} : Plain(<<Chunk(kind)>>)
  <1> SUFFICES ASSUME NEW kind \in Bare \ {"done", "error"} PROVE Plain(<<Chunk(kind)>>)
    OBVIOUS
  <1>1. Chunk(kind) \in Chunks /\ Chunk(kind).kind = kind
    BY ChunkIs
  <1> QED BY <1>1, PlainOne

LEMMA PlainDelta ==
    ASSUME NEW mode \in Modes, NEW t \in Seq(Symbols)
    PROVE  Plain(IF t = << >> THEN << >> ELSE <<Delta(mode, t)>>)
  <1>1. Plain(<< >>)
    BY HasEmpty DEF Plain
  <1>2. Plain(<<Delta(mode, t)>>)
    BY DeltaIs, PlainOne
  <1> QED BY <1>1, <1>2

LEMMA PlainConcat == ASSUME NEW s, NEW t, Plain(s), Plain(t) PROVE Plain(s \o t)
  BY HasConcat DEF Plain

(* What is told behind it all. *)
LEMMA ClosingEnds ==
    ASSUME NEW start, Plain(start), NEW end \in Seq(Chunks), Len(end) = 2,
           end[1].kind = "finish", end[2].kind = "done"
    PROVE  /\ start \o end \in Seq(Chunks) /\ start \o end # << >>
           /\ DoneLast(start \o end) /\ ~Has(start \o end, "error")
  <1> PICK s : s = start \o end
    OBVIOUS
  <1>1. start \in Seq(Chunks)
    BY DEF Plain
  <1>2. /\ s \in Seq(Chunks) /\ Len(s) = Len(start) + 2 /\ Len(start) \in Nat
        /\ \A i \in 1 .. Len(s) : s[i] = IF i <= Len(start) THEN start[i]
                                        ELSE end[i - Len(start)]
    <2>1. /\ start \o end \in Seq(Chunks) /\ Len(start \o end) = Len(start) + Len(end)
          /\ \A i \in 1 .. Len(start) + Len(end) :
                (start \o end)[i] = IF i <= Len(start) THEN start[i] ELSE end[i - Len(start)]
      BY <1>1, ConcatProperties
    <2>2. Len(start) \in Nat
      BY <1>1
    <2> QED BY <2>1, <2>2
  <1>3. ~Has(s, "error")
    <2>1. ~Has(start, "error") /\ ~Has(end, "error")
      BY DEF Plain, Has
    <2> QED BY <1>1, <2>1, HasConcat
  <1>4. ASSUME NEW i \in DOMAIN s PROVE s[i].kind = "done" <=> i = Len(s)
    <2>1. i \in 1 .. Len(s)
      BY <1>2
    <2>2. CASE i <= Len(start)
      <3>1. i \in DOMAIN start /\ s[i] = start[i]
        BY <1>1, <1>2, <2>1, <2>2
      <3> QED BY <1>2, <2>2, <3>1 DEF Plain, Has
    <2>3. CASE i = Len(start) + 1
      BY <1>2, <2>1, <2>3
    <2>4. CASE i = Len(start) + 2
      BY <1>2, <2>1, <2>4
    <2> QED BY <1>2, <2>1, <2>2, <2>3, <2>4
  <1>5. s # << >>
    BY <1>2
  <1> QED BY <1>2, <1>3, <1>4, <1>5 DEF DoneLast

LEMMA ParsedIs ==
    ASSUME TextTyped, NEW n \in 0 .. Len(text), NEW mode \in Modes
    PROVE  reading[n][mode] \in Seq(Symbols)
  BY AnswerAssumption DEF TextTyped

LEMMA ClosingIs ==
    ASSUME TextTyped, NEW closing, closing = Closing(reading[fed])
    PROVE  closing \in Seq(Chunks) /\ DoneLast(closing) /\ closing # << >>
           /\ ~Has(closing, "error")
  <1> DEFINE rest(mode) == Remaining(reading[fed][mode], filter.emitted[mode])
             told(mode) == IF rest(mode) = << >> THEN << >> ELSE <<Delta(mode, rest(mode))>>
             message == IF reading[fed].call THEN <<Chunk("call")>> ELSE told("content")
             end == <<Chunk("finish"), Chunk("done")>>
  <1>1. \A mode \in Modes : rest(mode) \in Seq(Symbols)
    <2>1. fed \in 0 .. Len(text) /\ reading[fed] = Parsed(Take(text, fed))
      BY DEF TextTyped
    <2> QED BY <2>1, AnswerAssumption DEF TextTyped
  <1>2. Plain(told("reasoning")) /\ Plain(told("content"))
    BY <1>1, PlainDelta DEF Modes
  <1>3. Plain(message)
    BY <1>2, PlainChunk DEF Bare
  <1>4. closing = (told("reasoning") \o message) \o end
    BY DEF Closing
  <1>5. end \in Seq(Chunks) /\ Len(end) = 2 /\ end[1].kind = "finish" /\ end[2].kind = "done"
    BY ChunkIs DEF Bare
  <1> HIDE DEF message, told, end
  <1>6. Plain(told("reasoning") \o message)
    BY <1>2, <1>3, PlainConcat
  <1> QED BY <1>4, <1>5, <1>6, ClosingEnds

LEMMA BodyIs == ASSUME TextTyped, NEW n \in 0 .. Len(text) PROVE Plain(Body(reading[n]))
  <1> DEFINE answer == reading[n]
             told(mode) == IF answer[mode] = << >> THEN << >> ELSE <<Delta(mode, answer[mode])>>
             message == IF answer.call THEN <<Chunk("call")>> ELSE told("content")
             start == <<Chunk("created")>>
             end == <<Chunk("completed")>>
  <1>1. Plain(told("reasoning")) /\ Plain(told("content"))
    BY ParsedIs, PlainDelta DEF Modes
  <1>2. Plain(message)
    BY <1>1, PlainChunk DEF Bare
  <1>3. Plain(start) /\ Plain(end) /\ Plain(<<Chunk("body")>>)
    BY PlainChunk DEF Bare
  <1>4. Body(answer) = IF route = "responses"
                       THEN ((start \o told("reasoning")) \o message) \o end
                       ELSE <<Chunk("body")>>
    BY DEF Body, ResponseEvents
  <1> HIDE DEF message, told, start, end, answer
  <1>5. Plain(((start \o told("reasoning")) \o message) \o end)
    BY <1>1, <1>2, <1>3, PlainConcat
  <1>6. Plain(Body(answer))
    BY <1>3, <1>4, <1>5
  <1> QED BY <1>6 DEF answer

LEMMA ArrivesIs ==
    ASSUME TextTyped, writes \in Seq(Shown), NEW n \in fed .. Len(text), Arrives(n),
           UNCHANGED <<text, reading>>
    PROVE  /\ TextTyped' /\ writes' \in Seq(Shown)
           /\ ~connected \/ ~Streamed => writes' = writes
  <1> DEFINE f == Filtered(filter, Between(text, fed, n))
             deltas == [i \in DOMAIN f.deltas |-> Delta(f.deltas[i][1], f.deltas[i][2])]
  <1>1. text \in AnswerTexts /\ fed \in 0 .. Len(text) /\ filter \in Filters[text][fed]
        /\ Len(text) \in Nat
    BY AnswerAssumption DEF TextTyped
  <1>2. n \in 0 .. Len(text)
    BY <1>1
  <1>3. f \in Filters[text][n]
    BY <1>1, <1>2, AnswerAssumption
  <1>4. f.deltas \in Seq(Modes \X Seq(Symbols))
    BY <1>1, <1>2, <1>3, AnswerAssumption
  <1>5. deltas \in Seq(Shown)
    <2> DEFINE k == Len(f.deltas)
    <2>1. k \in Nat /\ DOMAIN f.deltas = 1 .. k
      BY <1>4
    <2>2. \A i \in 1 .. k : Delta(f.deltas[i][1], f.deltas[i][2]) \in Shown
      BY <1>4, <2>1, DeltaIs
    <2> QED BY <2>1, <2>2
  <1>6. fed' = n /\ filter' = f
        /\ writes' = IF Streamed THEN (IF connected THEN writes \o deltas ELSE writes)
                     ELSE writes
    BY DEF Arrives, Enqueued
  <1> HIDE DEF f, deltas
  <1>7. TextTyped'
    BY <1>1, <1>2, <1>3, <1>6 DEF TextTyped
  <1> QED BY <1>5, <1>6, <1>7

-----------------------------------------------------------------------------
(* The steps of an answer. *)

LEMMA InitFlow == AnswerInit => FlowInv
  <1> SUFFICES ASSUME AnswerInit PROVE FlowInv
    OBVIOUS
  <1>1. TextTyped
    BY AnswerAssumption DEF AnswerInit, TextTyped
  <1>2. Chunk("role") \in Chunks /\ Chunk("role").kind = "role"
    BY ChunkIs DEF Bare
  <1>3. /\ writes = << >> /\ script = << >> /\ pipe = << >> /\ received = << >>
        /\ buffer = << >> \/ buffer = <<Chunk("role")>>
    BY DEF AnswerInit
  <1>4. ChunksTyped
    <2>1. /\ << >> \in Seq(Shown) /\ << >> \in Seq(Chunks) /\ << >> \in Seq(Piped)
          /\ << >> \in Seq(Readable)
      OBVIOUS
    <2>2. <<Chunk("role")>> \in Seq(Chunks) /\ Len(<<Chunk("role")>>) = 1
      BY <1>2
    <2>3. CASE buffer = << >>
      BY <1>3, <2>1, <2>3, PipeEmpty DEF ChunksTyped
    <2>4. CASE buffer = <<Chunk("role")>>
      BY <1>3, <2>1, <2>2, <2>4, PipeEmpty DEF ChunksTyped
    <2> QED BY <1>3, <2>3, <2>4
  <1>5. Recorded
    BY DEF AnswerInit, Recorded, Routes
  <1>6. /\ \A kind : ~PipeHas(pipe, kind) /\ ~Has(received, kind)
        /\ \A kind : kind # "role" => ~Has(buffer, kind)
    BY <1>2, <1>3, PipeEmpty, HasEmpty, HasOne
  <1>7. ~Streamed => buffer = << >>
    BY DEF AnswerInit
  <1>8. at = "loading" /\ connected
    BY DEF AnswerInit
  <1>9. EndLast(received)
    BY <1>3 DEF EndLast
  <1> QED BY <1>1, <1>3, <1>4, <1>5, <1>6, <1>7, <1>8, <1>9
          DEF FlowInv, Unwritten, EndedOnce, NoEndYet, Out, Telling, Apologizing, EndTold

(* Only text arrives and is queued. *)
LEMMA QueuedFlow ==
    ASSUME FlowInv, TextTyped', writes' \in Seq(Shown),
           ~connected \/ ~Streamed => writes' = writes,
           UNCHANGED <<route, at, worker, status, cancelled, aborted, adapter, connected,
                       script, pipe, buffer, received>>
    PROVE  FlowInv'
  <1>1. ChunksTyped'
    BY DEF FlowInv, ChunksTyped
  <1>2. Recorded' /\ Unwritten' /\ EndedOnce' /\ NoEndYet'
    BY DEF FlowInv, Recorded, Unwritten, EndedOnce, NoEndYet, Out, Streamed
  <1>3. Telling' /\ Apologizing' /\ EndTold'
    BY DEF FlowInv, Telling, Apologizing, EndTold, Out, Heard, Streamed
  <1> QED BY <1>1, <1>2, <1>3 DEF FlowInv

LEMMA SameText ==
    ASSUME TextTyped, UNCHANGED <<text, fed, filter, reading>> PROVE TextTyped'
  BY DEF TextTyped

(* A stream fails before it is ended; nothing of the end is out. *)
LEMMA ThrowsFlow ==
    ASSUME FlowInv, TextTyped', Throws, Streamed, worker' # "generating",
           at \in {"loading", "chatting", "draining"}
              \/ (at = "telling" /\ ~connected /\ script # << >>),
           writes' \in Seq(Shown), ~connected => writes' = writes,
           UNCHANGED <<route, status, cancelled, aborted, adapter, connected,
                       script, pipe, buffer, received>>
    PROVE  FlowInv'
  <1>1. ChunksTyped' /\ at' = "caught"
    BY DEF FlowInv, ChunksTyped, Throws
  <1>2. Recorded' /\ Unwritten' /\ EndedOnce'
    BY <1>1 DEF FlowInv, Recorded, Unwritten, EndedOnce, Streamed
  <1>3. ~Out("done") /\ ~Out("error") /\ ~Has(received, "final")
    BY HasEmpty, PipeEmpty DEF FlowInv, NoEndYet, Telling, Unwritten, Out
  <1>4. NoEndYet' /\ Telling' /\ Apologizing' /\ EndTold'
    BY <1>1, <1>3 DEF NoEndYet, Telling, Apologizing, EndTold, Out
  <1> QED BY <1>1, <1>2, <1>4 DEF FlowInv

(* An answer that is not streamed is given at once, or an error. *)
LEMMA JsonEndsFlow ==
    ASSUME FlowInv, TextTyped', ~Streamed, worker' # "generating",
           at \in {"loading", "chatting"},
           NEW s \in {"ok", "error", "cancelled"}, s = "ok" => ~aborted,
           NEW body, Plain(body), JsonEnds(s, body),
           UNCHANGED <<route, cancelled, aborted, writes, script, pipe>>
    PROVE  FlowInv'
  <1>1. /\ at' = "ended" /\ status' = s
        /\ received' = (IF s # "error" /\ connected THEN body ELSE received)
        /\ UNCHANGED <<buffer, connected, adapter>>
    BY DEF JsonEnds, Ends, Finishes, FlowInv, Recorded
  <1>2. /\ received' \in Seq(Readable)
        /\ ~Has(received', "done") /\ ~Has(received', "error") /\ ~Has(received', "final")
    <2>1. body \in Seq(Readable)
      BY ChunkIs DEF Plain
    <2>2. /\ received \in Seq(Readable)
          /\ ~Has(received, "done") /\ ~Has(received, "error") /\ ~Has(received, "final")
      BY DEF FlowInv, ChunksTyped, Unwritten, EndedOnce, Streamed
    <2> QED BY <1>1, <2>1, <2>2, NoFinal DEF Plain
  <1>3. ChunksTyped'
    BY <1>1, <1>2 DEF FlowInv, ChunksTyped
  <1>4. Recorded'
    BY <1>1 DEF FlowInv, Recorded
  <1>5. Unwritten' /\ EndedOnce' /\ NoEndYet' /\ Telling' /\ Apologizing'
    BY <1>1, <1>2 DEF FlowInv, Unwritten, EndedOnce, NoEndYet, Telling, Apologizing, Streamed
  <1>6. EndTold'
    BY <1>1, <1>2, HasEmpty, PipeEmpty DEF FlowInv, Unwritten, EndTold, Out, Streamed
  <1> QED BY <1>3, <1>4, <1>5, <1>6 DEF FlowInv

LEMMA FailsFlow ==
    ASSUME FlowInv, Fails, worker' # "generating", at \in {"loading", "chatting"},
           UNCHANGED <<route, text, fed, filter, reading, writes, script, pipe,
                       cancelled, aborted>>
    PROVE  FlowInv'
  <1>1. TextTyped' /\ writes' \in Seq(Shown)
    BY SameText DEF FlowInv, ChunksTyped
  <1>2. CASE Streamed
    BY <1>1, <1>2, ThrowsFlow DEF Fails, client
  <1>3. CASE ~Streamed
    <2>1. Plain(<< >>)
      BY HasEmpty DEF Plain
    <2> QED BY <1>1, <1>3, <2>1, JsonEndsFlow DEF Fails
  <1> QED BY <1>2, <1>3

LEMMA LoadFlow == ASSUME FlowInv, Load PROVE FlowInv'
  <1>1. CASE Fails /\ UNCHANGED <<worker, wire>>
    <2>1. worker # "generating"
      BY DEF FlowInv, Recorded, Load
    <2> QED BY <1>1, <2>1, FailsFlow DEF Load
  <1>2. CASE at' = "chatting" /\ UNCHANGED <<client, status>>
    <2>1. at = "loading" /\ UNCHANGED <<route, text, fed, filter, reading, writes, script,
                                        pipe, aborted, cancelled, buffer, received,
                                        connected, adapter, status>>
      BY <1>2 DEF Load, client
    <2>2. TextTyped' /\ ChunksTyped'
      BY <2>1, SameText DEF FlowInv, ChunksTyped
    <2>3. Recorded'
      BY <1>2, <2>1 DEF FlowInv, Recorded
    <2>4. Unwritten' /\ EndedOnce' /\ NoEndYet'
      BY <1>2, <2>1 DEF FlowInv, Unwritten, EndedOnce, NoEndYet, Out, Streamed
    <2>5. Telling' /\ Apologizing' /\ EndTold'
      BY <1>2 DEF Telling, Apologizing, EndTold
    <2> QED BY <2>2, <2>3, <2>4, <2>5 DEF FlowInv
  <1> QED BY <1>1, <1>2 DEF Load

LEMMA CompletedFlow == ASSUME FlowInv, Completed PROVE FlowInv'
  <1>1. at = "chatting" /\ worker' # "generating"
    BY DEF Completed, Hears, FlowInv, Recorded
  <1>2. PICK n \in {fed} \cup IF fed = 0 THEN {Len(text)} ELSE {} : Arrives(n) /\ Answered(n)
    BY DEF Completed
  <1>3. UNCHANGED <<route, text, reading, script, pipe, aborted, cancelled>>
    BY DEF Completed
  <1>4. n \in fed .. Len(text) /\ n \in 0 .. Len(text)
    BY <1>2, AnswerAssumption DEF FlowInv, TextTyped
  <1>5. /\ TextTyped' /\ writes' \in Seq(Shown)
        /\ ~connected \/ ~Streamed => writes' = writes
    BY <1>2, <1>3, <1>4, ArrivesIs DEF FlowInv, ChunksTyped
  <1>6. CASE Streamed
    <2>1. at' = "draining" /\ UNCHANGED <<buffer, received, connected, adapter, status>>
      BY <1>2, <1>6 DEF Answered, client
    <2>2. ChunksTyped'
      BY <1>3, <1>5, <2>1 DEF FlowInv, ChunksTyped
    <2>3. Recorded'
      BY <1>1, <1>3, <2>1 DEF FlowInv, Recorded
    <2>4. Unwritten' /\ EndedOnce' /\ NoEndYet'
      BY <1>1, <1>3, <1>5, <1>6, <2>1
         DEF FlowInv, Unwritten, EndedOnce, NoEndYet, Out, Streamed
    <2>5. Telling' /\ Apologizing' /\ EndTold'
      BY <2>1 DEF Telling, Apologizing, EndTold
    <2> QED BY <1>5, <2>2, <2>3, <2>4, <2>5 DEF FlowInv
  <1>7. CASE ~Streamed
    <2>1. Plain(Body(reading[n])) /\ Plain(<< >>)
      BY <1>4, BodyIs, HasEmpty DEF FlowInv, Plain
    <2>2. UNCHANGED writes
      BY <1>5, <1>7
    <2>3. CASE JsonEnds("error", << >>)
      BY <1>1, <1>3, <1>5, <1>7, <2>1, <2>2, <2>3, JsonEndsFlow
    <2>4. ASSUME JsonEnds(IF WasCancelled(worker') THEN "cancelled" ELSE "ok", Body(parsed'))
          PROVE  FlowInv'
      <3>1. parsed' = reading[n]
        BY <1>2, <1>7 DEF Answered
      <3>2. Body(parsed') = Body(reading[n])
        BY <3>1
      <3> DEFINE s == IF WasCancelled(worker') THEN "cancelled" ELSE "ok"
      <3>3. s \in {"ok", "error", "cancelled"} /\ (s = "ok" => ~aborted)
        BY DEF WasCancelled
      <3>4. JsonEnds(s, Body(reading[n]))
        BY <2>4, <3>2
      <3> HIDE DEF s
      <3> QED BY <1>1, <1>3, <1>5, <1>7, <2>1, <2>2, <3>3, <3>4, JsonEndsFlow
    <2> QED BY <1>2, <1>7, <2>3, <2>4 DEF Answered
  <1> QED BY <1>6, <1>7

LEMMA RejectedFlow == ASSUME FlowInv, ChatRejected \/ Refused PROVE FlowInv'
  <1>1. at = "chatting" /\ Fails /\ worker' # "generating"
    BY DEF ChatRejected, Refused, FlowInv, Recorded
  <1>2. UNCHANGED <<route, text, fed, filter, reading, writes, script, pipe, cancelled,
                    aborted>>
    BY DEF ChatRejected, Refused
  <1> QED BY <1>1, <1>2, FailsFlow

LEMMA HeartbeatFlow == ASSUME FlowInv, Heartbeat PROVE FlowInv'
  <1>1. /\ Streamed /\ writes' = Enqueued(<<Chunk("beat")>>)
        /\ UNCHANGED <<route, text, fed, filter, reading, at, worker, status, cancelled,
                       aborted, adapter, connected, script, pipe, buffer, received>>
    BY DEF Heartbeat, client, request
  <1>2. writes' \in Seq(Shown) /\ (~connected => writes' = writes)
    BY <1>1, ChunkIs DEF Enqueued, FlowInv, ChunksTyped
  <1> QED BY <1>1, <1>2, SameText, QueuedFlow DEF FlowInv

LEMMA TokenFlow == ASSUME FlowInv, Token PROVE FlowInv'
  <1>1. UNCHANGED <<route, text, reading, at, worker, status, cancelled, aborted, adapter,
                    connected, script, pipe, buffer, received>>
    BY DEF Token, client, request
  <1>2. PICK n \in fed + 1 .. Len(text) : Arrives(n)
    BY DEF Token
  <1>3. n \in fed .. Len(text)
    BY <1>2, AnswerAssumption DEF FlowInv, TextTyped
  <1>4. /\ TextTyped' /\ writes' \in Seq(Shown)
        /\ ~connected \/ ~Streamed => writes' = writes
    BY <1>1, <1>2, <1>3, ArrivesIs DEF FlowInv, ChunksTyped
  <1> QED BY <1>1, <1>4, QueuedFlow

LEMMA QuietFlow ==
    ASSUME FlowInv,
           UNCHANGED <<route, text, fed, filter, reading, at, worker, status, cancelled,
                       aborted, adapter, connected, writes, script, pipe, buffer, received>>
    PROVE  FlowInv'
  <1>1. TextTyped' /\ writes' \in Seq(Shown)
    BY SameText DEF FlowInv, ChunksTyped
  <1> QED BY <1>1, QueuedFlow

LEMMA DrainedFlow == ASSUME FlowInv, Drained PROVE FlowInv'
  <1>1. /\ at = "draining"
        /\ UNCHANGED <<route, text, fed, filter, reading, worker, cancelled, aborted, adapter,
                       connected, writes, pipe, buffer, received>>
    BY DEF Drained, client
  <1>2. TextTyped' /\ Streamed /\ worker' # "generating" /\ writes' \in Seq(Shown)
    BY <1>1, SameText DEF FlowInv, Recorded, Unwritten, ChunksTyped
  <1>3. ~Out("done") /\ ~Out("error") /\ ~Has(received, "final") /\ status = "active"
    BY <1>1 DEF FlowInv, NoEndYet, Recorded
  <1>4. CASE WasCancelled(worker)
    <2>1. at' = "ended" /\ status' = "cancelled" /\ UNCHANGED script
      BY <1>3, <1>4 DEF Drained, Finishes, Ends
    <2>2. ChunksTyped' /\ Recorded' /\ Unwritten' /\ EndedOnce'
      BY <1>1, <1>2, <2>1
         DEF FlowInv, ChunksTyped, Recorded, Unwritten, EndedOnce, Streamed
    <2>3. NoEndYet' /\ Telling' /\ Apologizing' /\ EndTold'
      BY <1>1, <1>3, <2>1 DEF NoEndYet, Telling, Apologizing, EndTold, Out
    <2> QED BY <1>2, <2>2, <2>3 DEF FlowInv
  <1>5. CASE ~WasCancelled(worker) /\ parsed'.fails
    <2>1. Throws /\ UNCHANGED <<script, status>>
      BY <1>5 DEF Drained
    <2> QED BY <1>1, <1>2, <2>1, ThrowsFlow
  <1>6. CASE ~WasCancelled(worker) /\ ~parsed'.fails
    <2>1. /\ at' = "telling" /\ UNCHANGED status /\ parsed' = reading[fed]
          /\ script' = Closing(parsed')
      BY <1>6 DEF Drained
    <2>2. script' = Closing(reading[fed])
      BY <2>1
    <2>3. /\ script' \in Seq(Chunks) /\ DoneLast(script') /\ script' # << >>
          /\ ~Has(script', "error")
      BY <2>2, ClosingIs DEF FlowInv
    <2>4. ~aborted
      BY <1>6 DEF WasCancelled
    <2>5. ChunksTyped' /\ Recorded' /\ Unwritten' /\ EndedOnce'
      BY <1>1, <1>2, <2>1, <2>3, <2>4
         DEF FlowInv, ChunksTyped, Recorded, Unwritten, EndedOnce, Streamed
    <2>6. NoEndYet' /\ Telling' /\ Apologizing' /\ EndTold'
      BY <1>1, <1>3, <2>1, <2>3 DEF NoEndYet, Telling, Apologizing, EndTold, Out
    <2> QED BY <1>2, <2>5, <2>6 DEF FlowInv
  <1> QED BY <1>4, <1>5, <1>6

LEMMA TellFlow == ASSUME FlowInv, Tell PROVE FlowInv'
  <1>1. /\ at = "telling" \/ (at = "apologizing" /\ connected)
        /\ script # << >> /\ ByRoute = 0
        /\ UNCHANGED <<route, text, fed, filter, reading, worker, writes, cancelled, aborted,
                       adapter, connected, buffer, received, status>>
    BY DEF Tell, client, request
  <1>2. TextTyped' /\ Streamed /\ worker # "generating" /\ writes' \in Seq(Shown)
        /\ ~RouteIn(pipe)
    BY <1>1, SameText, ByRouteNone DEF FlowInv, Recorded, Unwritten, ChunksTyped
  <1>3. CASE ~connected
    <2>1. Throws /\ UNCHANGED <<pipe, script>> /\ at = "telling"
      BY <1>1, <1>3 DEF Tell
    <2> QED BY <1>1, <1>2, <1>3, <2>1, ThrowsFlow
  <1>4. CASE connected
    <2> PICK c, b : c = Head(script) /\ b = By("route", c)
      OBVIOUS
    <2>1. pipe' = Append(pipe, b) /\ script' = Tail(script) /\ UNCHANGED at
      BY <1>4 DEF Tell
    <2>2. c \in Chunks /\ script' \in Seq(Chunks)
      BY <1>1, <2>1, HasTail DEF FlowInv, ChunksTyped
    <2>3. b \in Piped /\ b.writer = "route" /\ b.chunk = c
      BY <2>2, ByIs
    <2>4. /\ pipe' \in Seq(Piped) /\ OneOfRoute(pipe') /\ RouteIn(pipe')
          /\ \A kind : PipeHas(pipe', kind) <=> PipeHas(pipe, kind) \/ c.kind = kind
      BY <1>2, <2>1, <2>3, PipeAppend DEF FlowInv, ChunksTyped
    <2>5. ChunksTyped' /\ Recorded' /\ EndedOnce'
      BY <1>1, <2>1, <2>2, <2>4 DEF FlowInv, ChunksTyped, Recorded, EndedOnce
    <2>6. Unwritten'
      BY <1>1, <1>2, <1>4, <2>1 DEF FlowInv, Unwritten, Streamed
    <2>7. NoEndYet' /\ EndTold'
      BY <1>1, <2>1 DEF NoEndYet, EndTold
    <2>8. CASE at = "telling"
      <3>1. /\ DoneLast(script') /\ ~Has(script', "error") /\ c.kind # "error"
            /\ c.kind = "done" <=> script' = << >>
        BY <1>1, <2>1, <2>8, DoneLastTail DEF FlowInv, ChunksTyped, Telling
      <3>2. Telling'
        BY <1>1, <2>1, <2>4, <2>8, <3>1 DEF FlowInv, Telling, Out
      <3> QED BY <1>2, <2>1, <2>5, <2>6, <2>7, <2>8, <3>2 DEF FlowInv, Apologizing
    <2>9. CASE at = "apologizing"
      <3>1. script = <<Chunk("error")>>
        BY <1>1, <2>9 DEF FlowInv, Apologizing
      <3>2. c.kind = "error" /\ script' = << >>
        BY <2>1, <3>1, ChunkIs DEF Bare
      <3>3. Apologizing'
        BY <1>1, <2>1, <2>4, <2>9, <3>2 DEF FlowInv, Apologizing, Out, Heard
      <3> QED BY <1>2, <2>1, <2>5, <2>6, <2>7, <2>9, <3>3 DEF FlowInv, Telling
    <2> QED BY <1>1, <2>8, <2>9
  <1> QED BY <1>3, <1>4

LEMMA ToldFlow == ASSUME FlowInv, Told PROVE FlowInv'
  <1>1. /\ at = "telling" /\ script = << >> /\ ByRoute = 0
        /\ UNCHANGED <<route, text, fed, filter, reading, worker, writes, cancelled, aborted,
                       adapter, connected, buffer, received, script, pipe>>
    BY DEF Told, client
  <1>2. TextTyped' /\ Streamed /\ status = "active" /\ ~RouteIn(pipe)
    BY <1>1, SameText, ByRouteNone DEF FlowInv, Recorded, Unwritten, ChunksTyped
  <1>3. at' = "ended" /\ status' = "ok"
    BY <1>2 DEF Told, Finishes, Ends
  <1>4. ~PipeHas(pipe, "done")
    <2>1. ASSUME NEW i \in DOMAIN pipe PROVE pipe[i].chunk.kind # "done"
      <3>1. pipe[i] \in Piped /\ pipe[i].writer # "route"
        BY <1>2 DEF FlowInv, ChunksTyped, RouteIn
      <3>2. pipe[i].chunk \in Shown
        BY <3>1 DEF Piped
      <3> QED BY <3>2, ChunkIs DEF Modes
    <2> QED BY <2>1 DEF PipeHas
  <1>5. ChunksTyped' /\ Recorded' /\ Unwritten' /\ EndedOnce'
    BY <1>1, <1>2, <1>3 DEF FlowInv, ChunksTyped, Recorded, Unwritten, EndedOnce, Streamed
  <1>6. NoEndYet' /\ Telling' /\ Apologizing'
    BY <1>3 DEF NoEndYet, Telling, Apologizing
  <1>7. EndTold'
    BY <1>1, <1>3, <1>4 DEF FlowInv, Telling, EndTold, Out, Streamed
  <1> QED BY <1>2, <1>5, <1>6, <1>7 DEF FlowInv

LEMMA CatchFlow == ASSUME FlowInv, Catch PROVE FlowInv'
  <1>1. /\ at = "caught"
        /\ UNCHANGED <<route, text, fed, filter, reading, worker, writes, cancelled, aborted,
                       adapter, connected, buffer, received, pipe>>
    BY DEF Catch, client
  <1>2. TextTyped' /\ Streamed /\ status = "active" /\ worker # "generating"
        /\ ~Out("done") /\ ~Out("error") /\ ~Has(received, "final")
    BY <1>1, SameText DEF FlowInv, Recorded, Unwritten, NoEndYet
  <1>3. CASE aborted
    <2>1. at' = "ended" /\ status' = "cancelled" /\ UNCHANGED script
      BY <1>2, <1>3 DEF Catch, Finishes, Ends
    <2>2. ChunksTyped' /\ Recorded' /\ Unwritten' /\ EndedOnce'
      BY <1>1, <1>2, <2>1
         DEF FlowInv, ChunksTyped, Recorded, Unwritten, EndedOnce, Streamed
    <2>3. NoEndYet' /\ Telling' /\ Apologizing' /\ EndTold'
      BY <1>1, <1>2, <2>1 DEF NoEndYet, Telling, Apologizing, EndTold, Out
    <2> QED BY <1>2, <2>2, <2>3 DEF FlowInv
  <1>4. CASE ~aborted
    <2>1. at' = "apologizing" /\ status' = "error" /\ script' = <<Chunk("error")>>
      BY <1>2, <1>4 DEF Catch, Finishes
    <2>2. script' \in Seq(Chunks) /\ script' # << >>
      <3>1. Chunk("error") \in Chunks
        BY ChunkIs DEF Bare
      <3> QED BY <2>1, <3>1
    <2>3. ChunksTyped' /\ Recorded' /\ Unwritten' /\ EndedOnce'
      BY <1>1, <1>2, <2>1, <2>2
         DEF FlowInv, ChunksTyped, Recorded, Unwritten, EndedOnce, Streamed
    <2>4. NoEndYet' /\ Telling' /\ Apologizing' /\ EndTold'
      BY <1>1, <1>2, <2>1, <2>2 DEF NoEndYet, Telling, Apologizing, EndTold, Out
    <2> QED BY <1>2, <2>3, <2>4 DEF FlowInv
  <1> QED BY <1>3, <1>4

LEMMA ApologizedFlow == ASSUME FlowInv, Apologized PROVE FlowInv'
  <1>1. /\ at = "apologizing" /\ at' = "ended" /\ (script = << >> \/ ~connected)
        /\ script' = << >>
        /\ UNCHANGED <<route, text, fed, filter, reading, worker, writes, cancelled, aborted,
                       adapter, connected, buffer, received, pipe, status>>
    BY DEF Apologized, client, Ends
  <1>2. TextTyped' /\ status = "error"
    BY <1>1, SameText DEF FlowInv, Recorded
  <1>3. ChunksTyped'
    BY <1>1 DEF FlowInv, ChunksTyped
  <1>4. Recorded' /\ Unwritten' /\ EndedOnce'
    BY <1>1, <1>2 DEF FlowInv, Recorded, Unwritten, EndedOnce, Streamed
  <1>5. NoEndYet' /\ Telling' /\ Apologizing'
    BY <1>1 DEF NoEndYet, Telling, Apologizing
  <1>6. EndTold'
    BY <1>1, <1>2 DEF FlowInv, Unwritten, Apologizing, EndTold, Out, Heard
  <1> QED BY <1>2, <1>3, <1>4, <1>5, <1>6 DEF FlowInv

LEMMA QueueWritesFlow == ASSUME FlowInv, QueueWrites PROVE FlowInv'
  <1>1. /\ at # "ended" /\ writes # << >>
        /\ UNCHANGED <<route, text, fed, filter, reading, at, worker, cancelled, aborted,
                       adapter, connected, buffer, received, script, status>>
    BY DEF QueueWrites, client, request
  <1> PICK c, b : c = Head(writes) /\ b = By("queue", c)
    OBVIOUS
  <1>2. pipe' = Append(pipe, b) /\ writes' = Tail(writes)
    BY DEF QueueWrites
  <1>3. c \in Shown /\ writes' \in Seq(Shown)
    BY <1>1, <1>2, HasTail DEF FlowInv, ChunksTyped
  <1>4. /\ b \in Piped /\ b.writer = "queue" /\ b.chunk = c
        /\ c.kind \notin {"done", "error", "final"}
    BY <1>3, ByIs, ChunkIs DEF Modes
  <1>5. /\ pipe' \in Seq(Piped) /\ OneOfRoute(pipe') /\ (RouteIn(pipe') <=> RouteIn(pipe))
        /\ \A kind : PipeHas(pipe', kind) <=> PipeHas(pipe, kind) \/ c.kind = kind
    BY <1>2, <1>4, PipeAppend DEF FlowInv, ChunksTyped
  <1>6. (PipeHas(pipe', "done") <=> PipeHas(pipe, "done"))
        /\ (PipeHas(pipe', "error") <=> PipeHas(pipe, "error"))
    BY <1>4, <1>5
  <1>7. TextTyped' /\ ChunksTyped' /\ Recorded' /\ EndedOnce'
    BY <1>1, <1>3, <1>5, SameText DEF FlowInv, ChunksTyped, Recorded, EndedOnce
  <1>8. connected /\ Streamed
    BY <1>1 DEF FlowInv, Unwritten
  <1>9. Unwritten' /\ NoEndYet'
    BY <1>1, <1>6, <1>8 DEF FlowInv, Unwritten, NoEndYet, Out, Streamed
  <1>10. Telling' /\ Apologizing' /\ EndTold'
    BY <1>1, <1>5, <1>6 DEF FlowInv, Telling, Apologizing, EndTold, Out, Heard
  <1> QED BY <1>7, <1>9, <1>10 DEF FlowInv

LEMMA PullFlow == ASSUME FlowInv, Pull PROVE FlowInv'
  <1>1. /\ pipe # << >> /\ buffer = << >>
        /\ UNCHANGED <<route, text, fed, filter, reading, at, worker, cancelled, aborted,
                       adapter, connected, writes, received, script, status>>
    BY DEF Pull, request
  <1> PICK b, c : b = Head(pipe) /\ c = b.chunk
    OBVIOUS
  <1>2. pipe' = Tail(pipe) /\ buffer' = <<c>>
    BY DEF Pull
  <1>3. /\ b \in Piped /\ pipe' \in Seq(Piped) /\ OneOfRoute(pipe')
        /\ \A kind : PipeHas(pipe, kind) <=> c.kind = kind \/ PipeHas(pipe', kind)
        /\ RouteIn(pipe) <=> b.writer = "route" \/ RouteIn(pipe')
        /\ b.writer = "route" => ~RouteIn(pipe')
    BY <1>1, <1>2, PipeTail DEF FlowInv, ChunksTyped
  <1>4. c \in Chunks /\ (b.writer # "route" => c.kind # "done")
    <2>1. c \in Chunks
      BY <1>3, ByIs
    <2>2. b.writer # "route" => c \in Shown
      BY <1>3 DEF Piped
    <2> QED BY <2>1, <2>2, ChunkIs DEF Modes
  <1>5. buffer' \in Seq(Chunks) /\ Len(buffer') <= 1
    BY <1>2, <1>4
  <1>6. (\A kind : Has(buffer', kind) <=> c.kind = kind) /\ (\A kind : ~Has(buffer, kind))
    BY <1>1, <1>2, HasOne, HasEmpty
  <1>7. TextTyped' /\ ChunksTyped' /\ Recorded' /\ EndedOnce'
    BY <1>1, <1>3, <1>5, SameText DEF FlowInv, ChunksTyped, Recorded, EndedOnce
  <1>8. connected /\ Streamed
    BY <1>1 DEF FlowInv, Unwritten
  <1>9. /\ Out("done")' <=> Out("done")
        /\ Out("error")' <=> Out("error")
        /\ PipeHas(pipe', "done") => PipeHas(pipe, "done")
        /\ Has(buffer', "done") => PipeHas(pipe, "done") /\ ~RouteIn(pipe')
        /\ Has(buffer', "error") \/ PipeHas(pipe', "error") <=> PipeHas(pipe, "error")
    BY <1>1, <1>3, <1>4, <1>6 DEF Out
  <1>10. Unwritten' /\ NoEndYet'
    BY <1>1, <1>8, <1>9 DEF FlowInv, Unwritten, NoEndYet, Streamed
  <1>11. Telling'
    BY <1>1, <1>3, <1>9 DEF FlowInv, Telling
  <1>12. Apologizing' /\ EndTold'
    BY <1>1, <1>6, <1>9 DEF FlowInv, Apologizing, EndTold, Heard, Streamed
  <1> QED BY <1>7, <1>10, <1>11, <1>12 DEF FlowInv

LEMMA ClientReadsFlow == ASSUME FlowInv, ClientReads PROVE FlowInv'
  <1>1. /\ connected /\ adapter = "none" /\ buffer # << >>
        /\ received' = received \o buffer /\ buffer' = << >>
        /\ UNCHANGED <<route, text, fed, filter, reading, at, worker, cancelled, aborted,
                       adapter, connected, writes, pipe, script, status>>
    BY DEF ClientReads, request
  <1>2. buffer \in Seq(Chunks) /\ received \in Seq(Readable) /\ buffer \in Seq(Readable)
    BY ChunkIs DEF FlowInv, ChunksTyped
  <1>3. /\ received' \in Seq(Readable) /\ buffer' \in Seq(Chunks) /\ Len(buffer') <= 1
    BY <1>1, <1>2
  <1>4. \A kind : Has(received', kind) <=> Has(received, kind) \/ Has(buffer, kind)
    BY <1>1, <1>2, HasConcat
  <1>5. ~Has(buffer, "final") /\ (\A kind : ~Has(buffer', kind))
    BY <1>1, <1>2, NoFinal, HasEmpty
  <1>6. TextTyped' /\ ChunksTyped' /\ Recorded'
    BY <1>1, <1>3, SameText DEF FlowInv, ChunksTyped, Recorded
  <1>7. route # "ollama" /\ Streamed
    BY <1>1 DEF FlowInv, Recorded, Unwritten
  <1>8. /\ Out("done")' <=> Out("done")
        /\ Out("error")' <=> Out("error")
        /\ Has(received', "final") <=> Has(received, "final")
        /\ Has(received', "done") => Has(received, "done") \/ Has(buffer, "done")
    BY <1>1, <1>4, <1>5 DEF Out
  <1>9. Unwritten' /\ EndedOnce' /\ NoEndYet'
    BY <1>1, <1>7, <1>8 DEF FlowInv, Unwritten, EndedOnce, NoEndYet, Streamed
  <1>10. Telling' /\ Apologizing' /\ EndTold'
    BY <1>1, <1>5, <1>7, <1>8 DEF FlowInv, Telling, Apologizing, EndTold, Streamed
  <1> QED BY <1>6, <1>9, <1>10 DEF FlowInv

LEMMA ClientLeavesFlow == ASSUME FlowInv, ClientLeaves PROVE FlowInv'
  <1>1. /\ at # "ended" /\ adapter = "none" /\ connected' = FALSE /\ (aborted => aborted')
        /\ writes' = << >> /\ pipe' = << >> /\ buffer' = << >>
        /\ at' = (IF at = "telling" /\ ByRoute > 0 THEN "caught" ELSE at)
        /\ UNCHANGED <<route, text, fed, filter, reading, worker, cancelled, adapter,
                       received, script, status>>
    BY DEF ClientLeaves, request, Aborts
  <1>2. pipe \in Seq(Piped) /\ received \in Seq(Readable) /\ script \in Seq(Chunks)
    BY DEF FlowInv, ChunksTyped
  <1>3. ByRoute > 0 => RouteIn(pipe)
    BY <1>2, ByRouteNone
  <1>4. /\ \A kind : ~PipeHas(pipe', kind) /\ ~Has(buffer', kind)
        /\ ~RouteIn(pipe') /\ OneOfRoute(pipe')
    BY <1>1, PipeEmpty, HasEmpty
  <1>5. TextTyped' /\ ChunksTyped'
    <2>1. /\ << >> \in Seq(Shown) /\ << >> \in Seq(Chunks) /\ << >> \in Seq(Piped)
          /\ Len(<< >>) = 0
      OBVIOUS
    <2> QED BY <1>1, <1>2, <1>4, <2>1, SameText DEF FlowInv, ChunksTyped
  <1>6. route # "ollama"
    BY <1>1 DEF FlowInv, Recorded
  <1>7. Recorded'
    BY <1>1 DEF FlowInv, Recorded
  <1>8. Unwritten' /\ EndedOnce'
    BY <1>1, <1>6 DEF FlowInv, Unwritten, EndedOnce, Streamed
  <1>9. NoEndYet'
    BY <1>1, <1>3, <1>4 DEF FlowInv, NoEndYet, Telling, Out
  <1>10. Telling' /\ Apologizing' /\ EndTold'
    BY <1>1, <1>4, <1>6 DEF FlowInv, Telling, Apologizing, EndTold, Out
  <1> QED BY <1>5, <1>7, <1>8, <1>9, <1>10 DEF FlowInv

LEMMA OperatorCancelsFlow == ASSUME FlowInv, OperatorCancels PROVE FlowInv'
  <1>1. /\ cancelled' = (IF at \in {"loading", "chatting"} THEN "early" ELSE "late")
        /\ aborted' = TRUE
        /\ UNCHANGED <<route, text, fed, filter, reading, at, worker, adapter, connected,
                       writes, pipe, buffer, received, script, status>>
    BY DEF OperatorCancels, client, Aborts
  <1>2. TextTyped' /\ ChunksTyped'
    BY <1>1, SameText DEF FlowInv, ChunksTyped
  <1>3. Recorded'
    BY <1>1 DEF FlowInv, Recorded
  <1>4. Unwritten' /\ EndedOnce' /\ NoEndYet'
    BY <1>1 DEF FlowInv, Unwritten, EndedOnce, NoEndYet, Out, Streamed
  <1>5. Telling' /\ Apologizing' /\ EndTold'
    BY <1>1 DEF FlowInv, Telling, Apologizing, EndTold, Out, Heard, Streamed
  <1> QED BY <1>2, <1>3, <1>4, <1>5 DEF FlowInv

(* A chunk that the adapter reads it tells or not. *)
LEMMA AdapterReadsFlow == ASSUME FlowInv, AdapterReads PROVE FlowInv'
  <1>1. /\ adapter = "reading" /\ buffer # << >> /\ buffer' = << >>
        /\ UNCHANGED <<route, text, fed, filter, reading, at, worker, cancelled, aborted,
                       connected, writes, pipe, script, status>>
    BY DEF AdapterReads, AdapterOnly, request
  <1> PICK c : c = Head(buffer)
    OBVIOUS
  <1>2. /\ received' = (IF left THEN received ELSE received \o Lines(c))
        /\ adapter' \in {adapter, "stopped"}
        /\ c.kind \in {"done", "error"} => adapter' = "stopped"
    BY DEF AdapterReads
  <1>3. /\ route = "ollama" /\ connected /\ Streamed
        /\ ~Has(received, "final") /\ ~Has(received, "error") /\ ~Has(received, "done")
    BY <1>1 DEF FlowInv, Recorded, Unwritten, EndedOnce, Streamed
  <1>4. buffer = <<c>> /\ c \in Chunks /\ received \in Seq(Readable)
    BY <1>1, OneChunk DEF FlowInv, ChunksTyped
  <1>5. (\A kind : Has(buffer, kind) <=> c.kind = kind) /\ (\A kind : ~Has(buffer', kind))
    BY <1>1, <1>4, HasOne, HasEmpty
  <1>6. \/ received' = received
        \/ c.kind # "done" /\ received' = Append(received, c)
        \/ c.kind = "done" /\ received' = Append(received, Chunk("final"))
    <2>1. \/ Lines(c) = << >>
          \/ c.kind # "done" /\ Lines(c) = <<c>>
          \/ c.kind = "done" /\ Lines(c) = <<Chunk("final")>>
      BY DEF Lines, Modes
    <2>2. received \o << >> = received
      BY <1>4
    <2>3. \A d \in Readable : received \o <<d>> = Append(received, d)
      BY <1>4
    <2>4. c \in Readable /\ Chunk("final") \in Readable
      BY <1>4, ChunkIs DEF Readable
    <2> QED BY <1>2, <2>1, <2>2, <2>3, <2>4
  <1>7. /\ received' \in Seq(Readable) /\ EndLast(received') /\ ~Has(received', "done")
        /\ Has(received', "final") => c.kind = "done"
        /\ Has(received', "error") => c.kind = "error"
    <2>1. CASE received' = received
      BY <1>3, <1>4, <2>1 DEF EndLast, Has
    <2>2. CASE c.kind # "done" /\ received' = Append(received, c)
      <3>1. c \in Readable /\ c.kind # "final"
        BY <1>4, ChunkIs DEF Bare, Modes
      <3> QED BY <1>3, <1>4, <2>2, <3>1, HasAppend, EndLastAppend
    <2>3. CASE c.kind = "done" /\ received' = Append(received, Chunk("final"))
      <3>1. Chunk("final") \in Readable /\ Chunk("final").kind = "final"
        BY ChunkIs DEF Readable
      <3> QED BY <1>3, <1>4, <2>3, <3>1, HasAppend, EndLastAppend
    <2> QED BY <1>6, <2>1, <2>2, <2>3
  <1>8. buffer' \in Seq(Chunks) /\ Len(buffer') <= 1
    BY <1>1
  <1>9. TextTyped' /\ ChunksTyped' /\ Recorded'
    BY <1>1, <1>2, <1>7, <1>8, SameText DEF FlowInv, ChunksTyped, Recorded
  <1>10. Unwritten' /\ EndedOnce'
    BY <1>1, <1>2, <1>3, <1>7 DEF FlowInv, Unwritten, EndedOnce, Streamed
  <1>11. /\ Out("done")' => Out("done")
         /\ Out("error")' => Out("error")
         /\ Has(received', "final") => Has(buffer, "done")
    BY <1>1, <1>5, <1>7 DEF Out
  <1>12. NoEndYet' /\ Telling'
    BY <1>1, <1>3, <1>5, <1>7, <1>11 DEF FlowInv, NoEndYet, Telling, Out
  <1>13. Heard => Heard'
    BY <1>1, <1>2, <1>5 DEF Heard
  <1>14. Apologizing' /\ EndTold'
    BY <1>1, <1>3, <1>11, <1>13 DEF FlowInv, Apologizing, EndTold, Out, Streamed
  <1> QED BY <1>9, <1>10, <1>12, <1>14 DEF FlowInv

LEMMA AdapterEndsFlow == ASSUME FlowInv, AdapterEnds PROVE FlowInv'
  <1>1. /\ adapter = "reading" /\ at = "ended" /\ pipe = << >> /\ buffer = << >>
        /\ received' \in {received, Append(received, Chunk("final"))}
        /\ adapter' = "stopped"
        /\ UNCHANGED <<route, text, fed, filter, reading, at, worker, cancelled, aborted,
                       connected, writes, pipe, buffer, script, status>>
    BY DEF AdapterEnds, AdapterOnly, request
  <1>2. /\ route = "ollama" /\ connected /\ Streamed /\ received \in Seq(Readable)
        /\ ~Has(received, "final") /\ ~Has(received, "error") /\ ~Has(received, "done")
    BY <1>1 DEF FlowInv, Recorded, Unwritten, EndedOnce, ChunksTyped, Streamed
  <1>3. /\ received' \in Seq(Readable) /\ EndLast(received')
        /\ ~Has(received', "done") /\ ~Has(received', "error")
    <2>1. CASE received' = received
      BY <1>2, <2>1 DEF EndLast, Has
    <2>2. CASE received' = Append(received, Chunk("final"))
      <3>1. Chunk("final") \in Readable /\ Chunk("final").kind = "final"
        BY ChunkIs DEF Readable
      <3> QED BY <1>2, <2>2, <3>1, HasAppend, EndLastAppend
    <2> QED BY <1>1, <2>1, <2>2
  <1>4. status # "error"
    BY <1>1, <1>2, HasEmpty, PipeEmpty DEF FlowInv, EndTold, Heard
  <1>5. TextTyped' /\ ChunksTyped' /\ Recorded'
    BY <1>1, <1>2, <1>3, SameText DEF FlowInv, ChunksTyped, Recorded
  <1>6. Unwritten' /\ EndedOnce'
    BY <1>1, <1>2, <1>3 DEF FlowInv, Unwritten, EndedOnce, Streamed
  <1>7. NoEndYet' /\ Telling' /\ Apologizing'
    BY <1>1 DEF NoEndYet, Telling, Apologizing
  <1>8. EndTold'
    BY <1>1, <1>2, <1>3, <1>4 DEF FlowInv, EndTold, Out, Streamed
  <1> QED BY <1>5, <1>6, <1>7, <1>8 DEF FlowInv

LEMMA StepFlow == FlowInv /\ [AnswerNext]_answerVars => FlowInv'
  <1> SUFFICES ASSUME FlowInv, [AnswerNext]_answerVars PROVE FlowInv'
    OBVIOUS
  <1>1. CASE Progress \/ CancelProgress \/ OllamaClientLeaves
    BY <1>1, QuietFlow DEF Progress, CancelProgress, OllamaClientLeaves, client, request
  <1>2. CASE UNCHANGED answerVars
    BY <1>2, QuietFlow DEF answerVars, client, request
  <1> QED BY <1>1, <1>2, LoadFlow, CompletedFlow, RejectedFlow, HeartbeatFlow, TokenFlow,
             DrainedFlow, TellFlow, ToldFlow, CatchFlow, ApologizedFlow, QueueWritesFlow,
             PullFlow, ClientReadsFlow, ClientLeavesFlow, OperatorCancelsFlow,
             AdapterReadsFlow, AdapterEndsFlow
          DEF AnswerNext, Proceeds

LEMMA FlowTold == FlowInv => ToldAsRecorded
  <1> SUFFICES ASSUME FlowInv PROVE ToldAsRecorded
    OBVIOUS
  <1>1. \A kind : Received(kind) <=> Has(received, kind)
    BY DEF Received, Has
  <1>2. Has(received, "done") => status \in {"active", "ok"}
    BY DEF FlowInv, Recorded, Unwritten, Apologizing, EndTold, Out
  <1>3. Has(received, "error") => status = "error"
    BY DEF FlowInv, Recorded, Unwritten, NoEndYet, Telling, EndTold, Out
  <1>4. route = "stream" /\ connected /\ status = "ok" =>
          Has(received, "done") \/ buffer = <<Chunk("done")>>
    <2> SUFFICES ASSUME route = "stream", connected, status = "ok", ~Has(received, "done")
                 PROVE  buffer = <<Chunk("done")>>
      OBVIOUS
    <2>1. at = "ended" /\ Streamed
      BY DEF FlowInv, Recorded, Streamed
    <2>2. Has(buffer, "done")
      BY <2>1 DEF FlowInv, EndTold, Out
    <2>3. buffer # << >>
      BY <2>2, HasEmpty
    <2> PICK c : c = Head(buffer)
      OBVIOUS
    <2>4. buffer = <<c>> /\ c \in Chunks
      BY <2>3, OneChunk DEF FlowInv, ChunksTyped
    <2>5. c.kind = "done"
      BY <2>2, <2>4, HasOne
    <2>6. c = Chunk("done")
      BY <2>4, <2>5, ChunkIs DEF Bare
    <2> QED BY <2>4, <2>6
  <1>5. cancelled = "early" => status # "ok"
    BY DEF FlowInv, Recorded
  <1>6. route = "ollama" =>
          /\ \A i \in DOMAIN received : received[i].kind \in {"final", "error"} =>
                i = Len(received)
          /\ Has(received, "final") => status # "error"
    BY DEF FlowInv, Recorded, EndedOnce, EndLast, Apologizing, EndTold
  <1> QED BY <1>1, <1>2, <1>3, <1>4, <1>5, <1>6 DEF ToldAsRecorded

(* What anyone was told agrees with what is recorded, however the writes of    *)
(* the queue, the route and the adapter, the pulls of the client and its       *)
(* leaving, and the cancels of an operator fall, for any texts and any number  *)
(* of heartbeats.                                                              *)
THEOREM StreamToldAsRecorded == AnswerSpec => []ToldAsRecorded
  <1> QED BY InitFlow, StepFlow, FlowTold, PTL DEF AnswerSpec
=============================================================================
