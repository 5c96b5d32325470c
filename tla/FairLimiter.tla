---------------------------- MODULE FairLimiter ----------------------------
(***************************************************************************)
(* FairLimiter of the server (limits.ts): at most maxInflight requests are *)
(* dispatched, at most queueDepth wait, classes are served 4:2:1 and within *)
(* a class the client with the fewest requests in flight comes first.      *)
(*                                                                         *)
(* JavaScript runs each call to completion, so one action is one call: of  *)
(* acquire, of the release closure or of the abort listener.  dispatchNext *)
(* loops while a slot is free and somebody waits; as WorkConserving shows, *)
(* one call never leaves room for a second turn, so Dispatch is one turn.  *)
(*                                                                         *)
(* Abstracted: the outcome counters and the Retry-After estimate.          *)
(***************************************************************************)
EXTENDS Integers, Sequences, FiniteSets, SequencesExt

CONSTANTS
    Requests,      \* names of requests; a name is reused once it has left
    Clients,
    ClientOf,      \* the client of each request
    PriorityOf,    \* the class of each request
    MaxInflight,
    QueueDepth

Priorities == {"interactive", "normal", "background"}

ASSUME LimiterAssumption ==
    /\ MaxInflight \in Nat \ {0} /\ QueueDepth \in Nat \ {0}
    /\ ClientOf \in [Requests -> Clients]
    /\ PriorityOf \in [Requests -> Priorities]
    /\ IsFiniteSet(Requests)

(* The promise acquire returned: it is pending until the request is granted *)
(* a slot, refused (QueueFullError) or rejected by its abort listener.      *)
Promises == {"none", "pending", "granted", "refused", "aborted"}

VARIABLES
    held,           \* inflight, inflightByPriority and perClient
    waiters,        \* the queue of each class
    scheduleIndex,  \* where the next scan of the schedule starts
    promise,        \* state of the promise of each request
    aborted,        \* requests whose AbortSignal has fired
    passed          \* history: dispatches that passed over a waiting class

vars == <<held, waiters, scheduleIndex, promise, aborted, passed>>

Cycle == 7

(* schedule: four interactive turns, two normal, one background. *)
ClassAt(i) ==
    IF i % Cycle < 4 THEN "interactive"
    ELSE IF i % Cycle < 6 THEN "normal" ELSE "background"

Init ==
    /\ held = [inflight |-> 0, byPriority |-> [c \in Priorities |-> 0],
               perClient |-> [k \in Clients |-> 0]]
    /\ waiters = [c \in Priorities |-> <<>>]
    /\ scheduleIndex = 0
    /\ promise = [r \in Requests |-> "none"]
    /\ aborted = {}
    /\ passed = [c \in Priorities |-> 0]

-----------------------------------------------------------------------------
Queued ==
    Len(waiters["interactive"]) + Len(waiters["normal"])
        + Len(waiters["background"])

(* The counters moved by d slots of request r. *)
Moved(h, r, d) ==
    [inflight |-> h.inflight + d,
     byPriority |-> [h.byPriority EXCEPT ![PriorityOf[r]] = @ + d],
     perClient |-> [h.perClient EXCEPT ![ClientOf[r]] = @ + d]]

(* admit *)
Admit(h, r) == Moved(h, r, 1)

(* The release closure, before it dispatches. *)
Return(h, r) == Moved(h, r, -1)

(* Mutant: the scan always starts at the first turn. *)
NextOffsetFixed(queues) ==
    {o \in 0 .. Cycle - 1 :
        /\ queues[ClassAt(o)] # <<>>
        /\ \A k \in 0 .. o - 1 : queues[ClassAt(k)] = <<>>}

(* nextPriority: how many turns of the schedule are skipped to reach a class *)
(* that waits.                                                               *)
NextOffset(queues) ==
    {o \in 0 .. Cycle - 1 :
        /\ queues[ClassAt(scheduleIndex + o)] # <<>>
        /\ \A k \in 0 .. o - 1 : queues[ClassAt(scheduleIndex + k)] = <<>>}

(* The first of the waiters whose client has the fewest requests in flight. *)
Best(queue, perClient) ==
    LET score(i) == perClient[ClientOf[queue[i]]]
    IN  {i \in DOMAIN queue :
            \A j \in DOMAIN queue :
                score(i) < score(j) \/ (score(i) = score(j) /\ i <= j)}

(* passed after a step that leaves queues and serves the classes of served. *)
PassedOver(queues, served, turn) ==
    [c \in Priorities |->
        IF queues[c] = <<>> \/ c \in served THEN 0 ELSE passed[c] + turn]

(* dispatchNext, from the given queues, counters and promises. *)
Dispatch(queues, counters, promises) ==
    \/ /\ \/ counters.inflight >= MaxInflight
          \/ \A c \in Priorities : queues[c] = <<>>
       /\ waiters' = queues /\ held' = counters /\ promise' = promises
       /\ passed' = PassedOver(queues, {}, 0)
       /\ UNCHANGED scheduleIndex
    \/ /\ counters.inflight < MaxInflight
       /\ \E o \in NextOffset(queues) :
             LET class == ClassAt(scheduleIndex + o)
             IN  \E i \in Best(queues[class], counters.perClient) :
                    LET r == queues[class][i]
                    IN  /\ waiters' = [queues EXCEPT ![class] = RemoveAt(@, i)]
                        /\ held' = Admit(counters, r)
                        /\ promise' = [promises EXCEPT ![r] = "granted"]
                        /\ scheduleIndex' = (scheduleIndex + o + 1) % Cycle
                        /\ passed' = PassedOver(waiters', {class}, 1)

-----------------------------------------------------------------------------
(* acquire *)

AcquireNow(r) ==
    /\ promise[r] = "none"
    /\ held.inflight < MaxInflight /\ Queued = 0
    /\ held' = Admit(held, r)
    /\ promise' = [promise EXCEPT ![r] = "granted"]
    /\ UNCHANGED <<waiters, scheduleIndex, aborted, passed>>

MustWait(r) ==
    /\ promise[r] = "none"
    /\ held.inflight >= MaxInflight \/ Queued > 0

AcquireRefused(r) ==
    /\ MustWait(r) /\ Queued >= QueueDepth
    /\ promise' = [promise EXCEPT ![r] = "refused"]
    /\ UNCHANGED <<held, waiters, scheduleIndex, aborted, passed>>

(* The signal has fired already: the listener finds no waiter to remove,   *)
(* and acquire returns without queueing one.                               *)
AcquireAborted(r) ==
    /\ MustWait(r) /\ Queued < QueueDepth
    /\ r \in aborted
    /\ promise' = [promise EXCEPT ![r] = "pending"]
    /\ UNCHANGED <<held, waiters, scheduleIndex, aborted, passed>>

AcquireQueued(r) ==
    /\ MustWait(r) /\ Queued < QueueDepth
    /\ r \notin aborted
    /\ Dispatch([waiters EXCEPT ![PriorityOf[r]] = Append(@, r)], held,
                [promise EXCEPT ![r] = "pending"])
    /\ UNCHANGED aborted

(* Mutant: nobody is dispatched. *)
ReleaseSilently(r) ==
    /\ promise[r] = "granted"
    /\ held' = Return(held, r)
    /\ promise' = [promise EXCEPT ![r] = "none"]
    /\ aborted' = aborted \ {r}
    /\ UNCHANGED <<waiters, scheduleIndex, passed>>

(* The release closure, and the end of the request. *)
Release(r) ==
    /\ promise[r] = "granted"
    /\ Dispatch(waiters, Return(held, r), [promise EXCEPT ![r] = "none"])
    /\ aborted' = aborted \ {r}

(* Mutant: the closure does not keep that it has been called. *)
ReleaseAgainReturns(r) ==
    /\ promise[r] = "none"
    /\ Dispatch(waiters, Return(held, r), promise)
    /\ UNCHANGED aborted

(* The closure of a request that has left is called once more, from another *)
(* finally or error path: it finds that it has been, and does nothing.      *)
ReleaseAgain(r) == promise[r] = "none" /\ UNCHANGED vars

(* The signal fires; the listener exists only while the request is queued. *)
Abort(r) ==
    /\ r \notin aborted
    /\ aborted' = aborted \cup {r}
    /\ LET class == PriorityOf[r]
           at == {i \in DOMAIN waiters[class] : waiters[class][i] = r}
       IN  \/ /\ at = {}
              /\ UNCHANGED <<waiters, promise, passed>>
           \/ \E i \in at :
              /\ waiters' = [waiters EXCEPT ![class] = RemoveAt(@, i)]
              /\ promise' = [promise EXCEPT ![r] = "aborted"]
              /\ passed' = PassedOver(waiters', {}, 0)
    /\ UNCHANGED <<held, scheduleIndex>>

(* The request answers with the error; its name may stand for another one. *)
Leave(r) ==
    /\ promise[r] \in {"refused", "aborted"}
    /\ promise' = [promise EXCEPT ![r] = "none"]
    /\ aborted' = aborted \ {r}
    /\ UNCHANGED <<held, waiters, scheduleIndex, passed>>

Next ==
    \E r \in Requests :
        \/ AcquireNow(r) \/ AcquireRefused(r) \/ AcquireAborted(r)
        \/ AcquireQueued(r) \/ Release(r) \/ ReleaseAgain(r) \/ Abort(r)
        \/ Leave(r)

(* Every dispatched request ends and releases its slot. *)
Fairness == \A r \in Requests : WF_vars(Release(r))

Spec == Init /\ [][Next]_vars
FairSpec == Spec /\ Fairness
-----------------------------------------------------------------------------
Waiting(c) == {waiters[c][i] : i \in DOMAIN waiters[c]}
Granted == {r \in Requests : promise[r] = "granted"}

TypeOK ==
    /\ held \in [inflight : Nat, byPriority : [Priorities -> Nat],
                 perClient : [Clients -> Nat]]
    /\ waiters \in [Priorities -> Seq(Requests)]
    /\ scheduleIndex \in 0 .. Cycle - 1
    /\ promise \in [Requests -> Promises]
    /\ aborted \subseteq Requests
    /\ passed \in [Priorities -> Nat]

(* The counters that decide admission are those of the requests that hold a *)
(* slot, in total, by class and by client, and the limit is kept.  A slot   *)
(* lost or given back twice in any interleaving breaks it.                  *)
SlotsAccounted ==
    /\ held.inflight = Cardinality(Granted)
    /\ held.inflight <= MaxInflight
    /\ \A c \in Priorities :
          held.byPriority[c] = Cardinality({r \in Granted : PriorityOf[r] = c})
    /\ \A k \in Clients :
          held.perClient[k] = Cardinality({r \in Granted : ClientOf[r] = k})

(* Nobody waits while a slot is free: the loop of dispatchNext is done.     *)
WorkConserving == Queued > 0 => held.inflight >= MaxInflight

(* A queue holds each waiter once, in its class, with a pending promise and *)
(* a signal that has not fired; the queues stay within their depth.         *)
QueueConsistent ==
    /\ Queued <= QueueDepth
    /\ \A c \in Priorities :
          /\ \A i, j \in DOMAIN waiters[c] :
                waiters[c][i] = waiters[c][j] => i = j
          /\ \A r \in Waiting(c) :
                promise[r] = "pending" /\ PriorityOf[r] = c /\ r \notin aborted

(* limits.test.ts: "weighted round robin services continuous classes within *)
(* a 4:2:1 bound": a class that waits is passed over at most 3, 5 or 6      *)
(* times in a row.                                                          *)
MostPassed == [interactive |-> 3, normal |-> 5, background |-> 6]
ClassesServedInTurn == \A c \in Priorities : passed[c] <= MostPassed[c]

(* scale-plan.md: "FIFO within a client": no waiter is granted a slot while *)
(* an earlier one of its client and class goes on waiting.                  *)
ClientFIFO ==
    [][\A c \in Priorities : \A i, j \in DOMAIN waiters[c] :
          /\ i < j
          /\ ClientOf[waiters[c][i]] = ClientOf[waiters[c][j]]
          /\ promise'[waiters[c][j]] = "granted"
          => promise'[waiters[c][i]] # "pending"]_vars

(* A request in a queue eventually gets its slot or is aborted.             *)
WaitersSettle ==
    \A r \in Requests :
        r \in Waiting(PriorityOf[r]) ~> r \notin Waiting(PriorityOf[r])

(* inference-runtime-hardening-plan.md: "Interactive work cannot be starved *)
(* by background work": an interactive waiter gets its slot eventually.     *)
InteractiveNotStarved ==
    \A r \in {x \in Requests : PriorityOf[x] = "interactive"} :
        r \in Waiting("interactive") ~> r \notin Waiting("interactive")

(* scale-plan.md: "queued waiters drop on client abort": a pending acquire  *)
(* whose signal has fired is settled.                                       *)
AbortSettles ==
    \A r \in Requests :
        promise[r] = "pending" /\ r \in aborted ~> promise[r] # "pending"
=============================================================================
