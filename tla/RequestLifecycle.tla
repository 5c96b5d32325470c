-------------------------- MODULE RequestLifecycle --------------------------
(***************************************************************************)
(* A chat completion from its arrival to its answer (index.ts): it becomes *)
(* visible and cancellable, resolves its model, takes a lease on the       *)
(* installation secret (SecretBarrier), waits for a slot (FairLimiter), is *)
(* served, and gives everything back.  Rotations of the secret run beside. *)
(*                                                                         *)
(* What a request holds: its record in metrics.active, its entry in the    *)
(* cancellation registry, its lease and its slot.  One action is one run   *)
(* from await to await.  Abstracted: why a step fails, the answer itself,  *)
(* and the worker, whose load and chat end with Served.  The readers of    *)
(* the barrier are the requests.                                           *)
(***************************************************************************)
EXTENDS SecretBarrier

CONSTANTS Clients, ClientOf, PriorityOf, MaxInflight, QueueDepth

VARIABLES
    at,           \* how far each request has come
    unsettled,    \* metrics.active: handles not finished
    registered,   \* entries of the cancellation registry
    held, waiters, scheduleIndex, promise, aborted, passed

Requests == Readers
Limiter == INSTANCE FairLimiter

ASSUME SystemAssumption ==
    /\ MaxInflight \in Nat \ {0} /\ QueueDepth \in Nat \ {0}
    /\ ClientOf \in [Requests -> Clients]
    /\ PriorityOf \in [Requests -> Limiter!Priorities]

barrierVars == vars
limiterVars == <<held, waiters, scheduleIndex, promise, aborted, passed>>
requestVars == <<at, unsettled, registered>>
systemVars == <<requestVars, barrierVars, limiterVars>>

SystemInit ==
    /\ at = [r \in Requests |-> "gone"]
    /\ unsettled = {} /\ registered = {}
    /\ Init /\ Limiter!Init

-----------------------------------------------------------------------------
(* metrics.start and cancellations.register *)
Start(r) ==
    /\ at[r] = "gone"
    /\ at' = [at EXCEPT ![r] = "resolving"]
    /\ unsettled' = unsettled \cup {r}
    /\ registered' = registered \cup {r}
    /\ UNCHANGED <<barrierVars, limiterVars>>

(* The client disconnects, or an operator cancels. *)
Abort(r) ==
    /\ at[r] # "gone"
    /\ Limiter!Abort(r)
    /\ UNCHANGED <<requestVars, barrierVars>>

Leaves(r) ==
    /\ at' = [at EXCEPT ![r] = "gone"]
    /\ registered' = registered \ {r}

Settles(r) == unsettled' = unsettled \ {r}

(* The request ends before it has reached the limiter. *)
LeavesEarly(r) ==
    /\ Leaves(r) /\ Settles(r)
    /\ aborted' = aborted \ {r}
    /\ UNCHANGED <<held, waiters, scheduleIndex, promise, passed>>

(* The model is unknown, or a file of it cannot be read. *)
ResolveFails(r) ==
    /\ at[r] = "resolving"
    /\ LeavesEarly(r) /\ UNCHANGED barrierVars

-----------------------------------------------------------------------------
(* installationSecrets.acquireSecret *)

AsksSecret(r) ==
    /\ at[r] = "resolving"
    /\ at' = [at EXCEPT ![r] = "identity"]
    /\ ReaderWaits(r) \/ ReaderEnters(r)
    /\ UNCHANGED <<unsettled, registered, limiterVars>>

TakesSecret(r) ==
    /\ at[r] = "identity" /\ stage[r] # "leased"
    /\ \/ ReaderWaits(r) \/ ReaderEnters(r)
       \/ GetsSecret(r)
    /\ UNCHANGED <<requestVars, limiterVars>>

SecretFails(r) ==
    /\ at[r] = "identity"
    /\ LoadFails(r) /\ LeavesEarly(r)

(* Deriving the identity fails, or the model is not cached. *)
IdentityFails(r) ==
    /\ at[r] = "identity"
    /\ ReleaseLease(r) /\ LeavesEarly(r)

-----------------------------------------------------------------------------
(* dispatchWithLimit *)

Acquire(r) ==
    /\ at[r] = "identity" /\ stage[r] = "leased"
    /\ at' = [at EXCEPT ![r] = "admission"]
    /\ \/ Limiter!AcquireNow(r) \/ Limiter!AcquireRefused(r)
       \/ Limiter!AcquireAborted(r) \/ Limiter!AcquireQueued(r)
    /\ UNCHANGED <<unsettled, registered, barrierVars>>

(* Mutant: the lease is kept. *)
RefusedKeepsLease(r) ==
    /\ at[r] = "admission" /\ promise[r] = "refused"
    /\ Limiter!Leave(r) /\ UNCHANGED barrierVars
    /\ Leaves(r) /\ Settles(r)

(* QueueFullError *)
Refused(r) ==
    /\ at[r] = "admission" /\ promise[r] = "refused"
    /\ Limiter!Leave(r) /\ ReleaseLease(r)
    /\ Leaves(r) /\ Settles(r)

(* The listener of the limiter has rejected the wait: the error is thrown  *)
(* on, past a caller that has already returned, and no one finishes the    *)
(* handle.                                                                 *)
Dropped(r) ==
    /\ at[r] = "admission" /\ promise[r] = "aborted"
    /\ Limiter!Leave(r) /\ ReleaseLease(r)
    /\ Leaves(r) /\ UNCHANGED unsettled

(* Mutant: the lease goes back as soon as a slot is granted. *)
ServedAfterLease(r) ==
    /\ at[r] = "admission" /\ promise[r] = "granted"
    /\ \/ /\ ReleaseLease(r)
          /\ UNCHANGED <<requestVars, limiterVars>>
       \/ /\ stage[r] # "leased" /\ Limiter!Release(r)
          /\ Leaves(r) /\ Settles(r) /\ UNCHANGED barrierVars

(* The worker has answered or failed, streamed or not: the slot, the lease *)
(* and the entry are returned and the handle is finished.                  *)
Served(r) ==
    /\ at[r] = "admission" /\ promise[r] = "granted"
    /\ Limiter!Release(r) /\ ReleaseLease(r)
    /\ Leaves(r) /\ Settles(r)

-----------------------------------------------------------------------------
(* POST /clap/v1/cache/identity/rotate *)
Rotate(w) ==
    /\ WriterStep(w)
    /\ UNCHANGED <<requestVars, limiterVars>>

Proceeds(r) ==
    \/ ResolveFails(r) \/ AsksSecret(r)
    \/ TakesSecret(r) \/ SecretFails(r) \/ IdentityFails(r)
    \/ Acquire(r) \/ Refused(r) \/ Dropped(r) \/ Served(r)

SystemNext ==
    \/ \E r \in Requests : Start(r) \/ Abort(r) \/ Proceeds(r)
    \/ \E w \in Writers : Rotate(w)

InLease(r) == stage[r] \in {"loading", "leased"} /\ Proceeds(r)
Rotating(w) == stage[w] # "idle" /\ Rotate(w)

(* Awaited work ends, the worker's included; a woken rotation looks again  *)
(* before rivals that come later.  Nothing else is assumed of requests.    *)
SystemFairness ==
    /\ \A r \in Requests : WF_systemVars(InLease(r))
    /\ \A w \in Writers :
          WF_systemVars(Rotating(w)) /\ SF_systemVars(Rotating(w) /\ WriterEnters(w))

SystemSpec == SystemInit /\ [][SystemNext]_systemVars
FairSystemSpec == SystemSpec /\ SystemFairness
-----------------------------------------------------------------------------
SystemTypeOK ==
    /\ at \in [Requests -> {"gone", "resolving", "identity", "admission"}]
    /\ unsettled \subseteq Requests /\ registered \subseteq Requests
    /\ TypeOK /\ Limiter!TypeOK

(* A request that has left holds no lease, no slot, no place in a queue    *)
(* and no registry entry, by whichever of its exits it left; and a request *)
(* has a lease exactly while the code says so.                             *)
ResourcesReturned ==
    \A r \in Requests :
        /\ at[r] = "gone" =>
              stage[r] = "idle" /\ promise[r] = "none" /\ r \notin registered
        /\ at[r] = "resolving" => stage[r] = "idle"
        /\ at[r] = "admission" => stage[r] = "leased" /\ promise[r] # "none"

(* inference-runtime-baseline.md: a rotation "lets already-dispatched      *)
(* old-generation requests reach terminal state": while it runs, nobody is *)
(* queued or served, so the residents it drains are idle.                  *)
RotationWaitsForRequests ==
    writerActive => \A r \in Requests : promise[r] \notin {"granted", "pending"}

(* index.ts: "Every exit after start() must settle the handle."            *)
ExitSettles ==
    [][\A r \in Requests :
          at[r] # "gone" /\ at'[r] = "gone" => r \notin unsettled']_systemVars

(* A request hangs in acquire: its signal had fired, AcquireAborted.       *)
SomeHangs == \E r \in Requests : promise[r] = "pending" /\ r \in aborted

(* Unless a request hangs in acquire, requests end and rotations run.      *)
RequestsEnd ==
    \A r \in Requests : at[r] = "admission" ~> at[r] = "gone" \/ SomeHangs

(* A waiting rotation gets its turn, although requests wait for slots      *)
(* while they hold leases, and more requests come.                         *)
RotationsGetTurn ==
    \A w \in Writers : stage[w] = "waiting" ~> stage[w] = "writing" \/ SomeHangs
=============================================================================
