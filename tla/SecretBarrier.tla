--------------------------- MODULE SecretBarrier ---------------------------
(***************************************************************************)
(* InstallationSecretProvider (rotation.ts) inside one server process: the *)
(* barrier between requests that derive cache identities from the          *)
(* installation secret and rotations that replace it.  A request keeps its *)
(* lease until it ends; a rotation that waits keeps new requests out.      *)
(*                                                                         *)
(* A task runs without interruption from one await to the next, so one     *)
(* action is one such run.  notify resolves every waiter at once, but each *)
(* looks at the counters again only when its own turn comes: in between it *)
(* is "woken".  The lock between processes is the subject of RotationLock. *)
(***************************************************************************)
EXTENDS Integers, FiniteSets

CONSTANTS
    Readers,        \* requests
    Writers,        \* rotations
    MaxGeneration   \* bound on secret generations (fresh UUIDs in the code)

ASSUME BarrierAssumption ==
    /\ Readers \cap Writers = {}
    /\ IsFiniteSet(Readers) /\ IsFiniteSet(Writers)
    /\ MaxGeneration \in Nat

Tasks == Readers \cup Writers

VARIABLES
    stage,          \* where each task is; "waiting" is being in this.waiters
    activeReaders,
    pendingWriters,
    writerActive,
    current,        \* the cached secret
    durable,        \* the secret in the file
    secret          \* the secret of each lease

vars == <<stage, activeReaders, pendingWriters, writerActive, current, durable,
          secret>>

NoSecret == 0

Init ==
    /\ stage = [t \in Tasks |-> "idle"]
    /\ activeReaders = 0 /\ pendingWriters = 0 /\ writerActive = FALSE
    /\ current = NoSecret /\ durable \in {NoSecret, 1}
    /\ secret = [r \in Readers |-> NoSecret]

(* notify *)
Notified(s) == [t \in Tasks |-> IF s[t] = "waiting" THEN "woken" ELSE s[t]]

(* loadOrCreateInstallationSecret *)
Stored == IF durable = NoSecret THEN 1 ELSE durable

-----------------------------------------------------------------------------
(* acquireReader, acquireSecret and the release closure of a lease *)

(* Mutant: only an active writer keeps readers out. *)
ReaderBlockedByActive == writerActive

ReaderBlocked == writerActive \/ pendingWriters > 0

ReaderWaits(r) ==
    /\ stage[r] \in {"idle", "woken"} /\ ReaderBlocked
    /\ stage' = [stage EXCEPT ![r] = "waiting"]
    /\ UNCHANGED <<activeReaders, pendingWriters, writerActive, current, durable, secret>>

ReaderEnters(r) ==
    /\ stage[r] \in {"idle", "woken"} /\ ~ReaderBlocked
    /\ stage' = [stage EXCEPT ![r] = "loading"]
    /\ activeReaders' = activeReaders + 1
    /\ UNCHANGED <<pendingWriters, writerActive, current, durable, secret>>

GetsSecret(r) ==
    /\ stage[r] = "loading"
    /\ current' = IF current = NoSecret THEN Stored ELSE current
    /\ durable' = IF current = NoSecret THEN Stored ELSE durable
    /\ secret' = [secret EXCEPT ![r] = current']
    /\ stage' = [stage EXCEPT ![r] = "leased"]
    /\ UNCHANGED <<activeReaders, pendingWriters, writerActive>>

LeaveReader(r) ==
    /\ activeReaders' = activeReaders - 1
    /\ stage' = [Notified(stage) EXCEPT ![r] = "idle"]
    /\ secret' = [secret EXCEPT ![r] = NoSecret]
    /\ UNCHANGED <<pendingWriters, writerActive, current, durable>>

LoadFails(r) == stage[r] = "loading" /\ current = NoSecret /\ LeaveReader(r)

ReleaseLease(r) == stage[r] = "leased" /\ LeaveReader(r)

-----------------------------------------------------------------------------
(* acquireWriter and rotate *)

WriterBlocked == writerActive \/ activeReaders > 0

WriterWaits(w) ==
    /\ stage[w] \in {"idle", "woken"} /\ WriterBlocked
    /\ stage' = [stage EXCEPT ![w] = "waiting"]
    /\ pendingWriters' = IF stage[w] = "idle" THEN pendingWriters + 1 ELSE pendingWriters
    /\ UNCHANGED <<activeReaders, writerActive, current, durable, secret>>

WriterEnters(w) ==
    /\ stage[w] \in {"idle", "woken"} /\ ~WriterBlocked
    /\ stage' = [stage EXCEPT ![w] = "writing"]
    /\ writerActive' = TRUE
    /\ pendingWriters' = IF stage[w] = "woken" THEN pendingWriters - 1 ELSE pendingWriters
    /\ UNCHANGED <<activeReaders, current, durable, secret>>

(* The new secret is in place and cached; the residents are drained next. *)
Persist(w) ==
    /\ stage[w] = "writing" /\ Stored < MaxGeneration
    /\ durable' = Stored + 1 /\ current' = durable'
    /\ stage' = [stage EXCEPT ![w] = "draining"]
    /\ UNCHANGED <<activeReaders, pendingWriters, writerActive, secret>>

LeaveWriter(w) ==
    /\ writerActive' = FALSE
    /\ stage' = [Notified(stage) EXCEPT ![w] = "idle"]
    /\ UNCHANGED <<activeReaders, pendingWriters, current, secret>>

(* Loading, locking or writing fails; the file may have been created.     *)
RotationFails(w) ==
    /\ stage[w] = "writing" /\ durable' \in {durable, Stored}
    /\ LeaveWriter(w)

(* The rename is done but syncing the directory fails: the file is new and *)
(* the cached secret is not.                                               *)
RotationUnsynced(w) ==
    /\ stage[w] = "writing" /\ Stored < MaxGeneration
    /\ durable' = Stored + 1
    /\ LeaveWriter(w)

(* Draining the residents ends or throws. *)
RotationEnds(w) ==
    /\ stage[w] = "draining"
    /\ LeaveWriter(w) /\ UNCHANGED durable

-----------------------------------------------------------------------------
ReaderStep(r) ==
    \/ ReaderWaits(r) \/ ReaderEnters(r) \/ GetsSecret(r)
    \/ LoadFails(r) \/ ReleaseLease(r)

WriterStep(w) ==
    \/ WriterWaits(w) \/ WriterEnters(w) \/ Persist(w)
    \/ RotationFails(w) \/ RotationUnsynced(w) \/ RotationEnds(w)

Next == (\E r \in Readers : ReaderStep(r)) \/ (\E w \in Writers : WriterStep(w))

Spec == Init /\ [][Next]_vars
-----------------------------------------------------------------------------
ReaderStages == {"idle", "waiting", "woken", "loading", "leased"}
WriterStages == {"idle", "waiting", "woken", "writing", "draining"}

In(tasks, stages) == {t \in tasks : stage[t] \in stages}

TypeOK ==
    /\ stage \in [Tasks -> ReaderStages \cup WriterStages]
    /\ \A r \in Readers : stage[r] \in ReaderStages
    /\ \A w \in Writers : stage[w] \in WriterStages
    /\ activeReaders \in Nat /\ pendingWriters \in Nat
    /\ writerActive \in BOOLEAN
    /\ current \in Nat /\ durable \in Nat
    /\ secret \in [Readers -> Nat]

(* The counters are those of the tasks, along every path out of them.      *)
TasksCounted ==
    /\ activeReaders = Cardinality(In(Readers, {"loading", "leased"}))
    /\ pendingWriters = Cardinality(In(Writers, {"waiting", "woken"}))

(* rotation.ts: the "barrier keeps new derivations blocked through resident *)
(* draining": a rotation runs alone and while nobody holds a lease.        *)
RotationAlone ==
    /\ writerActive <=> In(Writers, {"writing", "draining"}) # {}
    /\ \A v, w \in In(Writers, {"writing", "draining"}) : v = w
    /\ writerActive => In(Readers, {"loading", "leased"}) = {}

(* Somebody who will call notify, or look again, is there for each waiter. *)
NoLostWakeup ==
    In(Tasks, {"waiting"}) # {} =>
        writerActive \/ activeReaders > 0 \/ In(Writers, {"woken"}) # {}

(* All leases in use carry the cached secret: no request goes on with an   *)
(* identity of the generation before a rotation.                           *)
LeasesCurrent ==
    \A r \in In(Readers, {"leased"}) : secret[r] = current /\ current # NoSecret

=============================================================================
