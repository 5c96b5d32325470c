---------------------------- MODULE RotationLock ----------------------------
(***************************************************************************)
(* The installation secret of server processes that share one CLAP_HOME:   *)
(* its creation and its loads (installation-secret.ts), and its rotations  *)
(* (acquireRotationFileLock, removeStaleLock and rotate of rotation.ts).   *)
(* Secret and lock are files.  The secret is created with O_EXCL and then  *)
(* filled by the first process that needs it, and renamed into place by a  *)
(* rotation.  The lock is created with O_EXCL, filled with the owner's     *)
(* pid, removed by its owner, or by another process once it is old and its *)
(* owner is dead.                                                          *)
(*                                                                         *)
(* One action per file system call, since processes interleave between     *)
(* them and may crash there.  Inside a process the barrier of              *)
(* SecretBarrier admits one rotation at a time and no derivation beside    *)
(* it, so a process has one rotation, or one derivation, here.  A server   *)
(* that is restarted after a crash is another process.  A file is known by *)
(* its inode; a secret file has its generation for that, since no two      *)
(* share one.  Opening a file and reading it is one step: an open file     *)
(* changes only by being filled.  Abstracted: the clock (a lock ages, a    *)
(* wait times out at any retry), the number of times a creator that lost   *)
(* reads again, the checks of type, owner and permissions, the temporary   *)
(* file of a rotation, and reuse of process ids.                           *)
(***************************************************************************)
EXTENDS Integers, FiniteSets

CONSTANTS
    Servers,        \* server processes, named by their pids
    NoPid,          \* an empty lock file
    MaxCrashes, MaxGeneration, MaxInode   \* bounds

ASSUME LockAssumption ==
    /\ NoPid \notin Servers
    /\ MaxCrashes \in Nat /\ MaxGeneration \in Nat \ {0} /\ MaxInode \in Nat

VARIABLES
    lock,      \* the lock file: its inode, and what is in it
    inodes,    \* inodes used so far
    aged,      \* inodes of locks older than STALE_LOCK_MS
    file,      \* generation of the secret file, or NoSecret
    written,   \* whether the secret file has its content
    replaced,  \* generations that rotations have replaced
    dead,      \* processes that have crashed
    step,      \* where the rotation of each server is
    load,      \* where it is in reading the secret, and the file it found
    own,       \* inode of the lock the server has created
    seen,      \* what removeStaleLock has seen: the inode of the first lstat,
               \* then the pid in the file read and the inode of that file
    previous,  \* the generation the rotation will report as replaced
    cached     \* InstallationSecretProvider.current

secretFile == <<file, written, replaced>>
files == <<lock, inodes, aged, secretFile, dead>>
locals == <<own, seen, previous>>
vars == <<files, step, load, locals, cached>>

NoFile == [inode |-> 0, pid |-> NoPid]
Nothing == [inode |-> 0, pid |-> NoPid, read |-> 0]
NoSecret == 0
NoLoad == [at |-> "none", found |-> NoSecret, lost |-> FALSE]
Alive(s) == s \notin dead

Init ==
    /\ lock = NoFile /\ inodes = 0 /\ aged = {}
    /\ file \in {NoSecret, 1} /\ written = (file = 1) /\ replaced = {} /\ dead = {}
    /\ step = [s \in Servers |-> "idle"]
    /\ load = [s \in Servers |-> NoLoad]
    /\ own = [s \in Servers |-> 0]
    /\ seen = [s \in Servers |-> Nothing]
    /\ previous = [s \in Servers |-> NoSecret]
    /\ cached = [s \in Servers |-> NoSecret]

Goes(s, from, to) ==
    /\ Alive(s) /\ step[s] = from
    /\ step' = [step EXCEPT ![s] = to]

(* A rotation goes on when it is not in the middle of a load. *)
Steps(s, from, to) == Goes(s, from, to) /\ load[s] = NoLoad /\ UNCHANGED load
StartsLoad(s) == load' = [load EXCEPT ![s] = [NoLoad EXCEPT !.at = "lstat"]]

FilesUnchanged == UNCHANGED files
LocalsUnchanged == UNCHANGED <<locals, cached>>

(* removeStaleLock returns, or throws: its variables are gone. *)
Returns(s) == seen' = [seen EXCEPT ![s] = Nothing]

-----------------------------------------------------------------------------
(* readInstallationSecret and loadOrCreateInstallationSecret.  Read for a  *)
(* rotation that is about to persist ("loaded"), the secret has to exist.  *)

(* What the process does with generation g. *)
Loaded(s, g) ==
    \/ /\ step[s] = "idle" /\ cached' = [cached EXCEPT ![s] = g]
       /\ load' = [load EXCEPT ![s] = NoLoad] /\ UNCHANGED <<step, locals>>
    \/ /\ Goes(s, "first", "open")
       /\ load' = [load EXCEPT ![s] = NoLoad] /\ UNCHANGED <<locals, cached>>
    \/ /\ Goes(s, "locked", "loaded") /\ StartsLoad(s)
       /\ previous' = [previous EXCEPT ![s] = g]
       /\ UNCHANGED <<own, seen, cached>>
    \/ /\ Goes(s, "loaded", "persist")
       /\ load' = [load EXCEPT ![s] = NoLoad] /\ UNCHANGED <<locals, cached>>

LoadFails(s) ==
    /\ load' = [load EXCEPT ![s] = NoLoad]
    /\ \/ step[s] = "idle" /\ UNCHANGED <<step, previous>>
       \/ Goes(s, "first", "idle") /\ UNCHANGED previous
       \/ /\ Goes(s, "locked", "release") \/ Goes(s, "loaded", "release")
          /\ previous' = [previous EXCEPT ![s] = NoSecret]
    /\ UNCHANGED <<own, seen, cached>>

LoadGoes(s, from, to) ==
    /\ Alive(s) /\ load[s].at = from
    /\ load' = [load EXCEPT ![s] = to]
    /\ UNCHANGED <<step, locals, cached>>

LstatSecret(s) ==
    /\ \/ file # NoSecret /\ LoadGoes(s, "lstat", [load[s] EXCEPT !.at = "read", !.found = file])
       \/ file = NoSecret /\ LoadGoes(s, "lstat", [load[s] EXCEPT !.at = "create"])
       \/ Alive(s) /\ load[s].at = "lstat" /\ LoadFails(s)
    /\ FilesUnchanged

(* A file that was replaced since the lstat is refused, an empty one is    *)
(* malformed: whoever has lost the creation reads that one again.          *)
ReadSecret(s) ==
    /\ Alive(s) /\ load[s].at = "read"
    /\ \/ load[s].found = file /\ written /\ Loaded(s, file)
       \/ ~(load[s].found = file /\ written) /\ LoadFails(s)
       \/ /\ load[s].lost /\ load[s].found = file /\ ~written
          /\ LoadGoes(s, "read", [load[s] EXCEPT !.at = "lstat"])
    /\ FilesUnchanged

(* Mutant: the file is opened without O_EXCL, and the content replaced. *)
CreateSecretAnyway(s) ==
    /\ LoadGoes(s, "create", [load[s] EXCEPT !.at = "fill"])
    /\ file < MaxGeneration /\ file' = file + 1 /\ written' = FALSE
    /\ UNCHANGED <<lock, inodes, aged, replaced, dead>>

CreateSecret(s) ==
    /\ \/ /\ file = NoSecret /\ LoadGoes(s, "create", [load[s] EXCEPT !.at = "fill"])
          /\ file' = 1 /\ UNCHANGED written
       \/ /\ file # NoSecret
          /\ LoadGoes(s, "create", [load[s] EXCEPT !.at = "lstat", !.lost = TRUE])
          /\ UNCHANGED <<file, written>>
    /\ UNCHANGED <<lock, inodes, aged, replaced, dead>>

(* Writing fails, and the empty file stays, or syncing does. *)
FillSecret(s) ==
    /\ Alive(s) /\ load[s].at = "fill"
    /\ \/ written' = TRUE /\ (Loaded(s, 1) \/ LoadFails(s))
       \/ UNCHANGED written /\ LoadFails(s)
    /\ UNCHANGED <<lock, inodes, aged, file, replaced, dead>>

-----------------------------------------------------------------------------
(* acquireRotationFileLock *)

(* rotate loads the secret, under the lock too, for what it replaces. *)
Begin(s) ==
    /\ Goes(s, "idle", "first") /\ load[s] = NoLoad /\ StartsLoad(s)
    /\ FilesUnchanged /\ LocalsUnchanged

(* open with O_EXCL *)
CreateLock(s) ==
    /\ Steps(s, "open", "write") /\ lock = NoFile /\ inodes < MaxInode
    /\ inodes' = inodes + 1
    /\ lock' = [inode |-> inodes', pid |-> NoPid]
    /\ own' = [own EXCEPT ![s] = inodes']
    /\ UNCHANGED <<aged, secretFile, dead, seen, previous, cached>>

(* open fails otherwise. *)
CannotCreate(s) ==
    /\ Steps(s, "open", "idle") /\ lock = NoFile
    /\ FilesUnchanged /\ LocalsUnchanged

(* Writing fails: the rotation fails and its empty lock stays. *)
WriteLock(s) ==
    /\ \/ /\ Goes(s, "write", "locked") /\ StartsLoad(s)
          /\ lock' = IF lock.inode = own[s] THEN [lock EXCEPT !.pid = s] ELSE lock
       \/ Steps(s, "write", "idle") /\ UNCHANGED lock
    /\ UNCHANGED <<inodes, aged, secretFile, dead>> /\ LocalsUnchanged

(* EEXIST, and the first lstat of removeStaleLock. *)
FindLock(s) ==
    /\ Steps(s, "open", "read") /\ lock # NoFile
    /\ seen' = [seen EXCEPT ![s] = [Nothing EXCEPT !.inode = lock.inode]]
    /\ FilesUnchanged /\ UNCHANGED <<own, previous, cached>>

(* An empty file is malformed and fails the rotation. *)
ReadLock(s) ==
    /\ \/ Steps(s, "read", "retry") /\ lock = NoFile /\ Returns(s)
       \/ Steps(s, "read", "idle") /\ lock # NoFile /\ lock.pid = NoPid /\ Returns(s)
       \/ /\ Steps(s, "read", "judge") /\ lock # NoFile /\ lock.pid # NoPid
          /\ seen' = [seen EXCEPT ![s].pid = lock.pid, ![s].read = lock.inode]
    /\ FilesUnchanged /\ UNCHANGED <<own, previous, cached>>

IsStale(s) == seen[s].read \in aged /\ seen[s].pid \in dead

JudgeLock(s) ==
    /\ \/ Steps(s, "judge", "recheck") /\ IsStale(s) /\ UNCHANGED seen
       \/ Steps(s, "judge", "retry") /\ ~IsStale(s) /\ Returns(s)
    /\ FilesUnchanged /\ UNCHANGED <<own, previous, cached>>

(* Mutant: the comparison of the inodes is the wrong way round. *)
RecheckLockFlipped(s) ==
    /\ \/ Steps(s, "recheck", "unlink") /\ lock.inode # seen[s].inode
       \/ Steps(s, "recheck", "retry") /\ lock.inode = seen[s].inode
    /\ FilesUnchanged /\ LocalsUnchanged

(* The second lstat. *)
RecheckLock(s) ==
    /\ \/ /\ Steps(s, "recheck", "unlink") /\ lock.inode = seen[s].inode
          /\ UNCHANGED seen
       \/ /\ Steps(s, "recheck", "retry") /\ lock.inode # seen[s].inode
          /\ Returns(s)
    /\ FilesUnchanged /\ UNCHANGED <<own, previous, cached>>

(* rm goes by name: it removes whatever file is there by now. *)
UnlinkStale(s) ==
    /\ Steps(s, "unlink", "retry")
    /\ lock' = NoFile
    /\ Returns(s)
    /\ UNCHANGED <<inodes, aged, secretFile, dead, own, previous, cached>>

Retry(s) ==
    /\ Steps(s, "retry", "open") \/ Steps(s, "retry", "idle")  \* timed out
    /\ FilesUnchanged /\ LocalsUnchanged

-----------------------------------------------------------------------------
(* rotate, under the lock *)

(* Renamed into place; when syncing the directory then fails, the rotation *)
(* ends and the cache keeps the old secret.                                *)
Persist(s) ==
    /\ file < MaxGeneration /\ file' = file + 1
    /\ replaced' = replaced \cup {file}
    /\ \/ /\ Steps(s, "persist", "draining")
          /\ cached' = [cached EXCEPT ![s] = file']
       \/ Steps(s, "persist", "release") /\ UNCHANGED cached
    /\ UNCHANGED <<lock, inodes, aged, written, dead>> /\ UNCHANGED locals

(* Writing the secret fails, or the residents are drained. *)
Finish(s) ==
    /\ \E from \in {"persist", "draining"} : Steps(s, from, "release")
    /\ previous' = [previous EXCEPT ![s] = NoSecret]
    /\ FilesUnchanged /\ UNCHANGED <<own, seen, cached>>

(* The release closure: lstat, then rm if the file is the server's own. *)
CheckOwn(s) ==
    /\ \/ Steps(s, "release", "unlinkOwn") /\ lock.inode = own[s]
       \/ Steps(s, "release", "idle") /\ lock.inode # own[s]
    /\ FilesUnchanged /\ LocalsUnchanged

UnlinkOwn(s) ==
    /\ Steps(s, "unlinkOwn", "idle")
    /\ lock' = NoFile
    /\ UNCHANGED <<inodes, aged, secretFile, dead>> /\ LocalsUnchanged

-----------------------------------------------------------------------------
(* A request of the server derives its identity, beside no rotation. *)
Derive(s) ==
    /\ Alive(s) /\ step[s] = "idle" /\ load[s] = NoLoad /\ cached[s] = NoSecret
    /\ StartsLoad(s)
    /\ FilesUnchanged /\ LocalsUnchanged /\ UNCHANGED step

Age ==
    /\ lock # NoFile /\ lock.inode \notin aged
    /\ aged' = aged \cup {lock.inode}
    /\ UNCHANGED <<lock, inodes, secretFile, dead, step, load>> /\ LocalsUnchanged

Crash(s) ==
    /\ Alive(s) /\ Cardinality(dead) < MaxCrashes
    /\ dead' = dead \cup {s}
    /\ UNCHANGED <<lock, inodes, aged, secretFile, step, load>> /\ LocalsUnchanged

ServerStep(s) ==
    \/ CreateLock(s) \/ CannotCreate(s) \/ WriteLock(s)
    \/ FindLock(s) \/ ReadLock(s)
    \/ JudgeLock(s) \/ RecheckLock(s) \/ UnlinkStale(s) \/ Retry(s)
    \/ LstatSecret(s) \/ ReadSecret(s) \/ CreateSecret(s) \/ FillSecret(s)
    \/ Persist(s) \/ Finish(s) \/ CheckOwn(s) \/ UnlinkOwn(s)

Next ==
    \/ Age
    \/ \E s \in Servers :
          Begin(s) \/ ServerStep(s) \/ Derive(s) \/ Crash(s)

(* Live processes go on, and time passes. *)
Fairness == WF_vars(Age) /\ \A s \in Servers : WF_vars(ServerStep(s))

Spec == Init /\ [][Next]_vars
FairSpec == Spec /\ Fairness
-----------------------------------------------------------------------------
Places ==
    {"idle", "first", "open", "write", "read", "judge", "recheck", "unlink", "retry",
     "locked", "loaded", "persist", "draining", "release", "unlinkOwn"}

(* Every variable has its type; a lock is judged by a well-formed content. *)
TypeOK ==
    /\ inodes \in 0 .. MaxInode
    /\ lock \in [inode : 0 .. inodes, pid : Servers \cup {NoPid}]
    /\ aged \subseteq 1 .. inodes
    /\ file \in 0 .. MaxGeneration /\ written \in BOOLEAN /\ replaced \subseteq 1 .. file
    /\ dead \subseteq Servers
    /\ step \in [Servers -> Places]
    /\ load \in [Servers -> [at : {"none", "lstat", "read", "create", "fill"},
                             found : 0 .. file, lost : BOOLEAN]]
    /\ own \in [Servers -> 0 .. inodes]
    /\ seen \in [Servers -> [inode : 0 .. inodes, pid : Servers \cup {NoPid},
                             read : 0 .. inodes]]
    /\ previous \in [Servers -> 0 .. file]
    /\ cached \in [Servers -> 0 .. file]
    /\ \A s \in Servers :
          step[s] \in {"judge", "recheck", "unlink"} => seen[s].pid \in Servers

Rotating == {s \in Servers : Alive(s) /\ step[s] \in {"locked", "loaded", "persist", "draining"}}

(* rotation.test.ts: the "exclusive lock serializes independent provider   *)
(* instances": at most one live process is past the lock.                  *)
RotationsSerialized == \A s, o \in Rotating : s = o

(* installation-secret.test.ts: creators "load the exclusive winner".      *)
(* Whatever the order in which processes look for the secret, create and   *)
(* fill it, rotate it and crash, the one a process uses is the one in the  *)
(* file, complete, or one that a rotation has replaced since.              *)
SecretsAgree ==
    \A s \in Servers :
        \/ cached[s] \in replaced \cup {NoSecret}
        \/ cached[s] = file /\ written

(* rotation.ts: "previousGeneration reflects the winner": the generation a *)
(* rotation is about to replace is the one it will report.                 *)
PreviousIsReplaced ==
    \A s \in Rotating : step[s] \in {"loaded", "persist"} => previous[s] = file

(* While rotations are asked for, the lock of a dead process goes away.    *)
StaleLockRemoved ==
    []<>(\E s \in Servers : Alive(s) /\ step[s] = "open") =>
        (lock.pid \in dead ~> lock.pid \notin dead)

(* installation-secret.test.ts: "concurrent creators all load the          *)
(* exclusive winner": while the winner lives and writes, nobody gives up.  *)
(* The code violates it: the first read of a file that is still empty is   *)
(* an error, and only whoever has lost the creation reads again.           *)
CreatorsAllLoad ==
    [][\A s, o \in Servers :
          Alive(o) /\ load[o].at = "fill" /\ load'[o] = load[o] /\ load[s].at = "read"
             => load'[s] # NoLoad]_vars

=============================================================================
