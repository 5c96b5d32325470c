------------------------- MODULE RotationLockProofs -------------------------
(***************************************************************************)
(* The processes that share a CLAP_HOME use the secret that is in the file *)
(* or one that a rotation has replaced since, for any number of processes, *)
(* crashes, locks and generations.                                         *)
(***************************************************************************)
EXTENDS RotationLock, TLAPS

Locks == [inode : 0 .. inodes, pid : Servers \cup {NoPid}]
Seen == [inode : 0 .. inodes, pid : Servers \cup {NoPid}, read : 0 .. inodes]
Load == [at : {"none", "lstat", "read", "create", "fill"},
         found : 0 .. file, lost : BOOLEAN]

(* A lock that is there has an inode, and so has the one its server writes. *)
LocksNumbered ==
    /\ lock.inode = 0 => lock = NoFile
    /\ \A s \in Servers : step[s] = "write" => own[s] # 0

(* The secret file stays once it is created, and complete once it is filled; *)
(* whoever is about to persist has found it complete.                        *)
SecretStays ==
    /\ written => file # NoSecret
    /\ replaced = 1 .. (file - 1)
    /\ \A s \in Servers : load[s].at = "fill" => file # NoSecret
    /\ \A s \in Servers : step[s] = "persist" => written

Inv == TypeOK /\ LocksNumbered /\ SecretStays /\ SecretsAgree

-----------------------------------------------------------------------------
(* Types. *)

LEMMA SeenType ==
    ASSUME TypeOK PROVE seen \in [Servers -> Seen] /\ load \in [Servers -> Load]
  BY DEF TypeOK, Seen, Load

(* removeStaleLock: only what it has seen and its place change. *)
LEMMA LookTypes ==
    ASSUME TypeOK, NEW s \in Servers, NEW to \in Places, NEW r \in Seen,
           step' = [step EXCEPT ![s] = to], seen' = [seen EXCEPT ![s] = r],
           to \in {"judge", "recheck", "unlink"} => r.pid \in Servers,
           UNCHANGED <<inodes, aged, file, written, replaced, dead, load, own,
                       previous, cached>>,
           lock' \in Locks
    PROVE  TypeOK'
  <1>1. seen' \in [Servers -> Seen]  BY SeenType
  <1>2. \A o \in Servers : step'[o] \in {"judge", "recheck", "unlink"}
                             => seen'[o].pid \in Servers
    BY SeenType DEF TypeOK
  <1>3. step' \in [Servers -> Places]  BY DEF TypeOK
  <1> QED  BY <1>1, <1>2, <1>3 DEF TypeOK, Locks, Seen

LEMMA NoLoadType == Inv => NoLoad \in Load /\ [NoLoad EXCEPT !.at = "lstat"] \in Load
  <1>1. Inv => 0 \in 0 .. file
    BY LockAssumption DEF LockAssumption, Inv, TypeOK
  <1> QED  BY <1>1 DEF NoLoad, NoSecret, Load

LEMMA NothingType == Inv => Nothing \in Seen
  BY LockAssumption DEF LockAssumption, Inv, TypeOK, Nothing, Seen

LEMMA LookStepTypes ==
    ASSUME Inv, NEW s \in Servers,
           FindLock(s) \/ ReadLock(s) \/ JudgeLock(s) \/ RecheckLock(s) \/ UnlinkStale(s)
    PROVE  TypeOK'
  <1>0. Nothing \in Seen /\ seen \in [Servers -> Seen] /\ lock \in Locks /\ NoFile \in Locks
    BY NothingType, SeenType, LockAssumption
    DEF Inv, TypeOK, Locks, NoFile, LockAssumption
  <1>1. UNCHANGED <<inodes, aged, file, written, replaced, dead, load, own,
                    previous, cached>>
    BY DEF FindLock, ReadLock, JudgeLock, RecheckLock, UnlinkStale, FilesUnchanged,
           files, secretFile, Steps
  <1>2. lock' \in Locks
    BY <1>0 DEF FindLock, ReadLock, JudgeLock, RecheckLock, UnlinkStale, FilesUnchanged, files
  <1>3. ASSUME NEW to \in Places, Steps(s, step[s], to), Returns(s),
               to \notin {"judge", "recheck", "unlink"}
        PROVE  TypeOK'
    BY <1>0, <1>1, <1>2, <1>3, LookTypes DEF Returns, Steps, Goes, Inv
  <1>4. ASSUME NEW to \in {"recheck", "unlink"}, Steps(s, step[s], to), seen' = seen,
               step[s] \in {"judge", "recheck"}
        PROVE  TypeOK'
    <2>1. seen[s].pid \in Servers  BY <1>4 DEF Inv, TypeOK
    <2>2. seen' = [seen EXCEPT ![s] = seen[s]]  BY <1>0, <1>4
    <2>3. to \in Places  BY DEF Places
    <2> QED  BY <1>0, <1>1, <1>2, <1>4, <2>1, <2>2, <2>3, LookTypes DEF Steps, Goes, Inv
  <1>5. CASE FindLock(s)
    <2> DEFINE r == [Nothing EXCEPT !.inode = lock.inode]
    <2>1. r \in Seen  BY <1>0 DEF Seen, Locks
    <2>2. seen' = [seen EXCEPT ![s] = r]  BY <1>5 DEF FindLock
    <2>3. step' = [step EXCEPT ![s] = "read"]  BY <1>5 DEF FindLock, Steps, Goes
    <2>4. "read" \in Places  BY DEF Places
    <2> HIDE DEF r
    <2> QED  BY <1>1, <1>2, <2>1, <2>2, <2>3, <2>4, LookTypes DEF Inv
  <1>6. CASE ReadLock(s)
    <2>1. CASE Steps(s, "read", "judge") /\ lock.pid # NoPid
               /\ seen' = [seen EXCEPT ![s].pid = lock.pid, ![s].read = lock.inode]
      <3> DEFINE r == [seen[s] EXCEPT !.pid = lock.pid, !.read = lock.inode]
      <3>1. r \in Seen /\ r.pid \in Servers  BY <1>0, <2>1 DEF Seen, Locks
      <3>2. seen' = [seen EXCEPT ![s] = r]  BY <1>0, <2>1
      <3>3. step' = [step EXCEPT ![s] = "judge"]  BY <2>1 DEF Steps, Goes
      <3>4. "judge" \in Places  BY DEF Places
      <3> HIDE DEF r
      <3> QED  BY <1>1, <1>2, <3>1, <3>2, <3>3, <3>4, LookTypes DEF Inv
    <2>2. CASE \E to \in {"retry", "idle"} : Steps(s, "read", to) /\ Returns(s)
      BY <1>3, <2>2 DEF Steps, Goes, Places
    <2> QED  BY <1>6, <2>1, <2>2 DEF ReadLock
  <1>7. CASE JudgeLock(s)
    BY <1>3, <1>4, <1>7 DEF JudgeLock, Steps, Goes, Places
  <1>8. CASE RecheckLock(s)
    BY <1>3, <1>4, <1>8 DEF RecheckLock, Steps, Goes, Places
  <1>9. CASE UnlinkStale(s)
    BY <1>3, <1>9 DEF UnlinkStale, Steps, Goes, Places
  <1> QED  BY <1>5, <1>6, <1>7, <1>8, <1>9

LEMMA CreateLockTypes == ASSUME Inv, NEW s \in Servers, CreateLock(s) PROVE TypeOK'
  BY LockAssumption
  DEF LockAssumption, Inv, TypeOK, LocksNumbered, CreateLock, Goes, Steps,
      FilesUnchanged, LocalsUnchanged, files, secretFile, locals, Places, NoFile

LEMMA CannotCreateTypes == ASSUME Inv, NEW s \in Servers, CannotCreate(s) PROVE TypeOK'
  BY LockAssumption
  DEF LockAssumption, Inv, TypeOK, LocksNumbered, CannotCreate, Goes, Steps,
      FilesUnchanged, LocalsUnchanged, files, secretFile, locals, Places

LEMMA RetryTypes == ASSUME Inv, NEW s \in Servers, Retry(s) PROVE TypeOK'
  BY LockAssumption
  DEF LockAssumption, Inv, TypeOK, LocksNumbered, Retry, Goes, Steps,
      FilesUnchanged, LocalsUnchanged, files, secretFile, locals, Places

LEMMA FinishTypes == ASSUME Inv, NEW s \in Servers, Finish(s) PROVE TypeOK'
  BY LockAssumption
  DEF LockAssumption, Inv, TypeOK, LocksNumbered, Finish, Goes, Steps,
      FilesUnchanged, LocalsUnchanged, files, secretFile, locals, Places, NoSecret

LEMMA CheckOwnTypes == ASSUME Inv, NEW s \in Servers, CheckOwn(s) PROVE TypeOK'
  BY LockAssumption
  DEF LockAssumption, Inv, TypeOK, LocksNumbered, CheckOwn, Goes, Steps,
      FilesUnchanged, LocalsUnchanged, files, secretFile, locals, Places

LEMMA UnlinkOwnTypes == ASSUME Inv, NEW s \in Servers, UnlinkOwn(s) PROVE TypeOK'
  BY LockAssumption
  DEF LockAssumption, Inv, TypeOK, LocksNumbered, UnlinkOwn, Goes, Steps,
      FilesUnchanged, LocalsUnchanged, files, secretFile, locals, Places, NoFile

LEMMA BeginTypes == ASSUME Inv, NEW s \in Servers, Begin(s) PROVE TypeOK'
  BY LockAssumption
  DEF LockAssumption, Inv, TypeOK, LocksNumbered, Begin, Goes, Steps,
      FilesUnchanged, LocalsUnchanged, files, secretFile, locals, Places, StartsLoad, NoLoad, NoSecret

LEMMA DeriveTypes == ASSUME Inv, NEW s \in Servers, Derive(s) PROVE TypeOK'
  BY LockAssumption
  DEF LockAssumption, Inv, TypeOK, LocksNumbered, Derive, Goes, Steps,
      FilesUnchanged, LocalsUnchanged, files, secretFile, locals, Places, StartsLoad, NoLoad, NoSecret

LEMMA CrashTypes == ASSUME Inv, NEW s \in Servers, Crash(s) PROVE TypeOK'
  BY LockAssumption
  DEF LockAssumption, Inv, TypeOK, LocksNumbered, Crash, Goes, Steps,
      FilesUnchanged, LocalsUnchanged, files, secretFile, locals, Places

LEMMA WriteLockTypes == ASSUME Inv, NEW s \in Servers, WriteLock(s) PROVE TypeOK'
  <1>1. lock' \in Locks
    BY DEF Inv, TypeOK, WriteLock, Locks
  <1>2. load' \in [Servers -> Load]
    BY SeenType, NoLoadType DEF Inv, WriteLock, Steps, StartsLoad
  <1> QED
    BY <1>1, <1>2
    DEF Inv, TypeOK, WriteLock, Goes, Steps, LocalsUnchanged, secretFile, locals,
        Places, Locks, Load

(* A load goes on: it finds a file there is, and where it ends the server goes *)
(* on with a generation there is.                                              *)
LEMMA LoadTypes ==
    ASSUME Inv, NEW s \in Servers, NEW r, load' = [load EXCEPT ![s] = r],
           r \in Load', file' \in {file, 1}, file' >= file, file' <= MaxGeneration,
           written' \in BOOLEAN,
           UNCHANGED <<inodes, lock, aged, replaced, dead, own, seen>>,
           step' \in [Servers -> Places],
           \A o \in Servers : step'[o] \in {"judge", "recheck", "unlink"} => step'[o] = step[o],
           previous' \in [Servers -> 0 .. file'], cached' \in [Servers -> 0 .. file']
    PROVE  TypeOK'
  <1>1. 0 .. file \subseteq 0 .. file' /\ 1 .. file \subseteq 1 .. file'
        /\ file' \in 0 .. MaxGeneration
    BY LockAssumption DEF LockAssumption, Inv, TypeOK
  <1>2. Load \subseteq Load'  BY <1>1 DEF Load
  <1>3. load' \in [Servers -> Load']
    BY <1>2, SeenType DEF Inv
  <1>4. \A o \in Servers : step'[o] \in {"judge", "recheck", "unlink"}
                             => seen'[o].pid \in Servers
    BY DEF Inv, TypeOK
  <1>5. replaced' \subseteq 1 .. file'  BY <1>1 DEF Inv, TypeOK
  <1> QED  BY <1>1, <1>3, <1>4, <1>5 DEF Inv, TypeOK, Load

LEMMA LoadGoesTypes ==
    ASSUME Inv, NEW s \in Servers, NEW from, NEW r, LoadGoes(s, from, r),
           r \in Load', file' \in {file, 1}, file' >= file, file' <= MaxGeneration,
           written' \in BOOLEAN,
           UNCHANGED <<inodes, lock, aged, replaced, dead>>
    PROVE  TypeOK'
  <1>1. 0 .. file \subseteq 0 .. file'
    BY LockAssumption DEF LockAssumption, Inv, TypeOK
  <1>2. /\ step' = step /\ step' \in [Servers -> Places]
        /\ previous' \in [Servers -> 0 .. file'] /\ cached' \in [Servers -> 0 .. file']
        /\ UNCHANGED <<own, seen>> /\ load' = [load EXCEPT ![s] = r]
    BY <1>1 DEF LoadGoes, locals, Inv, TypeOK
  <1> QED  BY <1>2, LoadTypes

LEMMA LoadEndsTypes ==
    ASSUME Inv, NEW s \in Servers, NEW g \in 0 .. file, Loaded(s, g) \/ LoadFails(s),
           written' \in BOOLEAN,
           UNCHANGED <<inodes, lock, aged, file, replaced, dead>>
    PROVE  TypeOK'
  <1>1. NoLoad \in Load' /\ [NoLoad EXCEPT !.at = "lstat"] \in Load'
    <2>1. Load' = Load  BY DEF Load
    <2> QED  BY <2>1, NoLoadType
  <1>2. PICK r \in Load' : load' = [load EXCEPT ![s] = r]
    BY <1>1 DEF Loaded, LoadFails, StartsLoad
  <1>3. UNCHANGED <<own, seen>>
    BY DEF Loaded, LoadFails, locals
  <1>4. \/ step' = step
        \/ \E to \in {"open", "loaded", "persist", "idle", "release"} :
              step' = [step EXCEPT ![s] = to]
    BY DEF Loaded, LoadFails, Goes
  <1>5. /\ step' \in [Servers -> Places]
        /\ \A o \in Servers : step'[o] \in {"judge", "recheck", "unlink"} => step'[o] = step[o]
    BY <1>4 DEF Inv, TypeOK, Places
  <1>6. previous' \in [Servers -> 0 .. file'] /\ cached' \in [Servers -> 0 .. file']
    <2>1. previous \in [Servers -> 0 .. file] /\ cached \in [Servers -> 0 .. file]
          /\ NoSecret \in 0 .. file
      BY LockAssumption DEF LockAssumption, Inv, TypeOK, NoSecret
    <2>2. \/ previous' = previous
          \/ \E h \in 0 .. file : previous' = [previous EXCEPT ![s] = h]
      BY <2>1 DEF Loaded, LoadFails, locals
    <2>3. \/ cached' = cached
          \/ cached' = [cached EXCEPT ![s] = g]
      BY DEF Loaded, LoadFails
    <2> QED  BY <2>1, <2>2, <2>3
  <1>7. file' \in {file, 1} /\ file' >= file /\ file' <= MaxGeneration
    BY LockAssumption DEF LockAssumption, Inv, TypeOK
  <1> QED  BY <1>2, <1>3, <1>5, <1>6, <1>7, LoadTypes

LEMMA SecretStepTypes ==
    ASSUME Inv, NEW s \in Servers,
           LstatSecret(s) \/ ReadSecret(s) \/ CreateSecret(s) \/ FillSecret(s)
    PROVE  TypeOK'
  <1>0. /\ load[s] \in Load /\ file \in 0 .. file /\ 0 \in 0 .. file
        /\ file \in 0 .. MaxGeneration /\ written \in BOOLEAN /\ file >= file
        /\ MaxGeneration \in Nat /\ 1 <= MaxGeneration
    BY SeenType, LockAssumption DEF Inv, TypeOK, LockAssumption
  <1>1. CASE LstatSecret(s)
    <2>1. UNCHANGED <<inodes, lock, aged, file, written, replaced, dead>>
      BY <1>1 DEF LstatSecret, FilesUnchanged, files, secretFile
    <2>2. CASE LoadFails(s)  BY <1>0, <2>1, <2>2, LoadEndsTypes
    <2>3. CASE LoadGoes(s, "lstat", [load[s] EXCEPT !.at = "read", !.found = file])
      <3>1. [load[s] EXCEPT !.at = "read", !.found = file] \in Load'
        BY <1>0, <2>1 DEF Load
      <3> QED  BY <1>0, <2>1, <2>3, <3>1, LoadGoesTypes
    <2>4. CASE LoadGoes(s, "lstat", [load[s] EXCEPT !.at = "create"])
      <3>1. [load[s] EXCEPT !.at = "create"] \in Load'
        BY <1>0, <2>1 DEF Load
      <3> QED  BY <1>0, <2>1, <2>4, <3>1, LoadGoesTypes
    <2> QED  BY <1>1, <2>2, <2>3, <2>4 DEF LstatSecret
  <1>2. CASE ReadSecret(s)
    <2>1. UNCHANGED <<inodes, lock, aged, file, written, replaced, dead>>
      BY <1>2 DEF ReadSecret, FilesUnchanged, files, secretFile
    <2>2. CASE LoadFails(s) \/ Loaded(s, file)  BY <1>0, <2>1, <2>2, LoadEndsTypes
    <2>3. CASE LoadGoes(s, "read", [load[s] EXCEPT !.at = "lstat"])
      <3>1. [load[s] EXCEPT !.at = "lstat"] \in Load'
        BY <1>0, <2>1 DEF Load
      <3> QED  BY <1>0, <2>1, <2>3, <3>1, LoadGoesTypes
    <2> QED  BY <1>2, <2>2, <2>3 DEF ReadSecret
  <1>3. CASE CreateSecret(s)
    <2>1. UNCHANGED <<inodes, lock, aged, written, replaced, dead>>
      BY <1>3 DEF CreateSecret
    <2>2. file' \in {file, 1} /\ file' >= file /\ file' <= MaxGeneration
      BY <1>0, <1>3 DEF CreateSecret, NoSecret
    <2>3. CASE LoadGoes(s, "create", [load[s] EXCEPT !.at = "fill"])
      <3>1. [load[s] EXCEPT !.at = "fill"] \in Load'
        BY <1>0, <2>2 DEF Load
      <3> QED  BY <1>0, <2>1, <2>2, <2>3, <3>1, LoadGoesTypes
    <2>4. CASE LoadGoes(s, "create", [load[s] EXCEPT !.at = "lstat", !.lost = TRUE])
      <3>1. [load[s] EXCEPT !.at = "lstat", !.lost = TRUE] \in Load'
        <4>1. 0 .. file \subseteq 0 .. file'  BY <1>0, <2>2
        <4>2. load[s].found \in 0 .. file  BY <1>0 DEF Load
        <4> QED  BY <1>0, <4>1, <4>2 DEF Load
      <3> QED  BY <1>0, <2>1, <2>2, <2>4, <3>1, LoadGoesTypes
    <2> QED  BY <1>3, <2>3, <2>4 DEF CreateSecret
  <1>4. CASE FillSecret(s)
    <2>1. UNCHANGED <<inodes, lock, aged, file, replaced, dead>> /\ written' \in BOOLEAN
      BY <1>0, <1>4 DEF FillSecret
    <2>2. 1 \in 0 .. file
      BY <1>0, <1>4 DEF FillSecret, Inv, SecretStays, NoSecret
    <2> QED  BY <1>0, <1>4, <2>1, <2>2, LoadEndsTypes DEF FillSecret
  <1> QED  BY <1>1, <1>2, <1>3, <1>4

LEMMA PersistTypes == ASSUME Inv, NEW s \in Servers, Persist(s) PROVE TypeOK'
  <1>1. /\ file' = file + 1 /\ file' \in 0 .. MaxGeneration
        /\ 0 .. file \subseteq 0 .. file' /\ 1 .. file \subseteq 1 .. file'
    BY LockAssumption DEF LockAssumption, Inv, TypeOK, Persist
  <1>2. file # NoSecret
    BY DEF Inv, SecretStays, Persist, Steps, Goes
  <1>3. replaced' \subseteq 1 .. file'
    BY <1>1, <1>2 DEF Inv, TypeOK, Persist, NoSecret
  <1>4. load' \in [Servers -> Load']
    <2>1. Load \subseteq Load'  BY <1>1 DEF Load
    <2> QED  BY <2>1, SeenType DEF Persist, Steps, Inv
  <1>5. cached' \in [Servers -> 0 .. file'] /\ previous' \in [Servers -> 0 .. file']
    BY <1>1 DEF Persist, Inv, TypeOK, locals
  <1>6. /\ step' \in [Servers -> Places]
        /\ \A o \in Servers : step'[o] \in {"judge", "recheck", "unlink"} => step'[o] = step[o]
    BY DEF Persist, Steps, Goes, Inv, TypeOK, Places
  <1> QED
    BY <1>1, <1>3, <1>4, <1>5, <1>6 DEF Persist, Inv, TypeOK, Load, locals

LEMMA TypeStep == ASSUME Inv, [Next]_vars PROVE TypeOK'
  <1>1. CASE Age
    <2>1. lock.inode \in 1 .. inodes
      BY <1>1 DEF Age, Inv, TypeOK, LocksNumbered
    <2> QED
      BY <1>1, <2>1 DEF Age, Inv, TypeOK, LocalsUnchanged, locals, secretFile
  <1>2. ASSUME NEW s \in Servers, Begin(s) \/ ServerStep(s) \/ Derive(s) \/ Crash(s)
        PROVE  TypeOK'
    BY <1>2, BeginTypes, DeriveTypes, CrashTypes, CreateLockTypes, CannotCreateTypes,
       WriteLockTypes, LookStepTypes, RetryTypes, SecretStepTypes, PersistTypes,
       FinishTypes, CheckOwnTypes, UnlinkOwnTypes
    DEF ServerStep
  <1>3. CASE UNCHANGED vars
    BY <1>3 DEF Inv, TypeOK, vars, files, secretFile, locals
  <1> QED  BY <1>1, <1>2, <1>3 DEF Next

-----------------------------------------------------------------------------
(* The lock files. *)

LEMMA LocksStep == ASSUME Inv, [Next]_vars PROVE LocksNumbered'
  <1>0. /\ lock \in [inode : 0 .. inodes, pid : Servers \cup {NoPid}] /\ inodes \in Nat
        /\ step \in [Servers -> Places] /\ own \in [Servers -> 0 .. inodes]
    BY DEF Inv, TypeOK
  <1>1. ASSUME lock' \in {lock, NoFile}, own' = own,
               \A s \in Servers : step'[s] = "write" => step[s] = "write"
        PROVE  LocksNumbered'
    BY <1>1 DEF Inv, LocksNumbered, NoFile
  <1>2. ASSUME NEW s \in Servers, CreateLock(s) PROVE LocksNumbered'
    <2>1. /\ lock' = [inode |-> inodes + 1, pid |-> NoPid]
          /\ own' = [own EXCEPT ![s] = inodes + 1]
          /\ step' = [step EXCEPT ![s] = "write"]
      BY <1>2 DEF CreateLock, Steps, Goes
    <2>2. inodes + 1 # 0  BY <1>0
    <2> QED  BY <1>0, <2>1, <2>2 DEF Inv, LocksNumbered
  <1>3. ASSUME NEW s \in Servers, WriteLock(s) PROVE LocksNumbered'
    <2>1. /\ own' = own /\ own[s] # 0
          /\ \A o \in Servers : step'[o] = "write" => step[o] = "write"
      BY <1>0, <1>3 DEF WriteLock, Steps, Goes, LocalsUnchanged, locals, Inv, LocksNumbered
    <2>2. lock' = lock \/ lock'.inode = own[s]
      BY <1>0, <1>3 DEF WriteLock
    <2> QED  BY <2>1, <2>2 DEF Inv, LocksNumbered, NoFile
  <1>4. CASE Age
    BY <1>1, <1>4 DEF Age, LocalsUnchanged, locals
  <1>5. ASSUME NEW s \in Servers,
               \/ Begin(s) \/ Derive(s) \/ Crash(s) \/ CannotCreate(s) \/ FindLock(s)
               \/ ReadLock(s) \/ JudgeLock(s) \/ RecheckLock(s) \/ UnlinkStale(s)
               \/ Retry(s) \/ Persist(s) \/ Finish(s) \/ CheckOwn(s) \/ UnlinkOwn(s)
        PROVE  LocksNumbered'
    <2>1. lock' \in {lock, NoFile} /\ own' = own
      BY <1>5 DEF Begin, Derive, Crash, CannotCreate, FindLock, ReadLock, JudgeLock,
                  RecheckLock, UnlinkStale, Retry, Persist, Finish, CheckOwn, UnlinkOwn,
                  FilesUnchanged, LocalsUnchanged, files, locals
    <2>2. \A o \in Servers : step'[o] = "write" => step[o] = "write"
      BY <1>0, <1>5 DEF Begin, Derive, Crash, CannotCreate, FindLock, ReadLock, JudgeLock,
                  RecheckLock, UnlinkStale, Retry, Persist, Finish, CheckOwn, UnlinkOwn,
                  Steps, Goes
    <2> QED  BY <1>1, <2>1, <2>2
  <1>6. ASSUME NEW s \in Servers,
               LstatSecret(s) \/ ReadSecret(s) \/ CreateSecret(s) \/ FillSecret(s)
        PROVE  LocksNumbered'
    <2>1. lock' = lock
      BY <1>6 DEF LstatSecret, ReadSecret, CreateSecret, FillSecret, FilesUnchanged, files
    <2>2. /\ own' = own
          /\ \A o \in Servers : step'[o] = "write" => step[o] = "write"
      BY <1>0, <1>6 DEF LstatSecret, ReadSecret, CreateSecret, FillSecret, Loaded,
                        LoadFails, LoadGoes, Goes, locals
    <2> QED  BY <1>1, <2>1, <2>2
  <1>7. CASE UNCHANGED vars
    BY <1>1, <1>7 DEF vars, files, locals
  <1> QED  BY <1>2, <1>3, <1>4, <1>5, <1>6, <1>7 DEF Next, ServerStep

-----------------------------------------------------------------------------
(* The secret file. *)

(* A step that leaves the secret and the caches alone. *)
LEMMA SecretKept ==
    ASSUME Inv, UNCHANGED <<file, written, replaced, cached>>,
           \A s \in Servers : load'[s].at = "fill" => load[s].at = "fill",
           \A s \in Servers : step'[s] = "persist" => step[s] = "persist"
    PROVE  SecretStays' /\ SecretsAgree'
  <1>1. SecretStays'  BY DEF Inv, SecretStays
  <1>2. SecretsAgree'  BY DEF Inv, SecretsAgree
  <1> QED  BY <1>1, <1>2

(* A server takes over generation g, once the file is complete. *)
LEMMA LoadedSecret ==
    ASSUME Inv, NEW s \in Servers, NEW g, Loaded(s, g), written' = TRUE,
           file' = file, replaced' = replaced, file # NoSecret,
           g = file \/ g \in replaced
    PROVE  SecretStays' /\ SecretsAgree'
  <1>0. load \in [Servers -> Load] /\ cached \in [Servers -> 0 .. file]
    BY SeenType DEF Inv, TypeOK
  <1>1. \A o \in Servers : load'[o].at = "fill" => load[o].at = "fill"
    BY <1>0 DEF Loaded, StartsLoad, NoLoad
  <1>2. SecretStays'
    BY <1>1 DEF Inv, SecretStays
  <1>3. \A o \in Servers : cached'[o] = cached[o] \/ cached'[o] = g
    BY <1>0 DEF Loaded
  <1>4. SecretsAgree'
    BY <1>3 DEF Inv, SecretsAgree
  <1> QED  BY <1>2, <1>4

LEMMA LoadFailsSecret ==
    ASSUME Inv, NEW s \in Servers, LoadFails(s)
    PROVE  /\ cached' = cached
           /\ \A o \in Servers : load'[o].at = "fill" => load[o].at = "fill"
           /\ \A o \in Servers : step'[o] = "persist" => step[o] = "persist"
  <1>0. load \in [Servers -> Load] /\ step \in [Servers -> Places]
    BY SeenType DEF Inv, TypeOK
  <1>1. \A o \in Servers : load'[o].at = "fill" => load[o].at = "fill"
    BY <1>0 DEF LoadFails, NoLoad
  <1>2. \A o \in Servers : step'[o] = "persist" => step[o] = "persist"
    BY <1>0 DEF LoadFails, Goes
  <1> QED  BY <1>1, <1>2 DEF LoadFails

LEMMA ReadSecretKeeps ==
    ASSUME Inv, NEW s \in Servers, LstatSecret(s) \/ ReadSecret(s)
    PROVE  SecretStays' /\ SecretsAgree'
  <1>0. load \in [Servers -> Load]  BY SeenType DEF Inv
  <1>1. UNCHANGED <<file, written, replaced>>
    BY DEF LstatSecret, ReadSecret, FilesUnchanged, files, secretFile
  <1>2. CASE LoadFails(s)
    BY <1>1, <1>2, LoadFailsSecret, SecretKept
  <1>3. CASE \E from, to : LoadGoes(s, from, to) /\ to.at # "fill"
    <2>1. /\ step' = step /\ cached' = cached
          /\ \A o \in Servers : load'[o].at = "fill" => load[o].at = "fill"
      BY <1>0, <1>3 DEF LoadGoes
    <2> QED  BY <1>1, <2>1, SecretKept
  <1>4. CASE written /\ Loaded(s, file)
    <2>1. file # NoSecret  BY <1>4 DEF Inv, SecretStays
    <2> QED  BY <1>1, <1>4, <2>1, LoadedSecret
  <1>5. /\ [load[s] EXCEPT !.at = "read", !.found = file].at # "fill"
        /\ [load[s] EXCEPT !.at = "create"].at # "fill"
        /\ [load[s] EXCEPT !.at = "lstat"].at # "fill"
    BY <1>0 DEF Load
  <1> QED  BY <1>2, <1>3, <1>4, <1>5 DEF LstatSecret, ReadSecret

LEMMA CreateSecretKeeps ==
    ASSUME Inv, NEW s \in Servers, CreateSecret(s)
    PROVE  SecretStays' /\ SecretsAgree'
  <1>0. load \in [Servers -> Load] /\ step' = step /\ cached' = cached
        /\ replaced' = replaced /\ written' = written /\ file \in Nat
    BY SeenType DEF Inv, CreateSecret, LoadGoes, TypeOK
  <1>1. CASE file = NoSecret /\ file' = 1
    <2>1. replaced = {} /\ ~written
      BY <1>1 DEF Inv, SecretStays, NoSecret
    <2>2. replaced' = 1 .. (file' - 1)
      BY <1>0, <1>1, <2>1
    <2>3. SecretStays'
      BY <1>0, <1>1, <2>1, <2>2 DEF Inv, SecretStays, NoSecret
    <2>4. SecretsAgree'
      BY <1>0, <2>1 DEF Inv, SecretsAgree
    <2> QED  BY <2>3, <2>4
  <1>2. CASE file # NoSecret /\ file' = file
    <2>1. \A o \in Servers : load'[o].at = "fill" => load[o].at = "fill"
      BY <1>0, <1>2 DEF CreateSecret, LoadGoes, Load
    <2> QED  BY <1>0, <1>2, <2>1, SecretKept
  <1> QED  BY <1>1, <1>2 DEF CreateSecret

LEMMA FillSecretKeeps ==
    ASSUME Inv, NEW s \in Servers, FillSecret(s)
    PROVE  SecretStays' /\ SecretsAgree'
  <1>1. file # NoSecret /\ file' = file /\ replaced' = replaced
    BY DEF FillSecret, Inv, SecretStays
  <1>2. 1 = file \/ 1 \in replaced
    BY <1>1, LockAssumption DEF Inv, SecretStays, TypeOK, NoSecret, LockAssumption
  <1>3. CASE written' = TRUE /\ Loaded(s, 1)
    BY <1>1, <1>2, <1>3, LoadedSecret
  <1>4. CASE LoadFails(s)
    <2>1. /\ cached' = cached
          /\ \A o \in Servers : load'[o].at = "fill" => load[o].at = "fill"
          /\ \A o \in Servers : step'[o] = "persist" => step[o] = "persist"
      BY <1>4, LoadFailsSecret
    <2>2. written' = written \/ written' = TRUE  BY DEF FillSecret
    <2>3. SecretStays'
      BY <1>1, <2>1, <2>2 DEF Inv, SecretStays
    <2>4. SecretsAgree'
      BY <1>1, <2>1, <2>2 DEF Inv, SecretsAgree
    <2> QED  BY <2>3, <2>4
  <1> QED  BY <1>3, <1>4 DEF FillSecret

LEMMA PersistKeeps ==
    ASSUME Inv, NEW s \in Servers, Persist(s)
    PROVE  SecretStays' /\ SecretsAgree'
  <1>0. /\ written /\ written' = written /\ file # NoSecret
        /\ file' = file + 1 /\ replaced' = replaced \cup {file}
        /\ load' = load /\ cached \in [Servers -> 0 .. file] /\ file \in Nat
    BY DEF Inv, SecretStays, Persist, Steps, Goes, TypeOK
  <1>1. replaced' = 1 .. (file' - 1)
    BY <1>0 DEF Inv, SecretStays, NoSecret
  <1>2. file' # NoSecret  BY <1>0 DEF NoSecret
  <1>3. SecretStays'
    BY <1>0, <1>1, <1>2 DEF Inv, SecretStays
  <1>4. \A o \in Servers : cached'[o] = cached[o] \/ cached'[o] = file'
    BY <1>0 DEF Persist
  <1>5. \A o \in Servers : cached[o] \in replaced \cup {NoSecret} \/ cached[o] = file
    BY DEF Inv, SecretsAgree
  <1>6. SecretsAgree'
    BY <1>0, <1>4, <1>5 DEF SecretsAgree
  <1> QED  BY <1>3, <1>6

LEMMA SecretStep == ASSUME Inv, [Next]_vars PROVE SecretStays' /\ SecretsAgree'
  <1>0. load \in [Servers -> Load] /\ step \in [Servers -> Places]
    BY SeenType DEF Inv, TypeOK
  <1>1. ASSUME NEW s \in Servers,
               \/ Begin(s) \/ Derive(s) \/ Crash(s) \/ CannotCreate(s) \/ FindLock(s)
               \/ ReadLock(s) \/ JudgeLock(s) \/ RecheckLock(s) \/ UnlinkStale(s)
               \/ Retry(s) \/ Finish(s) \/ CheckOwn(s) \/ UnlinkOwn(s)
               \/ CreateLock(s) \/ WriteLock(s)
        PROVE  SecretStays' /\ SecretsAgree'
    <2>1. UNCHANGED <<file, written, replaced, cached>>
      BY <1>1 DEF Begin, Derive, Crash, CannotCreate, FindLock, ReadLock, JudgeLock,
                  RecheckLock, UnlinkStale, Retry, Finish, CheckOwn, UnlinkOwn,
                  CreateLock, WriteLock, FilesUnchanged, LocalsUnchanged, files,
                  secretFile
    <2>2. \A o \in Servers : step'[o] = "persist" => step[o] = "persist"
      BY <1>0, <1>1 DEF Begin, Derive, Crash, CannotCreate, FindLock, ReadLock, JudgeLock,
                  RecheckLock, UnlinkStale, Retry, Finish, CheckOwn, UnlinkOwn,
                  CreateLock, WriteLock, Steps, Goes
    <2>3. \A o \in Servers : load'[o].at = "fill" => load[o].at = "fill"
      BY <1>0, <1>1 DEF Begin, Derive, Crash, CannotCreate, FindLock, ReadLock, JudgeLock,
                  RecheckLock, UnlinkStale, Retry, Finish, CheckOwn, UnlinkOwn,
                  CreateLock, WriteLock, Steps, StartsLoad, NoLoad
    <2> QED  BY <2>1, <2>2, <2>3, SecretKept
  <1>2. CASE Age
    BY <1>2, SecretKept DEF Age, LocalsUnchanged, secretFile
  <1>3. ASSUME NEW s \in Servers,
               LstatSecret(s) \/ ReadSecret(s) \/ CreateSecret(s) \/ FillSecret(s) \/ Persist(s)
        PROVE  SecretStays' /\ SecretsAgree'
    BY <1>3, ReadSecretKeeps, CreateSecretKeeps, FillSecretKeeps, PersistKeeps
  <1>4. CASE UNCHANGED vars
    BY <1>4, SecretKept DEF vars, files, secretFile
  <1> QED  BY <1>1, <1>2, <1>3, <1>4 DEF Next, ServerStep

LEMMA InvInit == Init => Inv
  <1> SUFFICES ASSUME Init PROVE Inv  OBVIOUS
  <1>0. file \in 0 .. MaxGeneration /\ 0 \in 0 .. file /\ 0 \in 0 .. MaxInode
    BY LockAssumption, SMT DEF LockAssumption, Init, NoSecret
  <1>1. TypeOK
    <2>1. load \in [Servers -> [at : {"none", "lstat", "read", "create", "fill"},
                                found : 0 .. file, lost : BOOLEAN]]
      BY <1>0 DEF Init, NoLoad, NoSecret
    <2>2. seen \in [Servers -> Seen]  BY DEF Init, Nothing, Seen
    <2>3. lock \in Locks  BY DEF Init, NoFile, Locks
    <2>4. previous \in [Servers -> 0 .. file] /\ cached \in [Servers -> 0 .. file]
      BY <1>0 DEF Init, NoSecret
    <2> QED  BY <1>0, <2>1, <2>2, <2>3, <2>4 DEF Init, TypeOK, Seen, Locks, Places
  <1>2. LocksNumbered  BY DEF Init, LocksNumbered
  <1>3. SecretStays
    <2>1. 1 .. (file - 1) = {}  BY DEF Init, NoSecret
    <2>2. written => file # NoSecret
      <3>1. written = (file = 1)  BY Zenon DEF Init
      <3>2. NoSecret # 1  BY DEF NoSecret
      <3> QED  BY <3>1, <3>2
    <2>3. /\ \A s \in Servers : load[s].at # "fill"
          /\ \A s \in Servers : step[s] # "persist"
      BY DEF Init, NoLoad
    <2> QED  BY <2>1, <2>2, <2>3 DEF Init, SecretStays
  <1>4. SecretsAgree  BY DEF Init, SecretsAgree
  <1> QED  BY <1>1, <1>2, <1>3, <1>4 DEF Inv

-----------------------------------------------------------------------------

THEOREM InvAlways == Spec => []Inv
  <1>1. Inv /\ [Next]_vars => Inv'
    BY TypeStep, LocksStep, SecretStep DEF Inv
  <1> QED  BY <1>1, InvInit, PTL DEF Spec

(* The types of the variables: file system calls of several processes only    *)
(* leave the files and the processes' own variables in the states listed.     *)
THEOREM TypeCorrect == Spec => []TypeOK
  <1>1. Inv => TypeOK  BY DEF Inv
  <1> QED  BY <1>1, InvAlways, PTL

(* installation-secret.test.ts: creators "load the exclusive winner": the     *)
(* secret a process uses is the one in the file, complete, or one that a      *)
(* rotation has replaced since, however many processes look for it, create    *)
(* it, fill it, rotate it, fail and crash, and however many rotations get     *)
(* past the lock at once.                                                     *)
THEOREM ProcessesShareSecret == Spec => []SecretsAgree
  <1>1. Inv => SecretsAgree  BY DEF Inv
  <1> QED  BY <1>1, InvAlways, PTL
=============================================================================
