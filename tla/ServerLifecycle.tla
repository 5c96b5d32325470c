---------------------------- MODULE ServerLifecycle ----------------------------
(***************************************************************************)
(* The background server and the commands that start, stop and restart it  *)
(* (apps/cli: server-lifecycle.ts and startBackgroundServer,               *)
(* stopBackgroundServer of index.ts).  Most commands of the CLI start the  *)
(* server first if it does not answer, so several starts may run at once.  *)
(* Commands and servers are processes that share a directory, for the lock *)
(* of the starts, the file server.json with the pid of the managed server, *)
(* and a port.                                                             *)
(*                                                                         *)
(* A step goes from one await of a command to the next.  There is one base *)
(* URL.  Abstracted: the clock (a wait for a lock, for a server to answer  *)
(* or to fall silent may time out), the number of attempts, reuse of pids, *)
(* the provisioning of workers before a server is spawned, and a process   *)
(* that answers on the port and is no server of this program.              *)
(***************************************************************************)
EXTENDS FiniteSets, Integers

CONSTANTS
    Commands, Pids,
    NoCommand, NoPid,
    Torn,                     \* server.json is there and empty
    Kinds,                    \* what the commands are asked to do
    MaxInterrupts, MaxFailures, MaxForeign   \* bounds

ASSUME LifecycleAssumption ==
    /\ NoCommand \notin Commands /\ {NoPid, Torn} \cap Pids = {} /\ NoPid # Torn
    /\ Kinds \subseteq {"start", "stop", "stop --force", "restart", "restart --force"}
    /\ MaxFailures \in Nat

VARIABLES
    server,     \* what each server process does
    dying,      \* processes with a SIGTERM on its way
    lockDir,    \* server.lock: the command that has made it
    stateFile,  \* server.json: the pid in it
    kind, at,   \* what each command is to do, and where it is
    healthy,    \* the answer of its last health check
    metadata,   \* the pid it has read in server.json
    proc,       \* the server it has spawned
    outcome,    \* how it ended
    failures,   \* servers that ended on their own
    foreign,    \* servers run in the foreground, by clap serve
    crossed     \* a stop ran beside another command

locals == <<kind, healthy, metadata, proc, outcome, crossed>>
servers == <<server, dying, failures, foreign>>
vars == <<servers, lockDir, stateFile, at, locals>>

Init ==
    /\ server = [p \in Pids |-> "none"] /\ dying = {} /\ failures = 0 /\ foreign = {}
    /\ lockDir = NoCommand /\ stateFile = NoPid
    /\ kind = [c \in Commands |-> "none"] /\ at = [c \in Commands |-> "idle"]
    /\ healthy = [c \in Commands |-> FALSE]
    /\ metadata = [c \in Commands |-> NoPid] /\ proc = [c \in Commands |-> NoPid]
    /\ outcome = [c \in Commands |-> "none"]
    /\ crossed = FALSE

Live(p) == p \in Pids /\ server[p] \in {"booting", "up"}
Listening == {p \in Pids : server[p] = "up"}
HealthCheck == Listening # {}
Active == {c \in Commands : at[c] \notin {"idle", "done", "interrupted"}}

Goes(c, from, to) == at[c] = from /\ at' = [at EXCEPT ![c] = to]
Ends(c, how) == outcome' = [outcome EXCEPT ![c] = how]
Stops(c) == kind[c] # "start"
Forces(c) == kind[c] \in {"stop --force", "restart --force"}
Restarts(c) == kind[c] \in {"restart", "restart --force"}

-----------------------------------------------------------------------------
(* The servers *)

Unspawned(p) == server[p] = "none"

(* The port is taken, or nothing else listens on it. *)
Boot(p) ==
    /\ server[p] = "booting"
    /\ server' = [server EXCEPT ![p] = IF HealthCheck THEN "dead" ELSE "up"]
    /\ UNCHANGED <<dying, failures, foreign, lockDir, stateFile, at, locals>>

(* SIGTERM is the end of a server that has not installed its cleanup, and  *)
(* the other ones clean up when they come to it.                           *)
Terminated(p) ==
    /\ server' = [server EXCEPT ![p] = IF @ = "booting" THEN "dead" ELSE @]
    /\ dying' = IF server[p] = "up" THEN dying \cup {p} ELSE dying

Cleanup(p) ==
    /\ p \in dying /\ Live(p)
    /\ server' = [server EXCEPT ![p] = "dead"]
    /\ UNCHANGED <<dying, failures, foreign, lockDir, stateFile, at, locals>>

Fail(p) ==
    /\ Live(p) /\ failures < MaxFailures
    /\ server' = [server EXCEPT ![p] = "dead"] /\ failures' = failures + 1
    /\ UNCHANGED <<dying, foreign, lockDir, stateFile, at, locals>>

Serve(p) ==
    /\ Unspawned(p) /\ Cardinality(foreign) < MaxForeign
    /\ server' = [server EXCEPT ![p] = "booting"] /\ foreign' = foreign \cup {p}
    /\ UNCHANGED <<dying, failures, lockDir, stateFile, at, locals>>

-----------------------------------------------------------------------------
(* serverCommand, and the start at the head of the other commands *)

Begin(c) ==
    \E k \in Kinds :
        /\ Goes(c, "idle", IF k = "start" THEN "lock" ELSE "read")
        /\ kind' = [kind EXCEPT ![c] = k]
        /\ crossed' = (crossed \/ \E d \in Active : k # "start" \/ Stops(d))
        /\ UNCHANGED <<servers, lockDir, stateFile, healthy, metadata, proc, outcome>>

(* Ctrl-C: no finally runs. *)
Interrupt(c) ==
    /\ c \in Active
    /\ Cardinality({d \in Commands : at[d] = "interrupted"}) < MaxInterrupts
    /\ at' = [at EXCEPT ![c] = "interrupted"]
    /\ UNCHANGED <<servers, lockDir, stateFile, locals>>

(* Mutant: mkdir is recursive, and an existing directory is no error. *)
LockRecursive(c) ==
    /\ Goes(c, "lock", "probe") /\ lockDir' = c
    /\ UNCHANGED <<servers, stateFile, locals>>

(* withServerStartLock *)
Lock(c) ==
    /\ Goes(c, "lock", "probe") /\ lockDir = NoCommand /\ lockDir' = c
    /\ UNCHANGED <<servers, stateFile, locals>>

LockTimeout(c) ==
    /\ Goes(c, "lock", "done") /\ lockDir # NoCommand /\ Ends(c, "failed")
    /\ UNCHANGED <<servers, lockDir, stateFile, kind, healthy, metadata, proc, crossed>>

Unlock(c) ==
    /\ Goes(c, "unlock", "done") /\ lockDir' = NoCommand
    /\ proc' = [proc EXCEPT ![c] = NoPid]
    /\ UNCHANGED <<servers, stateFile, kind, healthy, metadata, outcome, crossed>>

(* A health check of a start or of a stop. *)
Probe(c) ==
    /\ Goes(c, "probe", "look") \/ Goes(c, "check", "decide")
    /\ healthy' = [healthy EXCEPT ![c] = HealthCheck]
    /\ UNCHANGED <<servers, lockDir, stateFile, kind, metadata, proc, outcome, crossed>>

-----------------------------------------------------------------------------
(* startBackgroundServer, with the lock.  An empty server.json is no JSON. *)

Look(c) ==
    /\ \/ stateFile = Torn /\ Goes(c, "look", "unlock") /\ Ends(c, "failed")
       \/ /\ stateFile # Torn /\ healthy[c] /\ Live(stateFile)
          /\ Goes(c, "look", "unlock") /\ Ends(c, "running")
       \/ /\ stateFile # Torn /\ healthy[c] /\ ~Live(stateFile)
          /\ Goes(c, "look", IF stateFile = NoPid THEN "unlock" ELSE "forget")
          /\ Ends(c, "unmanaged")
       \/ /\ stateFile # Torn /\ ~healthy[c]
          /\ Goes(c, "look", "spawn") /\ UNCHANGED outcome
    /\ healthy' = [healthy EXCEPT ![c] = FALSE]
    /\ UNCHANGED <<servers, lockDir, stateFile, kind, metadata, proc, crossed>>

Forget(c) ==
    /\ Goes(c, "forget", "unlock") /\ stateFile' = NoPid
    /\ UNCHANGED <<servers, lockDir, locals>>

Spawn(c) ==
    \E p \in Pids :
        /\ Goes(c, "spawn", "await") /\ Unspawned(p)
        /\ server' = [server EXCEPT ![p] = "booting"]
        /\ proc' = [proc EXCEPT ![c] = p]
        /\ UNCHANGED <<dying, failures, foreign, lockDir, stateFile>>
        /\ UNCHANGED <<kind, healthy, metadata, outcome, crossed>>

(* waitForHealthy, and a last check that failed *)
AwaitHealthy(c) ==
    /\ \/ Goes(c, "await", "truncate") /\ HealthCheck
       \/ Goes(c, "await", "kill") /\ ~HealthCheck
    /\ UNCHANGED <<servers, lockDir, stateFile, locals>>

(* Mutant: the server that did not answer is left to itself. *)
KillNothing(c) ==
    /\ Goes(c, "kill", "unlock") /\ Ends(c, "failed")
    /\ UNCHANGED <<servers, lockDir, stateFile, kind, healthy, metadata, proc, crossed>>

Kill(c) ==
    /\ Goes(c, "kill", "unlock") /\ Ends(c, "failed")
    /\ Terminated(proc[c])
    /\ UNCHANGED <<failures, foreign, lockDir, stateFile>>
    /\ UNCHANGED <<kind, healthy, metadata, proc, crossed>>

(* writeServerMetadata: writeFile empties the file it opens and then fills *)
(* it, whether or not it still has its name.                               *)
Truncate(c) ==
    /\ Goes(c, "truncate", "write") /\ stateFile' = Torn
    /\ UNCHANGED <<servers, lockDir, locals>>

Write(c) ==
    /\ Goes(c, "write", "unlock") /\ Ends(c, "started")
    /\ stateFile' = IF stateFile = Torn THEN proc[c] ELSE stateFile
    /\ UNCHANGED <<servers, lockDir, kind, healthy, metadata, proc, crossed>>

-----------------------------------------------------------------------------
(* stopBackgroundServer, which takes no lock *)

Read(c) ==
    /\ \/ stateFile = Torn /\ Goes(c, "read", "done") /\ Ends(c, "failed")
          /\ UNCHANGED metadata
       \/ /\ stateFile # Torn /\ Goes(c, "read", "check")
          /\ metadata' = [metadata EXCEPT ![c] = stateFile] /\ UNCHANGED outcome
    /\ UNCHANGED <<servers, lockDir, stateFile, kind, healthy, proc, crossed>>

(* A restart goes on to the start. *)
AfterStop(c) == IF Restarts(c) THEN "lock" ELSE "done"

Decide(c) ==
    /\ \/ /\ Live(metadata[c]) /\ Goes(c, "decide", "drain")
          /\ Terminated(metadata[c]) /\ UNCHANGED outcome
       \/ /\ ~Live(metadata[c]) /\ ~healthy[c] /\ metadata[c] # NoPid
          /\ Goes(c, "decide", "remove") /\ UNCHANGED <<server, dying, outcome>>
       \/ /\ ~Live(metadata[c]) /\ ~healthy[c] /\ metadata[c] = NoPid
          /\ Goes(c, "decide", AfterStop(c)) /\ Ends(c, "stopped") /\ UNCHANGED <<server, dying>>
       \/ /\ ~Live(metadata[c]) /\ healthy[c] /\ ~Forces(c)
          /\ Goes(c, "decide", "done") /\ Ends(c, "failed") /\ UNCHANGED <<server, dying>>
       \/ /\ ~Live(metadata[c]) /\ healthy[c] /\ Forces(c)
          /\ Goes(c, "decide", "list") /\ UNCHANGED <<server, dying, outcome>>
    /\ healthy' = [healthy EXCEPT ![c] = FALSE]
    /\ UNCHANGED <<failures, foreign, lockDir, stateFile>>
    /\ UNCHANGED <<kind, metadata, proc, crossed>>

(* Mutant: the wait ends with the first answer, whatever it is. *)
DrainAtOnce(c) ==
    /\ Goes(c, "drain", "remove")
    /\ UNCHANGED <<servers, lockDir, stateFile, locals>>

(* waitForUnhealthy: the last look is after the deadline. *)
Drain(c) ==
    /\ \/ Goes(c, "drain", "remove") /\ ~HealthCheck
       \/ Goes(c, "drain", "remove late") /\ HealthCheck
    /\ UNCHANGED <<servers, lockDir, stateFile, locals>>

(* By name, whoever has written it meanwhile. *)
Remove(c) ==
    /\ \/ Goes(c, "remove", AfterStop(c)) /\ Ends(c, "stopped")
       \/ Goes(c, "remove late", "done") /\ Ends(c, "failed")
    /\ stateFile' = NoPid
    /\ UNCHANGED <<servers, lockDir, kind, healthy, metadata, proc, crossed>>

(* stopListeningProcesses: what listens is asked to end, then killed. *)
ListPids(c) ==
    /\ IF Listening = {} THEN Goes(c, "list", "done") /\ Ends(c, "failed")
                         ELSE Goes(c, "list", "force") /\ UNCHANGED outcome
    /\ dying' = dying \cup Listening
    /\ metadata' = [metadata EXCEPT ![c] = IF Listening = {} THEN @ ELSE CHOOSE p \in Listening : TRUE]
    /\ UNCHANGED <<server, failures, foreign, lockDir, stateFile, kind, healthy, proc, crossed>>

ForceDrain(c) ==
    /\ \/ Goes(c, "force", "remove") /\ ~HealthCheck /\ UNCHANGED server
       \/ /\ Goes(c, "force", "killed") /\ HealthCheck
          /\ server' = [server EXCEPT ![metadata[c]] = "dead"]
    /\ UNCHANGED <<dying, failures, foreign, lockDir, stateFile, locals>>

ForceKilled(c) ==
    /\ \/ Goes(c, "killed", "remove") /\ ~HealthCheck /\ UNCHANGED outcome
       \/ Goes(c, "killed", "done") /\ HealthCheck /\ Ends(c, "failed")
    /\ UNCHANGED <<servers, lockDir, stateFile, kind, healthy, metadata, proc, crossed>>

-----------------------------------------------------------------------------
Start(c) ==
    \/ Lock(c) \/ LockTimeout(c) \/ Unlock(c) \/ Look(c) \/ Forget(c)
    \/ Spawn(c) \/ AwaitHealthy(c) \/ Kill(c) \/ Truncate(c) \/ Write(c)

Stop(c) ==
    \/ Read(c) \/ Decide(c) \/ Drain(c) \/ Remove(c)
    \/ ListPids(c) \/ ForceDrain(c) \/ ForceKilled(c)

Next ==
    \/ \E p \in Pids : Boot(p) \/ Cleanup(p) \/ Fail(p) \/ Serve(p)
    \/ \E c \in Commands : Begin(c) \/ Interrupt(c) \/ Probe(c) \/ Start(c) \/ Stop(c)

Spec == Init /\ [][Next]_vars
-----------------------------------------------------------------------------
Places ==
    {"idle", "done", "interrupted", "lock", "probe", "look", "forget", "spawn",
     "await", "kill", "truncate", "write", "unlock", "read", "check", "decide",
     "drain", "remove", "remove late", "list", "force", "killed"}

(* Every variable has its type; whoever is past the lock has made it. *)
TypeOK ==
    /\ server \in [Pids -> {"none", "booting", "up", "dead"}]
    /\ dying \subseteq Pids /\ foreign \subseteq Pids /\ failures \in 0 .. MaxFailures
    /\ lockDir \in Commands \cup {NoCommand}
    /\ stateFile \in Pids \cup {NoPid, Torn}
    /\ kind \in [Commands -> Kinds \cup {"none"}]
    /\ at \in [Commands -> Places]
    /\ healthy \in [Commands -> BOOLEAN] /\ crossed \in BOOLEAN
    /\ metadata \in [Commands -> Pids \cup {NoPid}]
    /\ proc \in [Commands -> Pids \cup {NoPid}]
    /\ outcome \in [Commands -> {"none", "running", "started", "unmanaged", "stopped", "failed"}]

(* Servers the commands have spawned and nobody has told to end. *)
Spawned == {p \in Pids \ foreign : Live(p) /\ p \notin dying}

(* The starts that run beside one another, beside stops and after starts   *)
(* that were interrupted or gave up share one server: as long as no server *)
(* has ever been run in the foreground, at most one spawned server lives   *)
(* that has not been told to end.  A start that a foreground server has    *)
(* answered may release the lock, and another spawns once that one has     *)
(* gone, while the first one's own still boots.                            *)
OneSpawnedServer == foreign = {} => Cardinality(Spawned) <= 1

(* A command that says it has stopped the server, or a restart that goes   *)
(* on to start one, leaves the server it signalled dead, whatever servers  *)
(* run in the foreground and whatever other commands do meanwhile.         *)
StoppedIsDead ==
    \A c \in Commands : outcome[c] = "stopped" => ~Live(metadata[c])

(* server.json tells of every spawned server, so that stop and restart can *)
(* find it, unless a command was interrupted, a stop ran beside another    *)
(* command, or a server has been run in the foreground, at any time.       *)
SpawnedIsRecorded ==
    /\ ~crossed /\ foreign = {}
    /\ \A c \in Commands : at[c] # "interrupted"
    => \A p \in Spawned :
          \/ stateFile = p
          \/ \E c \in Active : proc[c] = p /\ at[c] \in {"await", "kill", "truncate", "write"}

=============================================================================
