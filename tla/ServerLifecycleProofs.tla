------------------------ MODULE ServerLifecycleProofs ------------------------
(***************************************************************************)
(* Starts, stops and restarts that run side by side share one server, for  *)
(* any number of commands and processes, interrupts and failures.          *)
(***************************************************************************)
EXTENDS ServerLifecycle, FiniteSetTheorems, TLAPS

LEMMA ZeroInRange == \A m \in Nat : 0 \in 0 .. m
  OBVIOUS

LEMMA AtMostOneIsOne == 0 <= 1 /\ 1 <= 1
  OBVIOUS

USE LifecycleAssumption

-----------------------------------------------------------------------------
(* The inductive invariant, in parts. *)

Holding ==
    {"probe", "look", "forget", "spawn", "await", "kill", "truncate", "write", "unlock"}
Stopping ==
    {"read", "check", "decide", "drain", "remove", "remove late", "list", "force", "killed"}
Guarding == {"await", "kill", "truncate", "write"}
Told == {"drain", "list", "force", "killed", "remove", "remove late"}

(* A start works only while the lock is its own. *)
LockHeld == \A c \in Commands : at[c] \in Holding => lockDir = c

(* A pid that is written down anywhere is that of a process there has been. *)
PidsKnown ==
    /\ stateFile \in Pids => server[stateFile] # "none"
    /\ \A c \in Commands :
          /\ metadata[c] \in Pids => server[metadata[c]] # "none"
          /\ proc[c] \in Pids => server[proc[c]] # "none"
          /\ at[c] \in Guarding => proc[c] \in Pids

(* What a stop has done with the server it found. *)
StopsKnown ==
    \A c \in Commands :
        /\ at[c] = "idle" => outcome[c] = "none"
        /\ at[c] \in Stopping => Stops(c) /\ outcome[c] = "none"
        /\ at[c] \in {"drain", "force"} =>
              metadata[c] \in Pids /\ server[metadata[c]] \in {"up", "dead"}
        /\ at[c] \in {"remove", "killed"} \/ outcome[c] = "stopped" =>
              ~Live(metadata[c])

(* Without servers in the foreground at most one lives; one that is not up  *)
(* is that of the lock's holder; none lives where a start may spawn one.    *)
AtMostOne == \A p, q \in Pids : Live(p) /\ Live(q) => p = q

BootingOwned ==
    \A p \in Pids : server[p] = "booting" =>
        \E c \in Commands :
            lockDir = c /\ proc[c] = p /\ at[c] \in {"await", "kill", "interrupted"}

Cleared(c) ==
    /\ at[c] = "spawn" \/ (at[c] = "look" /\ ~healthy[c]) => \A p \in Pids : ~Live(p)
    /\ at[c] \in Guarding => \A p \in Pids : Live(p) => p = proc[c]

OneLives == AtMostOne /\ BootingOwned /\ \A c \in Commands : Cleared(c)

Undisturbed ==
    /\ ~crossed /\ foreign = {}
    /\ \A c \in Commands : at[c] # "interrupted"

(* Undisturbed, a stop runs alone, and server.json is what the commands     *)
(* have made of it.                                                         *)
StopsAlone == \A c, d \in Active : c # d => ~Stops(c)

Filed(c) ==
    /\ at[c] \in {"check", "decide"} => stateFile = metadata[c]
    /\ at[c] \in Told => stateFile \notin Spawned
    /\ at[c] = "forget" => ~Live(stateFile)
    /\ at[c] = "write" => stateFile = Torn

Recorded(p) ==
    \/ stateFile = p
    \/ \E c \in Active : proc[c] = p /\ at[c] \in Guarding

FileKnown ==
    /\ StopsAlone
    /\ \A c \in Commands : Filed(c)
    /\ \A p \in Spawned : Recorded(p)

IInv ==
    /\ TypeOK /\ LockHeld /\ PidsKnown /\ StopsKnown
    /\ foreign = {} => OneLives
    /\ Undisturbed => FileKnown

-----------------------------------------------------------------------------
(* What a step leaves alone. *)

ServerStep(p) == Boot(p) \/ Cleanup(p) \/ Fail(p) \/ Serve(p)

CommandStep(c) == Begin(c) \/ Interrupt(c) \/ Probe(c) \/ Start(c) \/ Stop(c)

LEMMA Steps ==
    ASSUME Next
    PROVE  (\E p \in Pids : ServerStep(p)) \/ (\E c \in Commands : CommandStep(c))
  BY DEF Next, ServerStep, CommandStep

Kept(d) ==
    /\ at'[d] = at[d] /\ kind'[d] = kind[d] /\ healthy'[d] = healthy[d]
    /\ metadata'[d] = metadata[d] /\ proc'[d] = proc[d] /\ outcome'[d] = outcome[d]

(* A step of one command does nothing to the variables of the others.      *)
LEMMA OthersKept ==
    ASSUME TypeOK, NEW c \in Commands, CommandStep(c), NEW d \in Commands \ {c}
    PROVE  Kept(d)
  <1> USE DEF Goes, Ends, vars, servers, locals, Kept, TypeOK
  <1>1. CASE Begin(c) \/ Interrupt(c) \/ Probe(c)
    BY <1>1 DEF Begin, Interrupt, Probe
  <1>2. CASE Lock(c) \/ LockTimeout(c) \/ Unlock(c) \/ Look(c) \/ Forget(c)
    BY <1>2 DEF Lock, LockTimeout, Unlock, Look, Forget
  <1>3. CASE Spawn(c) \/ AwaitHealthy(c) \/ Kill(c) \/ Truncate(c) \/ Write(c)
    BY <1>3 DEF Spawn, AwaitHealthy, Kill, Truncate, Write
  <1>4. CASE Read(c) \/ Decide(c)
    BY <1>4 DEF Read, Decide
  <1>5. CASE Drain(c) \/ Remove(c) \/ ListPids(c) \/ ForceDrain(c) \/ ForceKilled(c)
    BY <1>5 DEF Drain, Remove, ListPids, ForceDrain, ForceKilled
  <1> QED BY <1>1, <1>2, <1>3, <1>4, <1>5 DEF CommandStep, Start, Stop

(* A process only goes on: none, booting, up, dead. *)
Progress(p) ==
    \/ server'[p] = server[p]
    \/ server[p] = "none" /\ server'[p] = "booting"
    \/ server[p] = "booting" /\ server'[p] \in {"up", "dead"}
    \/ server[p] = "up" /\ server'[p] = "dead"

LEMMA ServersProgress ==
    ASSUME TypeOK, StopsKnown, Next, NEW q \in Pids
    PROVE  Progress(q)
  <1> USE DEF Progress, TypeOK
  <1>1. ASSUME NEW p \in Pids, ServerStep(p)
        PROVE  Progress(q)
    BY <1>1 DEF ServerStep, Boot, Cleanup, Fail, Serve, Live, Unspawned
  <1>2. ASSUME NEW c \in Commands, UNCHANGED server
        PROVE  Progress(q)
    BY <1>2
  <1>3. ASSUME NEW c \in Commands, Spawn(c) \/ Kill(c) \/ Decide(c)
        PROVE  Progress(q)
    BY <1>3 DEF Spawn, Kill, Decide, Terminated, Unspawned
  <1>4. ASSUME NEW c \in Commands, ForceDrain(c)
        PROVE  Progress(q)
    <2>1. at[c] = "force"
      BY <1>4 DEF ForceDrain, Goes
    <2>2. metadata[c] \in Pids /\ server[metadata[c]] \in {"up", "dead"}
      BY <2>1 DEF StopsKnown
    <2>3. \/ server' = server
          \/ server' = [server EXCEPT ![metadata[c]] = "dead"]
      BY <1>4 DEF ForceDrain
    <2> QED BY <2>2, <2>3
  <1>5. ASSUME NEW c \in Commands, CommandStep(c),
               ~(Spawn(c) \/ Kill(c) \/ Decide(c) \/ ForceDrain(c))
        PROVE  UNCHANGED server
    BY <1>5 DEF CommandStep, Start, Stop, Begin, Interrupt, Probe, Lock,
       LockTimeout, Unlock, Look, Forget, AwaitHealthy, Truncate, Write, Read,
       Drain, Remove, ListPids, ForceKilled, servers, locals
  <1> QED BY Steps, <1>1, <1>2, <1>3, <1>4, <1>5

Outcomes == {"none", "running", "started", "unmanaged", "stopped", "failed"}

LEMMA MovedAmong ==
    ASSUME TypeOK, NEW c \in Commands, NEW from, NEW to \in Places, Goes(c, from, to)
    PROVE  at' \in [Commands -> Places]
  BY DEF TypeOK, Goes

LEMMA TypeKept ==
    ASSUME TypeOK, StopsKnown, PidsKnown, Next
    PROVE  TypeOK'
  <1> USE DEF TypeOK, Ends, servers, locals
  <1>1. ASSUME NEW p \in Pids, Boot(p) PROVE TypeOK'
    BY <1>1 DEF Boot
  <1>2. ASSUME NEW p \in Pids, Cleanup(p) PROVE TypeOK'
    BY <1>2 DEF Cleanup, Live
  <1>3. ASSUME NEW p \in Pids, Fail(p) PROVE TypeOK'
    <2>1. failures < MaxFailures /\ failures' = failures + 1
      BY <1>3 DEF Fail
    <2>2. failures' \in 0 .. MaxFailures
      <3>1. failures \in 0 .. MaxFailures /\ MaxFailures \in Nat
        OBVIOUS
      <3> QED BY ONLY <2>1, <3>1
    <2> QED BY <1>3, <2>2 DEF Fail, Live
  <1>4. ASSUME NEW p \in Pids, Serve(p) PROVE TypeOK'
    BY <1>4 DEF Serve, Unspawned
  <1>5. ASSUME NEW c \in Commands, Begin(c) PROVE TypeOK'
    <2>1. PICK k \in Kinds :
             /\ Goes(c, "idle", IF k = "start" THEN "lock" ELSE "read")
             /\ kind' = [kind EXCEPT ![c] = k]
             /\ crossed' = (crossed \/ \E d \in Active : k # "start" \/ Stops(d))
             /\ UNCHANGED <<servers, lockDir, stateFile, healthy, metadata, proc, outcome>>
      BY <1>5 DEF Begin
    <2>2. at' \in [Commands -> Places]
      <3>1. (IF k = "start" THEN "lock" ELSE "read") \in Places
        BY DEF Places
      <3> QED BY <2>1, <3>1, MovedAmong
    <2>3. crossed' \in BOOLEAN
      BY <2>1
    <2>4. kind' \in [Commands -> Kinds \cup {"none"}]
      BY <2>1
    <2> QED BY <2>1, <2>2, <2>3, <2>4
  <1>6. ASSUME NEW c \in Commands, Interrupt(c) PROVE TypeOK'
    BY <1>6 DEF Interrupt, Places, Goes
  <1>7. ASSUME NEW c \in Commands, Probe(c) PROVE TypeOK'
    BY <1>7 DEF Probe, HealthCheck, Places, Goes
  <1>8. ASSUME NEW c \in Commands, Lock(c) PROVE TypeOK'
    BY <1>8 DEF Lock, Places, Goes
  <1>9. ASSUME NEW c \in Commands, LockTimeout(c) PROVE TypeOK'
    BY <1>9 DEF LockTimeout, Places, Goes
  <1>10. ASSUME NEW c \in Commands, Unlock(c) PROVE TypeOK'
    BY <1>10 DEF Unlock, Places, Goes
  <1>11. ASSUME NEW c \in Commands, Look(c) PROVE TypeOK'
    <2>1. PICK to \in Places : Goes(c, "look", to)
      BY <1>11 DEF Look, Places
    <2>2. at' \in [Commands -> Places]
      BY <2>1, MovedAmong
    <2>3. outcome' \in [Commands -> Outcomes]
      BY <1>11 DEF Look, Outcomes
    <2> QED BY <1>11, <2>2, <2>3 DEF Look, Outcomes
  <1>12. ASSUME NEW c \in Commands, Forget(c) PROVE TypeOK'
    BY <1>12 DEF Forget, Places, Goes
  <1>13. ASSUME NEW c \in Commands, Spawn(c) PROVE TypeOK'
    <2>1. PICK p \in Pids :
             /\ Goes(c, "spawn", "await")
             /\ server' = [server EXCEPT ![p] = "booting"]
             /\ proc' = [proc EXCEPT ![c] = p]
             /\ UNCHANGED <<dying, failures, foreign, lockDir, stateFile>>
             /\ UNCHANGED <<kind, healthy, metadata, outcome, crossed>>
      BY <1>13 DEF Spawn
    <2>2. at' \in [Commands -> Places]
      BY <2>1, MovedAmong DEF Places
    <2>3. /\ server' \in [Pids -> {"none", "booting", "up", "dead"}]
          /\ proc' \in [Commands -> Pids \cup {NoPid}]
      BY <2>1
    <2> QED BY <2>1, <2>2, <2>3
  <1>14. ASSUME NEW c \in Commands, AwaitHealthy(c) PROVE TypeOK'
    BY <1>14 DEF AwaitHealthy, Places, Goes
  <1>15. ASSUME NEW c \in Commands, Kill(c) PROVE TypeOK'
    <2>1. at' \in [Commands -> Places]
      BY <1>15, MovedAmong DEF Kill, Places
    <2>2. outcome' \in [Commands -> Outcomes]
      BY <1>15 DEF Kill, Outcomes
    <2>3. Terminated(proc[c]) /\ proc[c] \in Pids
      BY <1>15 DEF Kill, Goes, PidsKnown, Guarding
    <2>4. /\ server' \in [Pids -> {"none", "booting", "up", "dead"}]
          /\ dying' \subseteq Pids
      BY <2>3 DEF Terminated
    <2> QED BY <1>15, <2>1, <2>2, <2>4 DEF Kill, Outcomes
  <1>16. ASSUME NEW c \in Commands, Truncate(c) PROVE TypeOK'
    BY <1>16 DEF Truncate, Places, Goes
  <1>17. ASSUME NEW c \in Commands, Write(c) PROVE TypeOK'
    BY <1>17 DEF Write, Places, Goes
  <1>18. ASSUME NEW c \in Commands, Read(c) PROVE TypeOK'
    <2>1. PICK to \in Places : Goes(c, "read", to)
      BY <1>18 DEF Read, Places
    <2>2. at' \in [Commands -> Places]
      BY <2>1, MovedAmong
    <2>3. outcome' \in [Commands -> Outcomes]
      BY <1>18 DEF Read, Outcomes
    <2>4. metadata' \in [Commands -> Pids \cup {NoPid}]
      BY <1>18 DEF Read
    <2> QED BY <1>18, <2>2, <2>3, <2>4 DEF Read, Outcomes
  <1>19. ASSUME NEW c \in Commands, Decide(c) PROVE TypeOK'
    <2>1. PICK to \in Places : Goes(c, "decide", to)
      BY <1>19 DEF Decide, Places, AfterStop
    <2>2. at' \in [Commands -> Places]
      BY <2>1, MovedAmong
    <2>3. outcome' \in [Commands -> Outcomes]
      BY <1>19 DEF Decide, Outcomes
    <2>4. \/ UNCHANGED <<server, dying>>
          \/ metadata[c] \in Pids /\ Terminated(metadata[c])
      BY <1>19 DEF Decide, Live
    <2>5. /\ server' \in [Pids -> {"none", "booting", "up", "dead"}]
          /\ dying' \subseteq Pids
      <3>1. CASE UNCHANGED <<server, dying>>
        BY <3>1
      <3>2. CASE metadata[c] \in Pids /\ Terminated(metadata[c])
        BY <3>2 DEF Terminated
      <3> QED BY <2>4, <3>1, <3>2
    <2> QED BY <1>19, <2>2, <2>3, <2>5 DEF Decide, Outcomes
  <1>20. ASSUME NEW c \in Commands, Drain(c) PROVE TypeOK'
    BY <1>20 DEF Drain, Places, Goes
  <1>21. ASSUME NEW c \in Commands, Remove(c) PROVE TypeOK'
    BY <1>21 DEF Remove, AfterStop, Places, Goes
  <1>22. ASSUME NEW c \in Commands, ListPids(c) PROVE TypeOK'
    <2>1. PICK to \in Places : Goes(c, "list", to)
      BY <1>22 DEF ListPids, Places
    <2>2. at' \in [Commands -> Places]
      BY <2>1, MovedAmong
    <2>3. outcome' \in [Commands -> Outcomes]
      BY <1>22 DEF ListPids, Outcomes
    <2>4. metadata' \in [Commands -> Pids \cup {NoPid}] /\ dying' \subseteq Pids
      BY <1>22 DEF ListPids, Listening
    <2> QED BY <1>22, <2>2, <2>3, <2>4 DEF ListPids, Outcomes
  <1>23. ASSUME NEW c \in Commands, ForceDrain(c) PROVE TypeOK'
    BY <1>23 DEF ForceDrain, Places, Goes
  <1>24. ASSUME NEW c \in Commands, ForceKilled(c) PROVE TypeOK'
    BY <1>24 DEF ForceKilled, Places, Goes
  <1> QED BY <1>1, <1>2, <1>3, <1>4, <1>5, <1>6, <1>7, <1>8, <1>9, <1>10, <1>11, <1>12, <1>13, <1>14, <1>15, <1>16, <1>17, <1>18, <1>19, <1>20, <1>21, <1>22, <1>23, <1>24
         DEF Next, Start, Stop

(* A stop, up to the start of a restart. *)
LEMMA StopMoves ==
    ASSUME TypeOK, NEW c \in Commands, Stop(c)
    PROVE  /\ at[c] \in Stopping /\ at'[c] \in Stopping \cup {"lock", "done"}
           /\ UNCHANGED <<lockDir, kind, proc>>
  <1>1. \E from \in Stopping, to \in Stopping \cup {"lock", "done"} : Goes(c, from, to)
    <2> USE DEF Stopping
    <2>1. CASE Read(c)
      BY <2>1 DEF Read
    <2>2. CASE Decide(c)
      BY <2>2 DEF Decide, AfterStop
    <2>3. CASE Drain(c)
      BY <2>3 DEF Drain
    <2>4. CASE Remove(c)
      BY <2>4 DEF Remove, AfterStop
    <2>5. CASE ListPids(c) \/ ForceDrain(c) \/ ForceKilled(c)
      BY <2>5 DEF ListPids, ForceDrain, ForceKilled
    <2> QED BY <2>1, <2>2, <2>3, <2>4, <2>5 DEF Stop
  <1>2. UNCHANGED <<lockDir, kind, proc>>
    BY DEF Stop, Read, Decide, Drain, Remove, ListPids, ForceDrain, ForceKilled,
           servers, locals
  <1> QED BY <1>1, <1>2 DEF Goes, TypeOK

(* Who holds the lock. *)
LEMMA LockSteps ==
    ASSUME TypeOK, NEW c \in Commands, CommandStep(c)
    PROVE  \/ Lock(c) \/ Unlock(c)
           \/ lockDir' = lockDir /\ (at'[c] \in Holding => at[c] \in Holding)
  <1> USE DEF Goes, servers, locals, TypeOK, Holding
  <1>1. CASE Begin(c)
    BY <1>1 DEF Begin
  <1>2. CASE Interrupt(c)
    BY <1>2 DEF Interrupt
  <1>5. CASE Probe(c)
    BY <1>5 DEF Probe
  <1>6. CASE LockTimeout(c)
    BY <1>6 DEF LockTimeout
  <1>7. CASE Look(c)
    BY <1>7 DEF Look
  <1>8. CASE Forget(c)
    BY <1>8 DEF Forget
  <1>3. CASE Spawn(c) \/ AwaitHealthy(c) \/ Kill(c) \/ Truncate(c) \/ Write(c)
    BY <1>3 DEF Spawn, AwaitHealthy, Kill, Truncate, Write
  <1>4. CASE Stop(c)
    BY <1>4, StopMoves DEF Stopping
  <1> QED BY <1>1, <1>2, <1>3, <1>4, <1>5, <1>6, <1>7, <1>8 DEF CommandStep, Start

LEMMA LockKept ==
    ASSUME TypeOK, LockHeld, Next
    PROVE  LockHeld'
  <1>1. ASSUME NEW p \in Pids, ServerStep(p)
        PROVE  LockHeld'
    BY <1>1 DEF ServerStep, Boot, Cleanup, Fail, Serve, LockHeld
  <1>2. ASSUME NEW c \in Commands, CommandStep(c), NEW d \in Commands,
               at'[d] \in Holding
        PROVE  lockDir' = d
    <2>1. CASE Lock(c)
      <3>1. lockDir = NoCommand /\ lockDir' = c
        BY <2>1 DEF Lock
      <3>2. ASSUME d # c PROVE FALSE
        BY <1>2, <3>1, <3>2, OthersKept DEF Kept, LockHeld
      <3> QED BY <3>1, <3>2
    <2>2. CASE Unlock(c)
      <3>1. at[c] = "unlock" /\ at'[c] = "done"
        BY <2>2 DEF Unlock, Goes, TypeOK
      <3>2. lockDir = c /\ d # c
        BY <1>2, <3>1 DEF LockHeld, Holding
      <3> QED BY <1>2, <3>2, OthersKept DEF Kept, LockHeld
    <2>3. CASE lockDir' = lockDir /\ (at'[c] \in Holding => at[c] \in Holding)
      <3>1. at[d] \in Holding
        BY <1>2, <2>3, OthersKept DEF Kept
      <3> QED BY <2>3, <3>1 DEF LockHeld
    <2> QED BY <1>2, <2>1, <2>2, <2>3, LockSteps
  <1> QED BY Steps, <1>1, <1>2 DEF LockHeld

-----------------------------------------------------------------------------
(* Which pids are written down. *)

LEMMA PidSteps ==
    ASSUME TypeOK, NEW c \in Commands, CommandStep(c)
    PROVE  /\ stateFile' \in {stateFile, NoPid, Torn, proc[c]}
           /\ metadata'[c] \in {metadata[c], stateFile} \cup Listening
           /\ \/ proc'[c] \in {proc[c], NoPid} /\ at'[c] \notin Guarding
              \/ proc'[c] = proc[c] /\ at[c] \in Guarding
              \/ Spawn(c)
  <1> USE DEF Goes, servers, locals, TypeOK, Guarding
  <1>1. CASE Begin(c) \/ Interrupt(c) \/ Probe(c)
    BY <1>1 DEF Begin, Interrupt, Probe
  <1>2. CASE Lock(c) \/ LockTimeout(c) \/ Unlock(c) \/ Look(c) \/ Forget(c)
    BY <1>2 DEF Lock, LockTimeout, Unlock, Look, Forget
  <1>3. CASE Spawn(c)
    BY <1>3 DEF Spawn
  <1>4. CASE AwaitHealthy(c) \/ Kill(c) \/ Truncate(c) \/ Write(c)
    BY <1>4 DEF AwaitHealthy, Kill, Truncate, Write
  <1>5. CASE Read(c)
    BY <1>5 DEF Read
  <1>6. CASE Decide(c)
    BY <1>6 DEF Decide, AfterStop
  <1>7. CASE ListPids(c)
    BY <1>7 DEF ListPids
  <1>8. CASE Drain(c) \/ Remove(c) \/ ForceDrain(c) \/ ForceKilled(c)
    BY <1>8 DEF Drain, Remove, ForceDrain, ForceKilled, AfterStop
  <1> QED BY <1>1, <1>2, <1>3, <1>4, <1>5, <1>6, <1>7, <1>8
          DEF CommandStep, Start, Stop

LEMMA PidsKept ==
    ASSUME TypeOK, StopsKnown, PidsKnown, Next
    PROVE  PidsKnown'
  <1>1. \A p \in Pids : server[p] # "none" => server'[p] # "none"
    BY ServersProgress DEF Progress
  <1>2. ASSUME NEW p \in Pids, ServerStep(p)
        PROVE  PidsKnown'
    <2>1. UNCHANGED <<stateFile, metadata, proc, at>>
      BY <1>2 DEF ServerStep, Boot, Cleanup, Fail, Serve, locals
    <2> QED BY <1>1, <2>1 DEF PidsKnown
  <1>3. ASSUME NEW c \in Commands, CommandStep(c)
        PROVE  PidsKnown'
    <2>1. stateFile' \in Pids => server'[stateFile'] # "none"
      <3>1. stateFile' \in {stateFile, proc[c]} \/ stateFile' \notin Pids
        BY <1>3, PidSteps
      <3> QED BY <1>1, <3>1 DEF PidsKnown
    <2>2. metadata'[c] \in Pids => server'[metadata'[c]] # "none"
      <3>1. \A p \in Listening : p \in Pids /\ server[p] # "none"
        BY DEF Listening
      <3> QED BY <1>1, <1>3, <3>1, PidSteps DEF PidsKnown
    <2>3. /\ proc'[c] \in Pids => server'[proc'[c]] # "none"
          /\ at'[c] \in Guarding => proc'[c] \in Pids
      <3>1. CASE Spawn(c)
        <4>1. PICK p \in Pids : /\ server' = [server EXCEPT ![p] = "booting"]
                               /\ proc' = [proc EXCEPT ![c] = p]
          BY <3>1 DEF Spawn
        <4>2. server'[p] = "booting" /\ proc'[c] = p
          BY <4>1 DEF TypeOK
        <4> QED BY <4>2
      <3>2. CASE proc'[c] \in {proc[c], NoPid} /\ at'[c] \notin Guarding
        BY <1>1, <3>2 DEF PidsKnown
      <3>3. CASE proc'[c] = proc[c] /\ at[c] \in Guarding
        BY <1>1, <3>3 DEF PidsKnown
      <3> QED BY <1>3, <3>1, <3>2, <3>3, PidSteps
    <2>4. ASSUME NEW d \in Commands \ {c}
          PROVE  /\ metadata'[d] \in Pids => server'[metadata'[d]] # "none"
                 /\ proc'[d] \in Pids => server'[proc'[d]] # "none"
                 /\ at'[d] \in Guarding => proc'[d] \in Pids
      BY <1>1, <1>3, OthersKept DEF Kept, PidsKnown
    <2> QED BY <2>1, <2>2, <2>3, <2>4 DEF PidsKnown
  <1> QED BY Steps, <1>2, <1>3

-----------------------------------------------------------------------------
(* What a stop knows. *)

StopKnown(c) ==
    /\ at[c] = "idle" => outcome[c] = "none"
    /\ at[c] \in Stopping => Stops(c) /\ outcome[c] = "none"
    /\ at[c] \in {"drain", "force"} =>
          metadata[c] \in Pids /\ server[metadata[c]] \in {"up", "dead"}
    /\ at[c] \in {"remove", "killed"} \/ outcome[c] = "stopped" =>
          ~Live(metadata[c])

(* A process that has ended does not come back. *)
LEMMA DeadStays ==
    ASSUME TypeOK, StopsKnown, PidsKnown, Next, NEW c \in Commands
    PROVE  /\ ~Live(metadata[c]) => ~Live(metadata[c])'
              \/ metadata'[c] # metadata[c]
           /\ metadata[c] \in Pids /\ server[metadata[c]] \in {"up", "dead"}
              => server'[metadata[c]] \in {"up", "dead"}
  <1>1. metadata[c] \in Pids => Progress(metadata[c])
    BY ServersProgress
  <1> QED BY <1>1 DEF Progress, Live, PidsKnown, TypeOK

LEMMA StopKeptByStart ==
    ASSUME TypeOK, StopsKnown, PidsKnown, Next, NEW c \in Commands,
           Begin(c) \/ Interrupt(c) \/ Probe(c) \/ Start(c)
    PROVE  StopKnown(c)'
  <1> USE DEF Stopping
  <1>1. StopKnown(c)
    BY DEF StopsKnown, StopKnown
  <1>2. CASE Begin(c)
    <2>1. /\ at[c] = "idle" /\ UNCHANGED <<outcome, metadata>>
          /\ \/ at'[c] = "lock"
             \/ at'[c] = "read" /\ kind'[c] # "start"
      BY <1>2 DEF Begin, Goes, TypeOK
    <2> QED BY <1>1, <2>1 DEF StopKnown, Stops
  <1>3. CASE Probe(c)
    <2>1. /\ UNCHANGED <<outcome, metadata, kind>>
          /\ \/ at'[c] = "look"
             \/ at[c] = "check" /\ at'[c] = "decide"
      BY <1>3 DEF Probe, Goes, TypeOK
    <2> QED BY <1>1, <2>1, DeadStays DEF StopKnown, Stops
  <1>4. CASE Interrupt(c) \/ Start(c)
    <2>1. /\ at'[c] \notin Stopping \cup {"idle"} /\ UNCHANGED metadata
          /\ outcome'[c] = "stopped" => outcome[c] = "stopped"
      <3> USE DEF Goes, Ends, locals, TypeOK
      <3>1. CASE Interrupt(c) \/ Lock(c)
        BY <3>1 DEF Interrupt, Lock
      <3>7. CASE LockTimeout(c) \/ Unlock(c)
        BY <3>7 DEF LockTimeout, Unlock
      <3>2. CASE Look(c)
        <4>1. /\ at' = [at EXCEPT ![c] = at'[c]] /\ UNCHANGED metadata
              /\ at'[c] \in {"unlock", "forget", "spawn"}
          BY <3>2 DEF Look
        <4>2. outcome'[c] \in {"failed", "running", "unmanaged"} \/ outcome' = outcome
          BY <3>2 DEF Look
        <4> QED BY <4>1, <4>2
      <3>3. CASE Forget(c) \/ Spawn(c)
        BY <3>3 DEF Forget, Spawn
      <3>4. CASE AwaitHealthy(c)
        BY <3>4 DEF AwaitHealthy
      <3>5. CASE Kill(c) \/ Truncate(c)
        BY <3>5 DEF Kill, Truncate
      <3>6. CASE Write(c)
        BY <3>6 DEF Write
      <3> QED BY <1>4, <3>1, <3>2, <3>3, <3>4, <3>5, <3>6, <3>7 DEF Start
    <2> QED BY <1>1, <2>1, DeadStays DEF StopKnown
  <1> QED BY <1>2, <1>3, <1>4

LEMMA StopKeptByStop ==
    ASSUME TypeOK, StopsKnown, PidsKnown, Next, NEW c \in Commands, Stop(c)
    PROVE  StopKnown(c)'
  <1>1. StopKnown(c) /\ at[c] \in Stopping /\ UNCHANGED kind
    BY StopMoves DEF StopsKnown, StopKnown
  <1>2. Stops(c)' /\ outcome[c] = "none"
    BY <1>1 DEF StopKnown, Stops
  <1> USE DEF Goes, Ends, TypeOK
  <1>3. CASE Read(c)
    <2>1. \/ at'[c] = "done" /\ outcome'[c] = "failed"
          \/ at'[c] = "check" /\ outcome'[c] = outcome[c]
      BY <1>3 DEF Read
    <2> QED BY <1>2, <2>1 DEF StopKnown, Stopping
  <1>4. CASE Decide(c)
    <2>1. UNCHANGED metadata
      BY <1>4 DEF Decide
    <2>2. CASE Live(metadata[c]) /\ Goes(c, "decide", "drain")
                /\ Terminated(metadata[c]) /\ UNCHANGED outcome
      <3>1. metadata[c] \in Pids /\ server'[metadata[c]] \in {"up", "dead"}
        BY <2>2 DEF Live, Terminated
      <3>2. at'[c] = "drain" /\ outcome'[c] = "none"
        BY <1>2, <2>2
      <3> QED BY <1>2, <2>1, <3>1, <3>2 DEF StopKnown
    <2>3. CASE ~Live(metadata[c])
      <3>1. ~Live(metadata[c])'
        BY <2>1, <2>3, DeadStays
      <3>2. \/ at'[c] \in {"remove", "list"} /\ outcome'[c] = "none"
            \/ at'[c] \in {"lock", "done"} /\ outcome'[c] \in {"stopped", "failed"}
        BY <1>2, <1>4, <2>3 DEF Decide, AfterStop
      <3> QED BY <1>2, <2>1, <3>1, <3>2 DEF StopKnown, Stopping
    <2> QED BY <1>4, <2>2, <2>3 DEF Decide
  <1>5. CASE Drain(c)
    <2>1. /\ at[c] = "drain" /\ UNCHANGED <<server, metadata, outcome>>
          /\ \/ at'[c] = "remove" /\ ~HealthCheck
             \/ at'[c] = "remove late"
      BY <1>5 DEF Drain, servers, locals
    <2>2. ~HealthCheck => ~Live(metadata[c])
      BY <1>1, <2>1 DEF StopKnown, HealthCheck, Listening, Live
    <2> QED BY <1>2, <2>1, <2>2 DEF StopKnown, Live
  <1>6. CASE Remove(c)
    <2>1. /\ UNCHANGED <<server, metadata>> /\ at'[c] \in {"lock", "done"}
          /\ \/ at[c] = "remove" /\ outcome'[c] = "stopped"
             \/ outcome'[c] = "failed"
      BY <1>6 DEF Remove, AfterStop, servers
    <2> QED BY <1>1, <2>1 DEF StopKnown, Stopping, Live
  <1>7. CASE ListPids(c)
    <2>1. \/ at'[c] = "done" /\ outcome'[c] = "failed"
          \/ /\ at'[c] = "force" /\ UNCHANGED <<server, outcome>>
             /\ Listening # {}
             /\ metadata'[c] = CHOOSE p \in Listening : TRUE
      BY <1>7 DEF ListPids
    <2>2. Listening # {} => (CHOOSE p \in Listening : TRUE) \in Listening
      OBVIOUS
    <2> QED BY <1>2, <2>1, <2>2 DEF StopKnown, Listening, Stopping
  <1>8. CASE ForceDrain(c)
    <2>1. /\ at[c] = "force" /\ UNCHANGED <<metadata, outcome>>
          /\ \/ at'[c] = "remove" /\ ~HealthCheck /\ UNCHANGED server
             \/ at'[c] = "killed" /\ server' = [server EXCEPT ![metadata[c]] = "dead"]
      BY <1>8 DEF ForceDrain, locals
    <2>2. metadata[c] \in Pids /\ server[metadata[c]] \in {"up", "dead"}
      BY <1>1, <2>1 DEF StopKnown
    <2>3. ~Live(metadata[c])'
      BY <2>1, <2>2 DEF Live, HealthCheck, Listening
    <2> QED BY <1>2, <2>1, <2>3 DEF StopKnown
  <1>9. CASE ForceKilled(c)
    <2>1. /\ at[c] = "killed" /\ UNCHANGED <<server, metadata>>
          /\ \/ at'[c] = "remove" /\ UNCHANGED outcome
             \/ at'[c] = "done" /\ outcome'[c] = "failed"
      BY <1>9 DEF ForceKilled, servers
    <2> QED BY <1>1, <1>2, <2>1 DEF StopKnown, Live, Stopping
  <1> QED BY <1>3, <1>4, <1>5, <1>6, <1>7, <1>8, <1>9 DEF Stop

LEMMA StopsKept ==
    ASSUME TypeOK, StopsKnown, PidsKnown, Next
    PROVE  StopsKnown'
  <1> SUFFICES ASSUME NEW d \in Commands PROVE StopKnown(d)'
    BY DEF StopsKnown, StopKnown
  <1>1. StopKnown(d)
    BY DEF StopsKnown, StopKnown
  <1>2. ASSUME Kept(d) PROVE StopKnown(d)'
    BY <1>1, <1>2, DeadStays DEF Kept, StopKnown, Stops
  <1>3. ASSUME NEW p \in Pids, ServerStep(p) PROVE Kept(d)
    BY <1>3 DEF ServerStep, Boot, Cleanup, Fail, Serve, Kept, locals
  <1>4. ASSUME CommandStep(d) PROVE StopKnown(d)'
    BY <1>4, StopKeptByStart, StopKeptByStop DEF CommandStep
  <1> QED BY Steps, <1>2, <1>3, <1>4, OthersKept

-----------------------------------------------------------------------------
(* At most one server lives. *)

LEMMA HolderMoves ==
    ASSUME TypeOK, NEW c \in Commands, CommandStep(c)
    PROVE  /\ at'[c] = "spawn" => at[c] = "look" /\ ~healthy[c]
           /\ at'[c] = "look" => Probe(c)
           /\ at[c] \in {"await", "kill", "interrupted"} =>
                 AwaitHealthy(c) \/ Kill(c) \/ Interrupt(c)
           /\ at[c] \notin {"done", "interrupted"}
  <1> USE DEF Goes, TypeOK
  <1>1. CASE Begin(c)
    BY <1>1 DEF Begin
  <1>2. CASE Interrupt(c)
    BY <1>2 DEF Interrupt, Active
  <1>3. CASE Probe(c)
    BY <1>3 DEF Probe
  <1>4. CASE Lock(c) \/ LockTimeout(c) \/ Unlock(c)
    BY <1>4 DEF Lock, LockTimeout, Unlock
  <1>5. CASE Look(c)
    BY <1>5 DEF Look
  <1>6. CASE Forget(c) \/ Spawn(c) \/ Truncate(c) \/ Write(c)
    BY <1>6 DEF Forget, Spawn, Truncate, Write
  <1>7. CASE AwaitHealthy(c) \/ Kill(c)
    BY <1>7 DEF AwaitHealthy, Kill
  <1>8. CASE Stop(c)
    BY <1>8, StopMoves DEF Stopping
  <1> QED BY <1>1, <1>2, <1>3, <1>4, <1>5, <1>6, <1>7, <1>8 DEF CommandStep, Start

(* Nothing but a spawn, or a server in the foreground, adds to the living. *)
NoneComes ==
    \A p \in Pids :
        /\ Live(p)' => Live(p)
        /\ server'[p] = "booting" => server[p] = "booting"

LEMMA OnlySpawnAdds ==
    ASSUME TypeOK, StopsKnown, Next, foreign' = {}
    PROVE  (\E c \in Commands : Spawn(c)) \/ NoneComes
  <1>1. ASSUME NEW p \in Pids, ServerStep(p) PROVE NoneComes
    <2>1. ~Serve(p)
      BY DEF Serve
    <2>2. \/ server' = [server EXCEPT ![p] = "dead"]
          \/ server' = [server EXCEPT ![p] = "up"] /\ server[p] = "booting"
      BY <1>1, <2>1 DEF ServerStep, Boot, Cleanup, Fail
    <2> QED BY <2>2 DEF NoneComes, Live, TypeOK
  <1>2. ASSUME NEW c \in Commands, CommandStep(c), ~Spawn(c) PROVE NoneComes
    <2>1. CASE Kill(c) \/ Decide(c)
      <3>1. \/ UNCHANGED server
            \/ \E p : server' = [server EXCEPT ![p] = IF @ = "booting" THEN "dead" ELSE @]
        BY <2>1 DEF Kill, Decide, Terminated
      <3> QED BY <3>1 DEF NoneComes, Live, TypeOK
    <2>2. CASE ForceDrain(c)
      <3>1. \/ UNCHANGED server
            \/ \E p : server' = [server EXCEPT ![p] = "dead"]
        BY <2>2 DEF ForceDrain
      <3> QED BY <3>1 DEF NoneComes, Live, TypeOK
    <2>3. CASE ~(Kill(c) \/ Decide(c) \/ ForceDrain(c))
      <3>1. UNCHANGED server
        BY <1>2, <2>3 DEF CommandStep, Start, Stop, Begin, Interrupt, Probe, Lock,
           LockTimeout, Unlock, Look, Forget, AwaitHealthy, Truncate, Write, Read,
           Drain, Remove, ListPids, ForceKilled, servers, locals
      <3> QED BY <3>1 DEF NoneComes, Live
    <2> QED BY <2>1, <2>2, <2>3
  <1> QED BY Steps, <1>1, <1>2

(* Where the holder of the lock has no server that boots, no server boots. *)
LEMMA NoneBoots ==
    ASSUME LockHeld, BootingOwned, NEW c \in Commands,
           lockDir = NoCommand \/ at[c] \in Holding \ {"await", "kill"},
           NEW p \in Pids, server[p] = "booting"
    PROVE  FALSE
  <1>1. PICK d \in Commands : lockDir = d /\ at[d] \in {"await", "kill", "interrupted"}
    BY DEF BootingOwned
  <1>2. at[c] \in Holding \ {"await", "kill"} => d = c
    BY <1>1 DEF LockHeld
  <1> QED BY <1>1, <1>2 DEF Holding

LEMMA SpawnKeepsOne ==
    ASSUME TypeOK, LockHeld, OneLives, NEW c \in Commands, Spawn(c)
    PROVE  OneLives'
  <1>1. PICK p \in Pids :
           /\ at[c] = "spawn" /\ at' = [at EXCEPT ![c] = "await"]
           /\ server' = [server EXCEPT ![p] = "booting"]
           /\ proc' = [proc EXCEPT ![c] = p]
           /\ UNCHANGED <<lockDir, healthy>>
    BY DEF Spawn, Goes
  <1>2. \A q \in Pids : ~Live(q)
    BY <1>1 DEF OneLives, Cleared
  <1>3. \A q \in Pids : Live(q)' => q = p
    BY <1>1, <1>2 DEF Live, TypeOK
  <1>4. lockDir = c /\ at'[c] = "await" /\ proc'[c] = p
    BY <1>1 DEF LockHeld, Holding, TypeOK
  <1>5. AtMostOne'
    BY <1>3 DEF AtMostOne
  <1>6. BootingOwned'
    BY <1>1, <1>3, <1>4 DEF BootingOwned, Live
  <1>7. Cleared(c)'
    BY <1>3, <1>4 DEF Cleared
  <1>8. ASSUME NEW d \in Commands \ {c} PROVE Cleared(d)'
    <2>1. at'[d] = at[d] /\ at[d] \notin Holding
      BY <1>1, <1>4 DEF TypeOK, LockHeld
    <2> QED BY <2>1 DEF Cleared, Holding, Guarding
  <1> QED BY <1>5, <1>6, <1>7, <1>8 DEF OneLives

LEMMA CommandKeepsOne ==
    ASSUME TypeOK, LockHeld, PidsKnown, OneLives, NEW c \in Commands, CommandStep(c),
           NoneComes, ~Spawn(c)
    PROVE  OneLives'
  <1>1. AtMostOne'
    BY DEF AtMostOne, OneLives, NoneComes
  <1>2. ASSUME NEW p \in Pids, server'[p] = "booting"
        PROVE  \E d \in Commands :
                  lockDir' = d /\ proc'[d] = p /\ at'[d] \in {"await", "kill", "interrupted"}
    <2>1. server[p] = "booting"
      BY <1>2 DEF NoneComes
    <2>2. PICK d \in Commands :
             lockDir = d /\ proc[d] = p /\ at[d] \in {"await", "kill", "interrupted"}
      BY <2>1 DEF OneLives, BootingOwned
    <2>3. ~Lock(c) /\ ~Unlock(c)
      BY <2>1, <2>2, NoneBoots DEF Lock, Unlock, Goes, Holding, OneLives
    <2>4. lockDir' = d
      BY <2>2, <2>3, LockSteps
    <2>5. CASE d # c
      BY <2>2, <2>4, <2>5, OthersKept DEF Kept
    <2>6. CASE d = c
      <3>1. AwaitHealthy(c) \/ Kill(c) \/ Interrupt(c)
        BY <2>2, <2>6, HolderMoves
      <3>2. ~Kill(c)
        BY <1>2, <2>1, <2>2, <2>6 DEF Kill, Terminated, TypeOK
      <3>3. ASSUME AwaitHealthy(c), HealthCheck PROVE FALSE
        <4>1. PICK q \in Pids : server[q] = "up"
          BY <3>3 DEF HealthCheck, Listening
        <4> QED BY <2>1, <4>1 DEF OneLives, AtMostOne, Live
      <3>4. UNCHANGED proc /\ at'[c] \in {"await", "kill", "interrupted"}
        BY <3>1, <3>2, <3>3 DEF AwaitHealthy, Interrupt, Goes, TypeOK, locals
      <3> QED BY <2>2, <2>4, <2>6, <3>4
    <2> QED BY <2>5, <2>6
  <1>3. Cleared(c)'
    <2>1. Cleared(c)
      BY DEF OneLives
    <2>2. ASSUME at'[c] = "spawn" PROVE \A p \in Pids : ~Live(p)'
      BY <2>1, <2>2, HolderMoves DEF Cleared, NoneComes
    <2>3. ASSUME at'[c] = "look", ~healthy'[c] PROVE \A p \in Pids : ~Live(p)'
      <3>1. Probe(c) /\ at[c] = "probe" /\ ~HealthCheck
        BY <2>3, HolderMoves DEF Probe, Goes, TypeOK
      <3>2. \A p \in Pids : server[p] # "booting" /\ server[p] # "up"
        BY <3>1, NoneBoots DEF OneLives, Holding, HealthCheck, Listening
      <3> QED BY <3>2 DEF NoneComes, Live
    <2>4. ASSUME at'[c] \in Guarding, NEW p \in Pids, Live(p)' PROVE p = proc'[c]
      <3>1. at[c] \in Guarding /\ proc'[c] = proc[c]
        BY <2>4, PidSteps
      <3> QED BY <2>1, <2>4, <3>1 DEF Cleared, NoneComes
    <2> QED BY <2>2, <2>3, <2>4 DEF Cleared
  <1>4. ASSUME NEW d \in Commands \ {c} PROVE Cleared(d)'
    <2>1. Kept(d) /\ Cleared(d)
      BY OthersKept DEF OneLives
    <2> QED BY <2>1 DEF Kept, Cleared, NoneComes
  <1> QED BY <1>1, <1>2, <1>3, <1>4 DEF OneLives, BootingOwned

LEMMA OneKept ==
    ASSUME TypeOK, LockHeld, PidsKnown, StopsKnown, foreign = {} => OneLives,
           Next, foreign' = {}
    PROVE  OneLives'
  <1>1. foreign = {}
    BY Steps DEF ServerStep, Boot, Cleanup, Fail, Serve, CommandStep, Start, Stop,
       Begin, Interrupt, Probe, Lock, LockTimeout, Unlock, Look, Forget, Spawn,
       AwaitHealthy, Kill, Truncate, Write, Read, Decide, Drain, Remove, ListPids,
       ForceDrain, ForceKilled, servers, locals
  <1>2. ASSUME NEW p \in Pids, ServerStep(p), NoneComes PROVE OneLives'
    <2>1. UNCHANGED <<lockDir, at, proc, healthy>>
      BY <1>2 DEF ServerStep, Boot, Cleanup, Fail, Serve, locals
    <2> QED BY <1>1, <1>2, <2>1
            DEF OneLives, AtMostOne, BootingOwned, Cleared, NoneComes
  <1>3. ASSUME NEW c \in Commands, CommandStep(c), ~Spawn(c), NoneComes PROVE OneLives'
    BY <1>1, <1>3, CommandKeepsOne
  <1>4. ASSUME NEW c \in Commands, Spawn(c) PROVE OneLives'
    BY <1>1, <1>4, SpawnKeepsOne
  <1> QED BY Steps, OnlySpawnAdds, <1>2, <1>3, <1>4

-----------------------------------------------------------------------------
(* server.json, while nothing disturbs the commands. *)

(* What ends the peace stays. *)
LEMMA UndisturbedBefore ==
    ASSUME TypeOK, Next, Undisturbed'
    PROVE  Undisturbed /\ dying \subseteq dying'
  <1>1. ~crossed /\ foreign = {} /\ dying \subseteq dying'
    <2> SUFFICES /\ crossed => crossed'
                 /\ foreign \subseteq foreign' /\ dying \subseteq dying'
      BY DEF Undisturbed
    <2>1. ASSUME NEW p \in Pids, ServerStep(p)
          PROVE  UNCHANGED <<crossed, dying>> /\ foreign \subseteq foreign'
      BY <2>1 DEF ServerStep, Boot, Cleanup, Fail, Serve, locals
    <2>2. ASSUME NEW c \in Commands, Begin(c) PROVE UNCHANGED servers /\ (crossed => crossed')
      BY <2>2 DEF Begin
    <2>3. ASSUME NEW c \in Commands, Kill(c) \/ Decide(c) \/ ListPids(c)
          PROVE  UNCHANGED <<crossed, foreign>> /\ dying \subseteq dying'
      BY <2>3 DEF Kill, Decide, ListPids, Terminated
    <2>4. ASSUME NEW c \in Commands, CommandStep(c),
                 ~(Begin(c) \/ Kill(c) \/ Decide(c) \/ ListPids(c))
          PROVE  UNCHANGED <<crossed, foreign, dying>>
      BY <2>4 DEF CommandStep, Start, Stop, Interrupt, Probe, Lock, LockTimeout,
         Unlock, Look, Forget, Spawn, AwaitHealthy, Truncate, Write, Read, Drain,
         Remove, ForceDrain, ForceKilled, servers, locals
    <2> QED BY Steps, <2>1, <2>2, <2>3, <2>4 DEF servers
  <1>2. ASSUME NEW p \in Pids, ServerStep(p), NEW d \in Commands
        PROVE  at[d] # "interrupted"
    BY <1>2 DEF ServerStep, Boot, Cleanup, Fail, Serve, Undisturbed
  <1>3. ASSUME NEW c \in Commands, CommandStep(c), NEW d \in Commands
        PROVE  at[d] # "interrupted"
    <2>1. at[c] # "interrupted"
      BY <1>3, HolderMoves
    <2>2. d # c => at'[d] = at[d]
      BY <1>3, OthersKept DEF Kept
    <2> QED BY <2>1, <2>2 DEF Undisturbed
  <1> QED BY Steps, <1>1, <1>2, <1>3 DEF Undisturbed

LEMMA ActiveSteps ==
    ASSUME TypeOK, NEW c \in Commands, CommandStep(c)
    PROVE  /\ Active' \subseteq Active \cup {c}
           /\ (c \in Active /\ UNCHANGED kind) \/ Begin(c)
  <1>1. \A d \in Commands \ {c} : at'[d] = at[d]
    BY OthersKept DEF Kept
  <1>2. CASE Begin(c)
    BY <1>1, <1>2 DEF Active
  <1>3. ASSUME ~Begin(c) PROVE c \in Active /\ UNCHANGED kind
    <2>1. at[c] # "idle" /\ UNCHANGED kind
      <3>1. CASE Stop(c)
        BY <3>1, StopMoves DEF Stopping
      <3>2. CASE Interrupt(c) \/ Probe(c) \/ Start(c)
        BY <3>2 DEF Start, Interrupt, Active, Probe, Lock, LockTimeout, Unlock, Look,
           Forget, Spawn, AwaitHealthy, Kill, Truncate, Write, locals, Goes
      <3> QED BY <1>3, <3>1, <3>2 DEF CommandStep
    <2> QED BY <2>1, HolderMoves DEF Active
  <1> QED BY <1>1, <1>2, <1>3 DEF Active

LEMMA StopsAloneKept ==
    ASSUME TypeOK, StopsAlone, Next, Undisturbed'
    PROVE  StopsAlone'
  <1>1. ASSUME NEW p \in Pids, ServerStep(p) PROVE StopsAlone'
    <2>1. UNCHANGED <<at, kind>>
      BY <1>1 DEF ServerStep, Boot, Cleanup, Fail, Serve, locals
    <2> QED BY <2>1 DEF StopsAlone, Active, Stops
  <1>2. ASSUME NEW c \in Commands, CommandStep(c) PROVE StopsAlone'
    <2>1. CASE c \in Active /\ UNCHANGED kind
      BY <1>2, <2>1, ActiveSteps DEF StopsAlone, Stops
    <2>2. CASE Begin(c)
      <3>1. PICK k \in Kinds :
               /\ kind' = [kind EXCEPT ![c] = k]
               /\ crossed' = (crossed \/ \E d \in Active : k # "start" \/ Stops(d))
        BY <2>2 DEF Begin
      <3>2. \A d \in Active : k = "start" /\ ~Stops(d)
        BY <3>1 DEF Undisturbed
      <3>3. kind'[c] = k /\ \A d \in Commands \ {c} : kind'[d] = kind[d]
        BY <3>1 DEF TypeOK
      <3>4. Active' \subseteq Active \cup {c} /\ Active \subseteq Commands
        BY <1>2, ActiveSteps DEF Active
      <3>5. c \notin Active
        BY <2>2 DEF Begin, Goes, Active
      <3>6. \A d \in Active' : kind'[d] = "start" \/ (d = c /\ Active = {})
        BY <3>2, <3>3, <3>4 DEF Stops
      <3> QED BY <3>2, <3>3, <3>4, <3>6 DEF StopsAlone, Stops
    <2> QED BY <1>2, <2>1, <2>2, ActiveSteps
  <1> QED BY Steps, <1>1, <1>2

LEMMA FileSteps ==
    ASSUME TypeOK, NEW c \in Commands, CommandStep(c)
    PROVE  stateFile' = stateFile \/ Forget(c) \/ Truncate(c) \/ Write(c) \/ Remove(c)
  BY DEF CommandStep, Start, Stop, Begin, Interrupt, Probe, Lock, LockTimeout,
     Unlock, Look, Spawn, AwaitHealthy, Kill, Read, Decide, Drain, ListPids,
     ForceDrain, ForceKilled, servers, locals

(* While a command relies on the file, no other one changes it. *)
LEMMA FileLeftAlone ==
    ASSUME TypeOK, LockHeld, StopsKnown, StopsAlone,
           NEW c \in Commands, CommandStep(c), NEW d \in Commands \ {c},
           at[d] \in {"check", "decide", "forget", "write"} \cup Told
    PROVE  stateFile' = stateFile
  <1>1. d \in Active /\ (at[d] \in Stopping \/ at[d] \in Holding)
    BY DEF Told, Active, Stopping, Holding
  <1>2. ASSUME Forget(c) \/ Truncate(c) \/ Write(c) PROVE FALSE
    <2>1. at[c] \in Holding /\ c \in Active
      BY <1>2 DEF Forget, Truncate, Write, Goes, Holding, Active
    <2>2. at[d] \notin Holding
      BY <2>1 DEF LockHeld
    <2>3. Stops(d)
      BY <1>1, <2>2 DEF StopsKnown
    <2> QED BY <1>1, <2>1, <2>3 DEF StopsAlone
  <1>3. ASSUME Remove(c) PROVE FALSE
    <2>1. at[c] \in Stopping /\ c \in Active
      BY <1>3 DEF Remove, Goes, Stopping, Active
    <2>2. Stops(c)
      BY <2>1 DEF StopsKnown
    <2> QED BY <1>1, <2>1, <2>2 DEF StopsAlone
  <1> QED BY <1>2, <1>3, FileSteps

(* A file that names no living server goes on naming none. *)
LEMMA FileStays ==
    ASSUME TypeOK, PidsKnown, StopsKnown, Next, Undisturbed, Undisturbed',
           stateFile' = stateFile
    PROVE  /\ stateFile \notin Spawned => stateFile' \notin Spawned'
           /\ ~Live(stateFile) => ~Live(stateFile)'
  <1>1. stateFile \in Pids => Progress(stateFile) /\ server[stateFile] # "none"
    BY ServersProgress DEF PidsKnown
  <1>2. dying \subseteq dying'
    BY UndisturbedBefore
  <1> QED BY <1>1, <1>2 DEF Progress, Live, Spawned, Undisturbed

LEMMA FiledKept ==
    ASSUME TypeOK, PidsKnown, StopsKnown, Next, Undisturbed, Undisturbed',
           NEW c \in Commands, CommandStep(c), Filed(c)
    PROVE  Filed(c)'
  <1> USE DEF Goes, TypeOK
  <1>1. CASE Probe(c)
    <2>1. /\ at'[c] = "look" \/ (at[c] = "check" /\ at'[c] = "decide")
          /\ UNCHANGED <<stateFile, metadata>>
      BY <1>1 DEF Probe
    <2> QED BY <2>1 DEF Filed, Told
  <1>2. CASE Look(c)
    <2>1. /\ at'[c] \in {"unlock", "forget", "spawn"} /\ UNCHANGED <<server, stateFile>>
          /\ at'[c] = "forget" => ~Live(stateFile)
      BY <1>2 DEF Look, servers
    <2> QED BY <2>1 DEF Filed, Told, Live
  <1>3. CASE Truncate(c)
    <2>1. at'[c] = "write" /\ stateFile' = Torn
      BY <1>3 DEF Truncate
    <2> QED BY <2>1 DEF Filed, Told
  <1>4. CASE Read(c)
    <2>1. \/ at'[c] = "done"
          \/ at'[c] = "check" /\ metadata'[c] = stateFile /\ UNCHANGED stateFile
      BY <1>4 DEF Read
    <2> QED BY <2>1 DEF Filed, Told
  <1>5. CASE Decide(c)
    <2>1. at[c] = "decide" /\ UNCHANGED stateFile /\ stateFile = metadata[c]
      BY <1>5 DEF Decide, Filed
    <2>2. at'[c] \in {"drain", "remove", "list", "lock", "done"}
      BY <1>5 DEF Decide, AfterStop
    <2>3. stateFile \notin Spawned'
      <3>1. CASE Live(stateFile) /\ Terminated(stateFile)
        BY <3>1 DEF Terminated, Spawned, Live
      <3>2. CASE ~Live(stateFile)
        BY <2>1, <3>2, FileStays DEF Spawned
      <3> QED BY <1>5, <2>1, <3>1, <3>2 DEF Decide
    <2> QED BY <2>1, <2>2, <2>3 DEF Filed
  <1>6. CASE Drain(c) \/ ListPids(c) \/ ForceDrain(c) \/ ForceKilled(c)
    <2>1. at[c] \in Told /\ at'[c] \in Told \cup {"done"} /\ UNCHANGED stateFile
      <3>1. CASE Drain(c) \/ ForceDrain(c)
        BY <3>1 DEF Drain, ForceDrain, Told
      <3>2. CASE ListPids(c) \/ ForceKilled(c)
        BY <3>2 DEF ListPids, ForceKilled, Told
      <3> QED BY <1>6, <3>1, <3>2
    <2>2. stateFile' \notin Spawned'
      BY <2>1, FileStays DEF Filed
    <2> QED BY <2>1, <2>2 DEF Filed, Told
  <1>7. CASE Begin(c) \/ Interrupt(c) \/ Lock(c) \/ LockTimeout(c) \/ Unlock(c)
    <2>1. at'[c] \in {"lock", "read", "interrupted", "probe", "done"}
      BY <1>7 DEF Begin, Interrupt, Lock, LockTimeout, Unlock
    <2> QED BY <2>1 DEF Filed, Told
  <1>8. CASE Forget(c) \/ Spawn(c) \/ AwaitHealthy(c) \/ Kill(c) \/ Write(c)
    <2>1. at'[c] \in {"unlock", "await", "truncate", "kill"}
      BY <1>8 DEF Forget, Spawn, AwaitHealthy, Kill, Write
    <2> QED BY <2>1 DEF Filed, Told
  <1>9. CASE Remove(c)
    <2>1. at'[c] \in {"lock", "done"}
      BY <1>9 DEF Remove, AfterStop
    <2> QED BY <2>1 DEF Filed, Told
  <1> QED BY <1>1, <1>2, <1>3, <1>4, <1>5, <1>6, <1>7, <1>8, <1>9
          DEF CommandStep, Start, Stop

(* A spawned server is on file, or its spawner is about to put it there.   *)
LEMMA RecordedKept ==
    ASSUME TypeOK, OneLives, NEW c \in Commands, CommandStep(c), Filed(c),
           Undisturbed', NEW p \in Spawned, p \in Spawned', Recorded(p)
    PROVE  Recorded(p)'
  <1> USE DEF Goes, TypeOK
  <1>1. p \in Pids /\ Live(p) /\ p \notin dying'
    BY DEF Spawned
  <1>2. ASSUME NEW d \in Commands, at'[d] \in Guarding, proc'[d] = p
        PROVE  Recorded(p)'
    BY <1>2 DEF Recorded, Active, Guarding
  <1>3. CASE stateFile = p
    <2>1. CASE stateFile' = stateFile
      BY <1>3, <2>1 DEF Recorded
    <2>2. CASE Truncate(c)
      <3>1. at[c] \in Guarding /\ at'[c] = "write" /\ UNCHANGED proc
        BY <2>2 DEF Truncate, Guarding, locals
      <3>2. proc[c] = p
        BY <1>1, <3>1 DEF OneLives, Cleared
      <3> QED BY <1>2, <3>1, <3>2 DEF Guarding
    <2>3. CASE Forget(c) \/ Remove(c) \/ Write(c)
      <3>1. at[c] \in {"forget", "write"} \cup Told
        BY <2>3 DEF Forget, Remove, Write, Told
      <3> QED BY <1>1, <1>3, <3>1 DEF Filed
    <2> QED BY <2>1, <2>2, <2>3, FileSteps
  <1>4. ASSUME NEW d \in Active, proc[d] = p, at[d] \in Guarding
        PROVE  Recorded(p)'
    <2>1. d \in Commands
      BY DEF Active
    <2>2. CASE d # c
      BY <1>2, <1>4, <2>1, <2>2, OthersKept DEF Kept
    <2>3. CASE d = c
      <3>1. CASE AwaitHealthy(c) \/ Truncate(c)
        <4>1. at'[c] \in Guarding /\ UNCHANGED proc
          BY <3>1 DEF AwaitHealthy, Truncate, Guarding, locals
        <4> QED BY <1>2, <1>4, <2>3, <4>1
      <3>2. CASE Kill(c)
        <4>1. Terminated(p)
          BY <1>4, <2>3, <3>2 DEF Kill
        <4> QED BY <1>1, <4>1 DEF Terminated, Live, Spawned
      <3>3. CASE Write(c)
        <4>1. stateFile = Torn
          BY <3>3 DEF Write, Filed
        <4> QED BY <1>4, <2>3, <3>3, <4>1 DEF Write, Recorded
      <3>4. CASE Interrupt(c)
        BY <3>4 DEF Interrupt, Undisturbed
      <3>5. CASE Begin(c) \/ Probe(c) \/ Stop(c)
        <4>1. at[c] \notin Guarding
          BY <3>5, StopMoves DEF Begin, Probe, Stopping, Guarding
        <4> QED BY <1>4, <2>3, <4>1
      <3>6. CASE Lock(c) \/ LockTimeout(c) \/ Unlock(c) \/ Look(c) \/ Forget(c) \/ Spawn(c)
        <4>1. at[c] \notin Guarding
          BY <3>6 DEF Lock, LockTimeout, Unlock, Look, Forget, Spawn, Guarding
        <4> QED BY <1>4, <2>3, <4>1
      <3> QED BY <3>1, <3>2, <3>3, <3>4, <3>5, <3>6 DEF CommandStep, Start
    <2> QED BY <2>2, <2>3
  <1> QED BY <1>3, <1>4 DEF Recorded

LEMMA FileKept ==
    ASSUME TypeOK, LockHeld, PidsKnown, StopsKnown, foreign = {} => OneLives,
           Undisturbed => FileKnown, Next, Undisturbed'
    PROVE  FileKnown'
  <1>1. Undisturbed /\ dying \subseteq dying' /\ FileKnown /\ OneLives
    BY UndisturbedBefore DEF Undisturbed
  <1>2. StopsAlone'
    BY <1>1, StopsAloneKept DEF FileKnown
  <1>3. ASSUME NEW p \in Pids, ServerStep(p) PROVE FileKnown'
    <2>1. UNCHANGED <<stateFile, at, metadata, proc>>
      BY <1>3 DEF ServerStep, Boot, Cleanup, Fail, Serve, locals
    <2>2. ASSUME NEW c \in Commands PROVE Filed(c)'
      BY <1>1, <2>1, FileStays DEF FileKnown, Filed
    <2>3. ~Serve(p)
      BY DEF Serve, Undisturbed
    <2>4. Spawned' \subseteq Spawned
      <3>1. NoneComes
        BY <1>3, <2>3, OnlySpawnAdds DEF Undisturbed, ServerStep, Boot, Cleanup,
           Fail, NoneComes, Live, TypeOK
      <3> QED BY <1>1, <3>1 DEF Spawned, NoneComes, Undisturbed
    <2>5. \A q \in Spawned' : Recorded(q)'
      BY <1>1, <2>1, <2>4 DEF FileKnown, Recorded, Active
    <2> QED BY <1>2, <2>2, <2>5 DEF FileKnown
  <1>4. ASSUME NEW c \in Commands, CommandStep(c) PROVE FileKnown'
    <2>1. ASSUME NEW d \in Commands \ {c} PROVE Filed(d)'
      <3>1. Kept(d) /\ Filed(d)
        BY <1>1, <1>4, OthersKept DEF FileKnown
      <3>2. CASE at[d] \in {"check", "decide", "forget", "write"} \cup Told
        <4>1. stateFile' = stateFile
          BY <1>1, <1>4, <3>2, FileLeftAlone DEF FileKnown
        <4> QED BY <1>1, <3>1, <4>1, FileStays DEF Kept, Filed
      <3>3. CASE at[d] \notin {"check", "decide", "forget", "write"} \cup Told
        BY <3>1, <3>3 DEF Kept, Filed
      <3> QED BY <3>2, <3>3
    <2>2. Filed(c)'
      BY <1>1, <1>4, FiledKept DEF FileKnown
    <2>3. ASSUME NEW p \in Spawned' PROVE Recorded(p)'
      <3>1. CASE Spawn(c)
        <4>1. PICK q \in Pids :
                 /\ at[c] = "spawn" /\ at' = [at EXCEPT ![c] = "await"]
                 /\ server' = [server EXCEPT ![q] = "booting"]
                 /\ proc' = [proc EXCEPT ![c] = q]
          BY <3>1 DEF Spawn, Goes
        <4>2. \A x \in Pids : ~Live(x)
          BY <1>1, <4>1 DEF OneLives, Cleared
        <4>3. p = q
          BY <4>1, <4>2 DEF Spawned, Live, TypeOK
        <4> QED BY <4>1, <4>3 DEF Recorded, Active, Guarding, TypeOK
      <3>2. CASE ~Spawn(c)
        <4>1. p \in Spawned
          <5>1. Live(p)' => Live(p)
            <6>1. CASE NoneComes
              BY <6>1 DEF NoneComes, Spawned
            <6>2. ASSUME NEW d \in Commands, Spawn(d) PROVE FALSE
              <7>1. at[d] = "spawn" /\ at'[d] = "await"
                BY <6>2 DEF Spawn, Goes, TypeOK
              <7>2. d = c
                BY <1>4, <7>1, OthersKept DEF Kept
              <7> QED BY <3>2, <6>2, <7>2
            <6> QED BY <6>1, <6>2, OnlySpawnAdds DEF Undisturbed
          <5> QED BY <1>1, <5>1 DEF Spawned, Undisturbed
        <4> QED BY <1>1, <1>4, <4>1, RecordedKept DEF FileKnown
      <3> QED BY <3>1, <3>2
    <2> QED BY <1>2, <2>1, <2>2, <2>3 DEF FileKnown
  <1> QED BY Steps, <1>3, <1>4

-----------------------------------------------------------------------------
(* The theorems. *)

LEMMA InitIInv == Init => IInv
  <1> SUFFICES ASSUME Init PROVE IInv
    OBVIOUS
  <1>1. TypeOK
    <2>1. failures \in 0 .. MaxFailures
      <3>1. MaxFailures \in Nat
        BY LifecycleAssumption DEF LifecycleAssumption
      <3>2. failures = 0
        BY DEF Init
      <3> QED BY <3>1, <3>2, ZeroInRange, Zenon
    <2>2. server \in [Pids -> {"none", "booting", "up", "dead"}]
      BY DEF Init
    <2>3. dying \subseteq Pids /\ foreign \subseteq Pids /\ crossed \in BOOLEAN
      BY DEF Init
    <2>4. lockDir \in Commands \cup {NoCommand} /\ stateFile \in Pids \cup {NoPid, Torn}
      BY DEF Init
    <2>5. kind \in [Commands -> Kinds \cup {"none"}] /\ healthy \in [Commands -> BOOLEAN]
      BY DEF Init
    <2>6. at \in [Commands -> Places]
      BY DEF Init, Places
    <2>7. /\ metadata \in [Commands -> Pids \cup {NoPid}]
          /\ proc \in [Commands -> Pids \cup {NoPid}]
      BY DEF Init
    <2>8. outcome \in [Commands -> {"none", "running", "started", "unmanaged", "stopped",
                                    "failed"}]
      BY DEF Init
    <2> QED BY <2>1, <2>2, <2>3, <2>4, <2>5, <2>6, <2>7, <2>8 DEF TypeOK
  <1>2. LockHeld /\ PidsKnown /\ StopsKnown
    BY DEF Init, LockHeld, PidsKnown, StopsKnown, Holding, Guarding, Stopping
  <1>3. \A p \in Pids : ~Live(p) /\ server[p] # "booting"
    BY DEF Init, Live
  <1>4. OneLives
    BY <1>3 DEF Init, OneLives, AtMostOne, BootingOwned, Cleared, Guarding
  <1>5. FileKnown
    BY <1>3 DEF Init, FileKnown, StopsAlone, Active, Filed, Told, Spawned
  <1> QED BY <1>1, <1>2, <1>4, <1>5 DEF IInv

LEMMA StepIInv == IInv /\ [Next]_vars => IInv'
  <1> SUFFICES ASSUME IInv, [Next]_vars PROVE IInv'
    OBVIOUS
  <1>1. CASE UNCHANGED vars
    <2> USE <1>1 DEF vars, servers, locals
    <2>1. TypeOK'
      BY DEF IInv, TypeOK
    <2>2. LockHeld' /\ PidsKnown' /\ StopsKnown'
      BY DEF IInv, LockHeld, PidsKnown, StopsKnown, Stops, Live
    <2>3. ASSUME foreign' = {} PROVE OneLives'
      BY <2>3 DEF IInv, OneLives, AtMostOne, BootingOwned, Cleared, Live, Stops
    <2>4. ASSUME Undisturbed' PROVE FileKnown'
      <3>1. Undisturbed /\ FileKnown
        BY <2>4 DEF IInv, Undisturbed
      <3>2. Spawned' = Spawned /\ Active' = Active
        BY DEF Spawned, Active, Live
      <3> QED BY <3>1, <3>2 DEF FileKnown, StopsAlone, Filed, Told, Recorded, Live, Stops
    <2> QED BY <2>1, <2>2, <2>3, <2>4 DEF IInv
  <1>2. CASE Next
    <2>1. TypeOK' /\ LockHeld' /\ PidsKnown' /\ StopsKnown'
      BY <1>2, TypeKept, LockKept, PidsKept, StopsKept DEF IInv
    <2>2. ASSUME foreign' = {} PROVE OneLives'
      BY <1>2, <2>2, OneKept DEF IInv
    <2>3. ASSUME Undisturbed' PROVE FileKnown'
      BY <1>2, <2>3, FileKept DEF IInv
    <2> QED BY <2>1, <2>2, <2>3 DEF IInv
  <1> QED BY <1>1, <1>2

LEMMA Invariance == Spec => []IInv
  BY InitIInv, StepIInv, PTL DEF Spec

(* Every variable always has its type. *)
THEOREM TypeCorrect == Spec => []TypeOK
  <1>1. IInv => TypeOK
    BY DEF IInv
  <1> QED BY <1>1, Invariance, PTL

(* However many commands start, stop and restart the server at the same    *)
(* time, are interrupted or time out: one spawned server lives at most,    *)
(* while none runs in the foreground.                                      *)
THEOREM OneServer == Spec => []OneSpawnedServer
  <1>1. IInv => OneSpawnedServer
    <2> SUFFICES ASSUME IInv, foreign = {} PROVE Cardinality(Spawned) <= 1
      BY DEF OneSpawnedServer
    <2>1. CASE Spawned = {}
      BY <2>1, FS_EmptySet, AtMostOneIsOne, Zenon
    <2>2. ASSUME NEW p \in Spawned PROVE Cardinality(Spawned) <= 1
      <3>1. Spawned = {p}
        BY DEF IInv, OneLives, AtMostOne, Spawned
      <3> QED BY <3>1, FS_Singleton, AtMostOneIsOne, Zenon
    <2> QED BY <2>1, <2>2
  <1> QED BY <1>1, Invariance, PTL

(* A command that says the server is stopped leaves the one it signalled    *)
(* dead, and no later command brings it back.                              *)
THEOREM StoppedServersAreDead == Spec => []StoppedIsDead
  <1>1. IInv => StoppedIsDead
    BY DEF IInv, StopsKnown, StoppedIsDead
  <1> QED BY <1>1, Invariance, PTL

(* While nothing disturbs the commands, server.json leads to every spawned  *)
(* server, or its spawner still works on it.                               *)
THEOREM SpawnedServersAreRecorded == Spec => []SpawnedIsRecorded
  <1>1. IInv => SpawnedIsRecorded
    BY DEF IInv, FileKnown, Recorded, Undisturbed, Guarding, SpawnedIsRecorded
  <1> QED BY <1>1, Invariance, PTL
=============================================================================
