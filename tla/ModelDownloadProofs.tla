------------------------- MODULE ModelDownloadProofs -------------------------
(* What a pull publishes is what upstream has, for repositories of any number  *)
(* of files of any length and any number of pulls, crashes, removals and new   *)
(* versions, as long as pulls do not race.  What is in the cache is listed      *)
(* under names that resolve to it, and answers the pull after.                  *)
EXTENDS ModelDownload, ModelCatalogue, SequenceTheorems, FiniteSetTheorems, TLAPS

LEMMA AtMostLater ==
    ASSUME NEW a \in Int, NEW b \in Int, NEW c \in Int, a <= b + 1, b <= c
    PROVE  a <= c + 1
  OBVIOUS

USE DownloadAssumption

LEMMA Arithmetic ==
    /\ 0 \in Versions /\ 1 \in Versions /\ Len(Files) \in Nat \ {0}
    /\ 0 \in 0 .. Len(Files) /\ 1 \in 1 .. Len(Files)
  BY DEF Versions

LEMMA FilesAre ==
    /\ DOMAIN Files = 1 .. Len(Files)
    /\ \A i \in 1 .. Len(Files) : Files[i] \in FileSet
  BY DEF FileSet

LEMMA IdleType == Idle \in Task /\ Over \in Task
  <1>1. << >> \in Seq(Block)
    OBVIOUS
  <1> QED BY <1>1, Arithmetic DEF Idle, Over, Task, Stages

LEMMA FunctionIsSeq ==
    ASSUME NEW S, NEW n \in Nat, NEW s \in [1 .. n -> S]
    PROVE  s \in Seq(S) /\ Len(s) = n
  <1>1. s \in Seq(S)
    BY SeqDef
  <1>2. DOMAIN s = 1 .. n /\ DOMAIN s = 1 .. Len(s) /\ Len(s) \in Nat
    BY <1>1, LenProperties
  <1> QED BY <1>1, <1>2

(* Bodies that are written end to end. *)
Run(v, n) == [i \in 1 .. n |-> <<v, i>>]

LEMMA RunType ==
    ASSUME NEW v \in Versions, NEW n \in Nat
    PROVE  Run(v, n) \in Seq(Block) /\ Len(Run(v, n)) = n
  <1>1. \A i \in 1 .. n : <<v, i>> \in Block
    BY DEF Block
  <1>2. Run(v, n) \in [1 .. n -> Block]
    BY <1>1 DEF Run
  <1> QED BY <1>2, FunctionIsSeq

LEMMA FullIsRun ==
    ASSUME NEW f, NEW v
    PROVE  Full(f, v) = Run(v, Length[f])
  BY DEF Full, Run

(* A write behind the end appends. *)
LEMMA PutAppends ==
    ASSUME NEW s \in Seq(Block), NEW b \in Block
    PROVE  Put(s, Len(s) + 1, b) = Append(s, b)
  <1>1. Len(s) \in Nat /\ Len(s) + 1 > Len(s)
    BY LenProperties
  <1>2. Put(s, Len(s) + 1, b) =
           [j \in 1 .. Len(s) + 1 |-> IF j = Len(s) + 1 THEN b ELSE s[j]]
    BY <1>1 DEF Put
  <1> DEFINE e(j) == IF j = Len(s) + 1 THEN b ELSE s[j]
             new == [j \in 1 .. Len(s) + 1 |-> e(j)]
  <1>3. new \in [1 .. Len(s) + 1 -> Block]
    <2>1. \A j \in 1 .. Len(s) + 1 : e(j) \in Block
      <3> TAKE j \in 1 .. Len(s) + 1
      <3>1. CASE j = Len(s) + 1
        BY <3>1
      <3>2. CASE j # Len(s) + 1
        <4>1. j \in 1 .. Len(s)
          BY <1>1, <3>2
        <4> QED BY <3>2, <4>1, ElementOfSeq
      <3> QED BY <3>1, <3>2
    <2> QED BY <2>1
  <1>4. new \in Seq(Block) /\ Len(new) = Len(s) + 1
    BY <1>1, <1>3, FunctionIsSeq
  <1>5. /\ Append(s, b) \in Seq(Block) /\ Len(Append(s, b)) = Len(s) + 1
        /\ \A j \in 1 .. Len(s) : Append(s, b)[j] = s[j]
        /\ Append(s, b)[Len(s) + 1] = b
    BY AppendProperties
  <1>6. \A j \in 1 .. Len(new) : new[j] = Append(s, b)[j]
    <2> TAKE j \in 1 .. Len(new)
    <2>1. j \in 1 .. Len(s) + 1 /\ new[j] = e(j)
      BY <1>4
    <2>2. j = Len(s) + 1 \/ j \in 1 .. Len(s)
      BY <1>1, <2>1
    <2>3. j \in 1 .. Len(s) => j # Len(s) + 1
      BY <1>1
    <2> QED BY <1>5, <2>1, <2>2, <2>3
  <1>7. new = Append(s, b)
    <2> HIDE DEF new
    <2> QED BY <1>4, <1>5, <1>6, SeqEqual
  <1> QED BY <1>2, <1>7

LEMMA PutType ==
    ASSUME NEW s \in Seq(Block), NEW i \in Nat \ {0}, NEW b \in Block
    PROVE  Put(s, i, b) \in Seq(Block)
  <1> DEFINE n == IF i > Len(s) THEN i ELSE Len(s)
  <1>1. Len(s) \in Nat /\ n \in Nat
    BY LenProperties
  <1>2. Hole \in Block
    BY Arithmetic DEF Hole, Block
  <1>3. \A j \in 1 .. Len(s) : s[j] \in Block
    BY ElementOfSeq
  <1>4. \A j \in 1 .. n : (IF j = i THEN b ELSE IF j <= Len(s) THEN s[j] ELSE Hole) \in Block
    BY <1>1, <1>2, <1>3
  <1>5. Put(s, i, b) \in [1 .. n -> Block]
    BY <1>4 DEF Put
  <1> QED BY <1>1, <1>5, FunctionIsSeq

LEMMA RunGrows ==
    ASSUME NEW v \in Versions, NEW n \in Nat
    PROVE  Put(Run(v, n), n + 1, <<v, n + 1>>) = Run(v, n + 1)
  <1>1. Len(Run(v, n)) = n
    BY RunType
  <1>2. \A j \in 1 .. n + 1 : j # n + 1 => j \in 1 .. n
    OBVIOUS
  <1> QED BY <1>1, <1>2 DEF Run, Put

-----------------------------------------------------------------------------
(* Types, with the place of a pull in its work.                                *)

Before == {"inspecting", "sizing", "fetching", "hashing", "opening"}

(* Where pull t is: at a file of the repository, and once the .part is open at *)
(* an inode of that file; what it knows of upstream was there once.            *)
Placed(t) ==
    /\ t.at = "idle" => t.nth = 0
    /\ t.at \notin {"idle", "over"} => t.nth \in 1 .. Len(Files)
    /\ t.at \in {"reading", "writing"} => t.inode # None /\ t.inode[2] = Files[t.nth]
    /\ t.at \notin {"idle", "inspecting", "over"} => t.promised \in 1 .. upstream
    /\ t.at \in {"hashing", "opening", "reading", "writing"} => t.streamed \in 1 .. upstream

Sound == TypeOK /\ upstream <= events + 1 /\ \A p \in Pulls : Placed(task[p])

(* A pull at work has a file, with a .part or none. *)
LEMMA AtAFile ==
    ASSUME Sound, NEW p \in Pulls, Working(p)
    PROVE  /\ FileOf(p) \in FileSet /\ task[p].nth \in 1 .. Len(Files)
           /\ PartOf(p) \in Inodes \cup {None}
           /\ PartOf(p) # None => content[PartOf(p)] \in Seq(Block)
           /\ Length[FileOf(p)] \in Nat \ {0}
  <1>1. task[p].nth \in 1 .. Len(Files)
    BY DEF Sound, Placed, Working
  <1>2. FileOf(p) \in FileSet
    BY <1>1, FilesAre DEF FileOf
  <1>3. PartOf(p) \in Inodes \cup {None}
    BY <1>2 DEF PartOf, Sound, TypeOK
  <1> QED BY <1>1, <1>2, <1>3 DEF Sound, TypeOK

(* One pull goes on and the others stay. *)
LEMMA Change ==
    ASSUME TypeOK, NEW p \in Pulls, NEW t, Goes(p, t)
    PROVE  /\ task'[p] = t /\ \A q \in Pulls \ {p} : task'[q] = task[q]
           /\ t \in Task => task' \in [Pulls -> Task]
  BY DEF TypeOK, Goes

(* Of an end: what is told is told, and the pull does nothing more. *)
LEMMA EndsType ==
    ASSUME TypeOK, NEW p \in Pulls, NEW outcome \in {"completed", "failed"},
           Ends(p, outcome)
    PROVE  /\ task' \in [Pulls -> Task] /\ task'[p] = Over
           /\ \A q \in Pulls \ {p} : task'[q] = task[q]
           /\ status' \in [Pulls -> {"none", "running", "completed", "cancelled", "failed"}]
           /\ active' \in Pulls \cup {None}
           /\ sha' = sha /\ upstream' = upstream /\ events' = events /\ raced' = raced
  <1>1. Goes(p, Over) /\ Over \in Task
    BY IdleType DEF Ends
  <1>2. Outcome(p, outcome) \in {"completed", "cancelled", "failed"}
    BY DEF Outcome
  <1>3. status' \in [Pulls -> {"none", "running", "completed", "cancelled", "failed"}]
    BY <1>2 DEF Ends, TypeOK
  <1>4. active' \in Pulls \cup {None}
    BY DEF Ends, ActiveAfter, TypeOK
  <1> QED BY <1>1, <1>3, <1>4, Change DEF Ends, world

(* The stages in which a pull works and leaves the disk as it is. *)
Quiet(p) ==
    \/ Inspected(p) \/ Sized(p) \/ RangeUnsatisfiable(p) \/ Responds(p)
    \/ HashesPart(p) \/ Reads(p) \/ ReadsAll(p) \/ Verifies(p)

LEMMA QuietType ==
    ASSUME Sound, NEW p \in Pulls, Quiet(p)
    PROVE  /\ UNCHANGED <<disk, told, world, raced>>
           /\ Working(p) /\ task' \in [Pulls -> Task]
           /\ \A q \in Pulls \ {p} : task'[q] = task[q]
           /\ task'[p].nth = task[p].nth /\ task'[p].route = task[p].route
           /\ task'[p].aborted = task[p].aborted
           /\ task'[p].at \notin {"idle", "over"}
           /\ task'[p].at \in Before => task[p].at \in Before
           /\ task[p].at # "inspecting" => task'[p].promised = task[p].promised
           /\ task'[p].at # "inspecting" /\ Placed(task'[p])
  <1> DEFINE t == task[p]
             Good(u) == /\ Working(p) /\ u \in Task /\ Placed(u)
                        /\ u.nth = t.nth /\ u.route = t.route /\ u.aborted = t.aborted
                        /\ u.at \notin {"idle", "over", "inspecting"}
                        /\ u.at \in Before => t.at \in Before
                        /\ t.at # "inspecting" => u.promised = t.promised
  <1>1. t \in Task /\ upstream \in 1 .. Events + 1 /\ Placed(t)
    BY DEF Sound, TypeOK
  <1>2. upstream \in Versions /\ 1 .. upstream \subseteq Versions /\ upstream \in 1 .. upstream
    BY <1>1 DEF Versions
  <1>3. UNCHANGED <<disk, told, world, raced>>
    BY DEF Quiet, Inspected, Sized, RangeUnsatisfiable, Responds, HashesPart, Reads,
           ReadsAll, Verifies, Continues
  <1>4. upstream' = upstream
    BY <1>3 DEF world
  <1>5. Working(p) => /\ PartOf(p) # None => content[PartOf(p)] \in Seq(Block)
                      /\ t.nth \in 1 .. Len(Files)
    BY AtAFile
  <1>6. ASSUME Inspected(p)
         PROVE  \E u : Goes(p, u) /\ Good(u)
    <2>1. Goes(p, [t EXCEPT !.at = "sizing", !.promised = upstream]) /\ t.at = "inspecting"
      BY <1>6 DEF Inspected, Proceeds, At
    <2>2. Good([t EXCEPT !.at = "sizing", !.promised = upstream])
      BY <1>1, <1>2, <1>4, <2>1
         DEF Task, Stages, Working, Before, Placed
    <2> QED BY <2>1, <2>2
  <1>7. ASSUME Sized(p)
         PROVE  \E u : Goes(p, u) /\ Good(u)
    <2> DEFINE n == IF PartOf(p) = None THEN 0 ELSE Len(content[PartOf(p)])
    <2>1. Goes(p, [t EXCEPT !.at = "fetching", !.from = n]) /\ t.at = "sizing"
      BY <1>7 DEF Sized, Proceeds, At
    <2>2. n \in Nat
      BY <1>5, <2>1, LenProperties DEF Working
    <2> HIDE DEF n
    <2>3. Good([t EXCEPT !.at = "fetching", !.from = n])
      BY <1>1, <1>2, <1>4, <2>1, <2>2
         DEF Task, Stages, Working, Before, Placed
    <2> QED BY <2>1, <2>3
  <1>8. ASSUME RangeUnsatisfiable(p)
         PROVE  \E u : Goes(p, u) /\ Good(u)
    <2>1. Goes(p, [t EXCEPT !.at = "checking"]) /\ t.at = "fetching"
      BY <1>8 DEF RangeUnsatisfiable, GoesTo, Proceeds, At
    <2>2. Good([t EXCEPT !.at = "checking"])
      BY <1>1, <1>2, <1>4, <2>1
         DEF Task, Stages, Working, Before, Placed
    <2> QED BY <2>1, <2>2
  <1>9. ASSUME Responds(p)
         PROVE  \E u : Goes(p, u) /\ Good(u)
    <2>1. t.at = "fetching"
      BY <1>9 DEF Responds, Proceeds, At
    <2>2. PICK resumed \in BOOLEAN :
             Goes(p, [t EXCEPT !.at = IF resumed /\ sha THEN "hashing" ELSE "opening",
                        !.streamed = upstream, !.resumed = resumed,
                        !.from = 0, !.done = IF resumed THEN t.from ELSE 0])
      BY <1>9 DEF Responds
    <2>3. t.from \in Nat
      BY <1>1 DEF Task
    <2>4. Good([t EXCEPT !.at = IF resumed /\ sha THEN "hashing" ELSE "opening",
                         !.streamed = upstream, !.resumed = resumed,
                         !.from = 0, !.done = IF resumed THEN t.from ELSE 0])
      BY <1>1, <1>2, <1>4, <2>1, <2>2, <2>3, Change
         DEF Sound, Task, Stages, Working, Before, Placed
    <2> QED BY <2>2, <2>4
  <1>10. ASSUME HashesPart(p)
         PROVE  \E u : Goes(p, u) /\ Good(u)
    <2> DEFINE h == content[PartOf(p)]
    <2>1. Goes(p, [t EXCEPT !.at = "opening", !.hash = h]) /\ t.at = "hashing"
          /\ PartOf(p) # None
      BY <1>10 DEF HashesPart, At
    <2>2. h \in Seq(Block)
      BY <1>5, <2>1 DEF Working
    <2> HIDE DEF h
    <2>3. Good([t EXCEPT !.at = "opening", !.hash = h])
      BY <1>1, <1>2, <1>4, <2>1, <2>2
         DEF Task, Stages, Working, Before, Placed
    <2> QED BY <2>1, <2>3
  <1>11. ASSUME Reads(p)
         PROVE  \E u : Goes(p, u) /\ Good(u)
    <2>1. Goes(p, [t EXCEPT !.at = "writing"]) /\ t.at = "reading"
      BY <1>11 DEF Reads, GoesTo, Proceeds, At
    <2>2. Good([t EXCEPT !.at = "writing"])
      BY <1>1, <1>2, <1>4, <2>1
         DEF Task, Stages, Working, Before, Placed
    <2> QED BY <2>1, <2>2
  <1>12. ASSUME ReadsAll(p) \/ Verifies(p)
         PROVE  \E u : Goes(p, u) /\ Good(u)
    <2>1. t.at \in {"reading", "checking"}
          /\ \E stage \in {"renaming", "discarding"} : Goes(p, [t EXCEPT !.at = stage])
      BY <1>12 DEF ReadsAll, Verifies, GoesTo, Proceeds, At
    <2>2. PICK stage \in {"renaming", "discarding"} : Goes(p, [t EXCEPT !.at = stage])
      BY <2>1
    <2>3. Good([t EXCEPT !.at = stage])
      BY <1>1, <1>2, <1>4, <2>1, <2>2
         DEF Task, Stages, Working, Before, Placed
    <2> QED BY <2>2, <2>3
  <1>13. PICK u : Goes(p, u) /\ Good(u)
    BY <1>6, <1>7, <1>8, <1>9, <1>10, <1>11, <1>12 DEF Quiet
  <1>14. task'[p] = u /\ (\A q \in Pulls \ {p} : task'[q] = task[q]) /\ task' \in [Pulls -> Task]
    BY <1>13, Change DEF Sound
  <1> QED BY <1>3, <1>13, <1>14

LEMMA Placements ==
    ASSUME Sound, NEW p \in Pulls, \A q \in Pulls \ {p} : task'[q] = task[q],
           Placed(task'[p]), upstream' = upstream
    PROVE  \A q \in Pulls : Placed(task[q])'
  <1>1. \A q \in Pulls : Placed(task'[q])
    BY DEF Sound
  <1> QED BY <1>1 DEF Placed

LEMMA OverPlaced == Placed(Over) /\ Over.at = "over" /\ Idle.at = "idle"
  BY DEF Over, Idle, Placed

(* Both routes begin alike. *)
LEMMA BeginsType ==
    ASSUME Sound, NEW p \in Pulls, NEW route \in BOOLEAN, Begins(p, route)
    PROVE  /\ task' \in [Pulls -> Task] /\ Placed(task'[p])
           /\ \A q \in Pulls \ {p} : task'[q] = task[q]
           /\ task'[p].at = "inspecting" /\ task'[p].nth = 1
           /\ task'[p].route = route /\ ~task'[p].aborted /\ task'[p].hash = << >>
           /\ raced' = (raced \/ removing \/ \E q \in Pulls : Working(q))
  <1> DEFINE u == [Idle EXCEPT !.at = "inspecting", !.route = route, !.nth = 1]
  <1>1. Goes(p, u)
    BY DEF Begins
  <1>3. u \in Task
    <2>1. 1 \in 0 .. Len(Files)
      BY Arithmetic
    <2> QED BY <2>1, IdleType DEF Task, Stages
  <1>6. u.at = "inspecting" /\ u.nth = 1 /\ u.route = route
        /\ ~u.aborted /\ u.hash = << >>
    BY DEF Idle
  <1>4. Placed(u)
    BY <1>6, Arithmetic DEF Placed
  <1> HIDE DEF u
  <1>5. task'[p] = u /\ task' \in [Pulls -> Task] /\ \A q \in Pulls \ {p} : task'[q] = task[q]
    BY <1>1, <1>3, Change DEF Sound
  <1> QED BY <1>6, <1>4, <1>5 DEF Begins

(* A pull either begins or is told that there is nothing to do. *)
LEMMA PullType ==
    ASSUME Sound, NEW p \in Pulls, Pull(p)
    PROVE  /\ UNCHANGED <<disk, world>> /\ At(p, "idle")
           /\ \/ /\ status' = [status EXCEPT ![p] = "completed"]
                 /\ Goes(p, Over) /\ UNCHANGED <<active, raced>>
              \/ /\ status' = [status EXCEPT ![p] = "running"]
                 /\ active' = p /\ Begins(p, TRUE)
           /\ active # None => status[active] # "running"
  BY DEF Pull

(* The inode a pull opens, and whether it was there. *)
Opened(p) == IF PartOf(p) = None THEN <<p, FileOf(p)>> ELSE PartOf(p)

(* The opened .part is one of the file's own, and new if there was none. *)
LEMMA OpensType ==
    ASSUME Sound, NEW p \in Pulls, Opens(p),
           \A g \in FileSet : part[g] # None => part[g][2] = g
    PROVE  /\ At(p, "opening") /\ FileOf(p) \in FileSet
           /\ Opened(p) \in Inodes /\ Opened(p)[2] = FileOf(p)
           /\ part' = [part EXCEPT ![FileOf(p)] = Opened(p)]
           /\ content' = IF task[p].resumed THEN content
                         ELSE [content EXCEPT ![Opened(p)] = << >>]
           /\ UNCHANGED <<target, removing, told, world, raced>>
           /\ task' \in [Pulls -> Task] /\ Placed(task'[p])
           /\ task'[p] = [task[p] EXCEPT !.at = "reading", !.inode = Opened(p)]
           /\ \A q \in Pulls \ {p} : task'[q] = task[q]
  <1> DEFINE u == [task[p] EXCEPT !.at = "reading", !.inode = Opened(p)]
  <1>1. At(p, "opening") /\ Working(p)
    BY DEF Opens, At, Working
  <1>2. FileOf(p) \in FileSet /\ PartOf(p) \in Inodes \cup {None} /\ task[p].nth \in 1 .. Len(Files)
    BY <1>1, AtAFile
  <1>3. Opened(p) \in Inodes /\ Opened(p)[2] = FileOf(p)
    BY <1>2 DEF Inodes, Opened, PartOf
  <1>4. Goes(p, u)
    BY DEF Opens, Opened, PartOf
  <1>5. task[p] \in Task /\ Placed(task[p])
    BY DEF Sound, TypeOK
  <1>6. u \in Task /\ u.at = "reading" /\ u.inode = Opened(p) /\ u.nth = task[p].nth
        /\ u.promised = task[p].promised /\ u.streamed = task[p].streamed
    BY <1>3, <1>5 DEF Task, Stages
  <1>7. Placed(u)
    BY <1>1, <1>2, <1>3, <1>5, <1>6 DEF Placed, At, FileOf
  <1> HIDE DEF u
  <1>8. task'[p] = u /\ task' \in [Pulls -> Task] /\ \A q \in Pulls \ {p} : task'[q] = task[q]
    BY <1>4, <1>6, Change DEF Sound
  <1>9. UNCHANGED <<target, removing, told, world, raced>>
    BY DEF Opens, Continues
  <1>10. /\ part' = [part EXCEPT ![FileOf(p)] = Opened(p)]
         /\ content' = IF task[p].resumed THEN content
                       ELSE [content EXCEPT ![Opened(p)] = << >>]
    BY DEF Opens, Opened, PartOf
  <1> QED BY <1>1, <1>2, <1>3, <1>7, <1>8, <1>9, <1>10 DEF u

(* What a pull writes, where, and what it has hashed then. *)
Written(p) == <<task[p].streamed, task[p].done + 1>>
WritesAt(p) == IF task[p].resumed THEN Len(content[task[p].inode]) + 1 ELSE task[p].done + 1
Hashed(p) == IF sha THEN Append(task[p].hash, Written(p)) ELSE task[p].hash

(* A write changes the one inode the pull has open. *)
LEMMA WritesType ==
    ASSUME Sound, NEW p \in Pulls, Writes(p)
    PROVE  /\ At(p, "writing") /\ task[p].inode \in Inodes /\ Written(p) \in Block
           /\ content[task[p].inode] \in Seq(Block)
           /\ content' = [content EXCEPT ![task[p].inode] =
                             Put(content[task[p].inode], WritesAt(p), Written(p))]
           /\ content' \in [Inodes -> Seq(Block)]
           /\ UNCHANGED <<part, target, removing, told, world, raced>>
           /\ task' \in [Pulls -> Task] /\ Placed(task'[p])
           /\ task'[p] = [task[p] EXCEPT !.at = "reading", !.done = task[p].done + 1,
                                         !.hash = Hashed(p)]
           /\ task'[p].at = "reading" /\ task'[p].nth = task[p].nth
           /\ \A q \in Pulls \ {p} : task'[q] = task[q]
  <1> DEFINE t == task[p]
             u == [t EXCEPT !.at = "reading", !.done = t.done + 1, !.hash = Hashed(p)]
  <1>1. At(p, "writing") /\ Working(p)
    BY DEF Writes, At, Working
  <1>2. t \in Task /\ Placed(t) /\ t.at = "writing"
    BY <1>1 DEF Sound, TypeOK, At
  <1>3. /\ t.inode \in Inodes /\ t.done \in Nat /\ t.hash \in Seq(Block)
        /\ t.streamed \in Versions
    BY <1>2 DEF Task, Placed
  <1>4. content[t.inode] \in Seq(Block)
    BY <1>3 DEF Sound, TypeOK
  <1>5. Written(p) \in Block
    BY <1>3 DEF Block, Written
  <1>6. WritesAt(p) \in Nat \ {0}
    <2>1. Len(content[t.inode]) \in Nat
      BY <1>4, LenProperties
    <2>2. \A n \in Nat : n + 1 \in Nat \ {0}
      OBVIOUS
    <2>3. WritesAt(p) = Len(content[t.inode]) + 1 \/ WritesAt(p) = t.done + 1
      BY DEF WritesAt
    <2> QED BY <1>3, <2>1, <2>2, <2>3
  <1>7. Hashed(p) \in Seq(Block)
    BY <1>3, <1>5, AppendProperties DEF Hashed
  <1>8. Put(content[t.inode], WritesAt(p), Written(p)) \in Seq(Block)
    BY <1>4, <1>5, <1>6, PutType
  <1>9. content' = [content EXCEPT ![t.inode] = Put(content[t.inode], WritesAt(p), Written(p))]
    BY DEF Writes, WritesAt, Written
  <1>10. content' \in [Inodes -> Seq(Block)]
    BY <1>8, <1>9 DEF Sound, TypeOK
  <1>11. Goes(p, u)
    BY DEF Writes, Hashed, Written
  <1>12. u \in Task
    <2>1. t.done + 1 \in Nat
      BY <1>3
    <2> DEFINE n == t.done + 1
    <2> HIDE DEF n
    <2> QED BY <1>2, <1>7, <2>1 DEF Task, Stages, n
  <1>13. u.at = "reading" /\ u.inode = t.inode /\ u.nth = t.nth
         /\ u.promised = t.promised /\ u.streamed = t.streamed
    BY <1>2 DEF Task
  <1>14. Placed(u)
    BY <1>2, <1>13 DEF Placed
  <1> HIDE DEF u
  <1>15. task'[p] = u /\ task' \in [Pulls -> Task]
         /\ \A q \in Pulls \ {p} : task'[q] = task[q]
    BY <1>11, <1>12, Change DEF Sound
  <1>16. UNCHANGED <<part, target, removing, told, world, raced>>
    BY DEF Writes, Continues
  <1> QED BY <1>1, <1>3, <1>4, <1>5, <1>9, <1>10, <1>13, <1>14, <1>15, <1>16 DEF u

(* After a file has been published its pull ends or goes to the next one. *)
LEMMA RenamesType ==
    ASSUME Sound, NEW p \in Pulls, Renames(p), NEW f, f = FileOf(p)
    PROVE  /\ At(p, "renaming") /\ f \in FileSet /\ part[f] \in Inodes
           /\ target' = [target EXCEPT ![f] = part[f]]
           /\ part' = [part EXCEPT ![f] = None]
           /\ UNCHANGED <<content, removing, world, raced>>
           /\ task' \in [Pulls -> Task] /\ Placed(task'[p])
           /\ \A q \in Pulls \ {p} : task'[q] = task[q]
           /\ \/ Ends(p, "completed") /\ task'[p] = Over
              \/ /\ UNCHANGED told
                 /\ task'[p].at = "sizing" /\ task'[p].nth = task[p].nth + 1
                 /\ task'[p].promised = task[p].promised
                 /\ task'[p].route = task[p].route
                 /\ task'[p].aborted = task[p].aborted
                 /\ task'[p].hash = << >>
  <1> DEFINE t == task[p]
             u == [Idle EXCEPT !.at = "sizing", !.route = t.route, !.nth = t.nth + 1,
                               !.aborted = t.aborted, !.promised = t.promised]
  <1>1. At(p, "renaming") /\ Working(p)
    BY DEF Renames, At, Working
  <1>2. f \in FileSet /\ part[f] \in Inodes /\ t.nth \in 1 .. Len(Files)
    BY <1>1, AtAFile DEF PartOf, Renames
  <1>3. /\ target' = [target EXCEPT ![f] = part[f]]
        /\ part' = [part EXCEPT ![f] = None]
        /\ UNCHANGED <<content, removing, world, raced>>
    BY DEF Renames, Ends, Continues
  <1>4. CASE Ends(p, "completed")
    BY <1>1, <1>2, <1>3, <1>4, EndsType, OverPlaced DEF Sound
  <1>5. CASE Goes(p, u) /\ Continues /\ t.nth # Len(Files)
    <2>1. t \in Task /\ Placed(t) /\ t.at = "renaming"
      BY <1>1 DEF Sound, TypeOK, At
    <2>2. t.nth + 1 \in 1 .. Len(Files)
      BY <1>2, <1>5, Arithmetic
    <2>4. u \in Task
      <3>1. t.route \in BOOLEAN /\ t.aborted \in BOOLEAN /\ t.promised \in Versions
            /\ t.nth + 1 \in 0 .. Len(Files)
        BY <2>1, <2>2 DEF Task
      <3> DEFINE n == t.nth + 1
      <3> HIDE DEF n
      <3> QED BY <3>1, IdleType DEF Task, Stages, n
    <2>7. u.at = "sizing" /\ u.nth = t.nth + 1 /\ u.promised = t.promised
          /\ u.route = t.route /\ u.aborted = t.aborted /\ u.hash = << >>
      BY DEF Idle
    <2>5. Placed(u)
      BY <2>1, <2>2, <2>7 DEF Placed
    <2> HIDE DEF u
    <2>6. task'[p] = u /\ task' \in [Pulls -> Task]
          /\ \A q \in Pulls \ {p} : task'[q] = task[q]
      BY <1>5, <2>4, Change DEF Sound
    <2> QED BY <1>1, <1>2, <1>3, <1>5, <2>5, <2>6, <2>7 DEF Continues
  <1>6. Ends(p, "completed") \/ (Goes(p, u) /\ Continues /\ t.nth # Len(Files))
    BY DEF Renames
  <1> QED BY <1>4, <1>5, <1>6

-----------------------------------------------------------------------------
(* Whose inode is whose: the inodes of a file's names are the file's, its .part *)
(* is none it is published under, and an inode is named by nothing before its   *)
(* pull opens it.                                                              *)

Unopened(t, i) ==
    t.at # "over" /\ (i > t.nth \/ (i = t.nth /\ t.at \in Before))

Named ==
    \A f \in FileSet : /\ part[f] # None => part[f][2] = f /\ part[f] # target[f]
                       /\ target[f] # None => target[f][2] = f

Unnamed ==
    \A p \in Pulls : \A i \in 1 .. Len(Files) :
        Unopened(task[p], i) => <<p, Files[i]>> \notin {part[Files[i]], target[Files[i]]}

Base == Sound /\ Named /\ Unnamed

(* The steps by what they do to the disk. *)
LEMMA NextCases ==
    ASSUME [Next]_vars
    PROVE  \/ \E p \in Pulls : \/ Pull(p) \/ PullUnlisted(p) \/ Cancel(p)
                               \/ Fails(p) \/ Vanished(p) \/ Quiet(p)
                               \/ Opens(p) \/ Writes(p) \/ Discards(p) \/ Renames(p)
           \/ Remove \/ RemoveDirectory \/ Crash \/ Update \/ UNCHANGED vars
  BY DEF Next, Step, Quiet

(* Nothing is unopened that was not. *)
LEMMA FreshStays ==
    ASSUME Unnamed,
           \A p \in Pulls : \A i \in 1 .. Len(Files) :
               Unopened(task'[p], i) =>
                  /\ Unopened(task[p], i)
                  /\ part'[Files[i]] \in {part[Files[i]], target[Files[i]], None}
                  /\ target'[Files[i]] \in {part[Files[i]], target[Files[i]], None}
    PROVE  Unnamed'
  <1> SUFFICES ASSUME NEW p \in Pulls, NEW i \in 1 .. Len(Files), Unopened(task'[p], i)
               PROVE  <<p, Files[i]>> \notin {part'[Files[i]], target'[Files[i]]}
    BY DEF Unnamed, Unopened
  <1>1. <<p, Files[i]>> # None
    BY FilesAre DEF Inodes
  <1> QED BY <1>1 DEF Unnamed

(* One pull goes on, none of its files becomes unopened. *)
LEMMA UnopenedStays ==
    ASSUME Sound, NEW p \in Pulls, \A q \in Pulls \ {p} : task'[q] = task[q],
           \/ task'[p].at = "over"
           \/ task'[p].nth = task[p].nth /\ task[p].at # "over"
              /\ (task'[p].at \in Before => task[p].at \in Before)
           \/ task'[p].nth = task[p].nth + 1 /\ task[p].at # "over"
    PROVE  \A q \in Pulls : \A i \in 1 .. Len(Files) :
              Unopened(task'[q], i) => Unopened(task[q], i)
  <1> SUFFICES ASSUME NEW i \in 1 .. Len(Files), Unopened(task'[p], i)
               PROVE  Unopened(task[p], i)
    OBVIOUS
  <1>1. task[p].nth \in Nat
    BY Arithmetic DEF Sound, TypeOK, Task
  <1> QED BY <1>1 DEF Unopened

(* A pull that begins has opened nothing yet. *)
LEMMA UnopenedBegins ==
    ASSUME Sound, NEW p \in Pulls, NEW route \in BOOLEAN, At(p, "idle"), Begins(p, route)
    PROVE  \A q \in Pulls : \A i \in 1 .. Len(Files) :
              Unopened(task'[q], i) => Unopened(task[q], i)
  <1>1. task[p].nth = 0
    BY DEF Sound, Placed, At
  <1>2. \A i \in 1 .. Len(Files) : Unopened(task[p], i)
    BY <1>1, Arithmetic DEF Unopened, At
  <1> QED BY <1>2, BeginsType

LEMMA SameDisk ==
    ASSUME Named, Unnamed, part' = part, target' = target,
           \A p \in Pulls : \A i \in 1 .. Len(Files) :
               Unopened(task'[p], i) => Unopened(task[p], i)
    PROVE  Named' /\ Unnamed'
  <1>1. Named'
    BY DEF Named
  <1> QED BY <1>1, FreshStays

LEMMA SameTypes ==
    ASSUME TypeOK, UNCHANGED <<disk, world>>, raced' \in BOOLEAN,
           task' \in [Pulls -> Task],
           status' \in [Pulls -> {"none", "running", "completed", "cancelled", "failed"}],
           active' \in Pulls \cup {None}
    PROVE  TypeOK'
  BY DEF TypeOK, disk, world

LEMMA BaseInit == ASSUME Init PROVE Base
  <1>1. Idle \in Task /\ Placed(Idle)
    BY IdleType DEF Placed, Idle
  <1>2. << >> \in Seq(Block)
    BY EmptySeq
  <1>3. TypeOK
    <2>1. content \in [Inodes -> Seq(Block)]
      BY <1>2 DEF Init
    <2>2. /\ part \in [FileSet -> Inodes \cup {None}]
          /\ target \in [FileSet -> Inodes \cup {None}]
      BY DEF Init
    <2>3. task \in [Pulls -> Task]
      <3> HIDE DEF Task
      <3> QED BY <1>1 DEF Init
    <2>4. /\ status \in [Pulls -> {"none", "running", "completed", "cancelled", "failed"}]
          /\ active \in Pulls \cup {None}
          /\ removing \in BOOLEAN /\ sha \in BOOLEAN /\ raced \in BOOLEAN
      BY DEF Init
    <2>5. upstream \in 1 .. Events + 1 /\ events \in 0 .. Events
      BY DEF Init
    <2> QED BY <2>1, <2>2, <2>3, <2>4, <2>5 DEF TypeOK
  <1>4. Sound
    BY <1>1, <1>3 DEF Init, Sound
  <1>5. Named
    BY DEF Init, Named
  <1>6. Unnamed
    <2> SUFFICES ASSUME NEW p \in Pulls, NEW i \in 1 .. Len(Files)
                 PROVE  <<p, Files[i]>> \notin {part[Files[i]], target[Files[i]]}
      BY DEF Unnamed
    <2>1. <<p, Files[i]>> \in Inodes /\ Files[i] \in FileSet
      BY FilesAre DEF Inodes
    <2> QED BY <2>1 DEF Init
  <1> QED BY <1>4, <1>5, <1>6 DEF Base

LEMMA BaseStep == ASSUME Base, [Next]_vars PROVE Base'
  <1> USE DEF Base
  <1>1. ASSUME NEW p \in Pulls, Pull(p)
        PROVE  Base'
    <2>1. UNCHANGED <<disk, world>> /\ At(p, "idle")
      BY <1>1, PullType
    <2>2. CASE /\ status' = [status EXCEPT ![p] = "completed"]
               /\ Goes(p, Over) /\ UNCHANGED <<active, raced>>
      <3>1. task'[p] = Over /\ task' \in [Pulls -> Task]
            /\ \A q \in Pulls \ {p} : task'[q] = task[q]
        BY <2>2, Change, IdleType DEF Sound
      <3>2. TypeOK'
        BY <2>1, <2>2, <3>1, SameTypes DEF Sound, TypeOK
      <3>3. Sound'
        BY <2>1, <3>1, <3>2, OverPlaced, Placements DEF Sound, world
      <3> QED BY <2>1, <3>1, <3>3, OverPlaced, UnopenedStays, SameDisk DEF disk
    <2>3. CASE /\ status' = [status EXCEPT ![p] = "running"]
               /\ active' = p /\ Begins(p, TRUE)
      <3>1. TypeOK'
        BY <2>1, <2>3, BeginsType, SameTypes DEF Sound, TypeOK
      <3>2. Sound'
        BY <2>1, <2>3, <3>1, BeginsType, Placements DEF Sound, world
      <3> QED BY <2>1, <2>3, <3>2, UnopenedBegins, SameDisk DEF disk
    <2> QED BY <1>1, <2>2, <2>3, PullType
  <1>2. ASSUME NEW p \in Pulls, PullUnlisted(p)
        PROVE  Base'
    <2>1. UNCHANGED <<disk, told, world>> /\ At(p, "idle") /\ Begins(p, FALSE)
      BY <1>2 DEF PullUnlisted
    <2>2. TypeOK'
      BY <2>1, BeginsType, SameTypes DEF Sound, TypeOK, told
    <2>3. Sound'
      BY <2>1, <2>2, BeginsType, Placements DEF Sound, world
    <2> QED BY <2>1, <2>3, UnopenedBegins, SameDisk DEF disk
  <1>3. ASSUME NEW p \in Pulls, Cancel(p)
        PROVE  Base'
    <2>1. /\ status' = [status EXCEPT ![p] = "cancelled"]
          /\ task' \in {task, [task EXCEPT ![p].aborted = TRUE]}
          /\ UNCHANGED <<disk, active, world, raced>>
      BY <1>3 DEF Cancel
    <2>2. task[p] \in Task
      BY DEF Sound, TypeOK
    <2>3. [task[p] EXCEPT !.aborted = TRUE] \in Task
      BY <2>2 DEF Task
    <2>4. /\ task'[p] \in {task[p], [task[p] EXCEPT !.aborted = TRUE]}
          /\ task' \in [Pulls -> Task] /\ \A q \in Pulls \ {p} : task'[q] = task[q]
      <3> DEFINE u == [task[p] EXCEPT !.aborted = TRUE]
      <3>1. task' = task \/ task' = [task EXCEPT ![p] = u]
        BY <2>1
      <3>3. u \in Task
        BY <2>3
      <3> HIDE DEF u
      <3>2. /\ task'[p] \in {task[p], u}
            /\ task' \in [Pulls -> Task] /\ \A q \in Pulls \ {p} : task'[q] = task[q]
        <4>1. task \in [Pulls -> Task]
          BY DEF Sound, TypeOK
        <4> QED BY <3>1, <3>3, <4>1
      <3> QED BY <3>2 DEF u
    <2>5. Placed(task'[p]) /\ task'[p].nth = task[p].nth /\ task'[p].at = task[p].at
      BY <2>2, <2>4 DEF Sound, Placed, Task
    <2>6. TypeOK'
      BY <2>1, <2>4, SameTypes DEF Sound, TypeOK
    <2>7. Sound'
      BY <2>1, <2>4, <2>5, <2>6, Placements DEF Sound, world
    <2> QED BY <2>1, <2>4, <2>5, <2>7, UnopenedStays, SameDisk DEF disk
  <1>4. ASSUME NEW p \in Pulls, Fails(p) \/ Vanished(p)
        PROVE  Base'
    <2>1. Ends(p, "failed") /\ UNCHANGED disk
      BY <1>4 DEF Fails, Vanished
    <2>2. TypeOK'
      BY <2>1, EndsType, SameTypes DEF Sound, TypeOK, world
    <2>3. Sound'
      BY <2>1, <2>2, EndsType, OverPlaced, Placements DEF Sound
    <2> QED BY <2>1, <2>3, EndsType, OverPlaced, UnopenedStays, SameDisk DEF disk, Sound
  <1>5. ASSUME NEW p \in Pulls, Quiet(p)
        PROVE  Base'
    <2>1. TypeOK'
      BY <1>5, QuietType, SameTypes DEF Sound, TypeOK, told
    <2>2. Sound'
      BY <1>5, <2>1, QuietType, Placements DEF Sound, world
    <2> QED BY <1>5, <2>2, QuietType, UnopenedStays, SameDisk DEF disk, Working
  <1>6. ASSUME NEW p \in Pulls, Opens(p)
        PROVE  Base'
    <2> DEFINE f == FileOf(p)
               inode == Opened(p)
    <2>1. /\ At(p, "opening") /\ f \in FileSet /\ inode \in Inodes /\ inode[2] = f
          /\ part' = [part EXCEPT ![f] = inode]
          /\ content' = IF task[p].resumed THEN content
                        ELSE [content EXCEPT ![inode] = << >>]
          /\ UNCHANGED <<target, removing, told, world, raced>>
          /\ task' \in [Pulls -> Task] /\ Placed(task'[p])
          /\ task'[p] = [task[p] EXCEPT !.at = "reading", !.inode = inode]
          /\ \A q \in Pulls \ {p} : task'[q] = task[q]
      BY <1>6, OpensType DEF Named
    <2>2. << >> \in Seq(Block)
      BY EmptySeq
    <2>3. TypeOK'
      BY <2>1, <2>2 DEF Sound, TypeOK, told, world
    <2>4. Sound'
      BY <2>1, <2>3, Placements DEF Sound, world
    <2>5. task[p].nth \in 1 .. Len(Files) /\ Unopened(task[p], task[p].nth)
      BY <2>1, AtAFile DEF At, Working, Unopened, Before
    <2>6. inode # target[f] /\ inode # None
      <3>1. part[f] = None => inode = <<p, f>>
        BY DEF Opened, PartOf
      <3>2. part[f] # None => inode = part[f]
        BY DEF Opened, PartOf
      <3>3. <<p, f>> # target[f]
        BY <2>5 DEF Unnamed, FileOf
      <3>4. part[f] # None => part[f] # target[f]
        BY <2>1 DEF Named
      <3> HIDE DEF f, inode
      <3> QED BY <2>1, <3>1, <3>2, <3>3, <3>4
    <2>7. Named'
      BY <2>1, <2>6 DEF Named, Sound, TypeOK
    <2>8. task[p] \in Task
      BY DEF Sound, TypeOK
    <2>9. task'[p].at = "reading" /\ task'[p].nth = task[p].nth /\ task[p].at = "opening"
      BY <2>1, <2>8 DEF Task, At
    <2>10. \A q \in Pulls : \A i \in 1 .. Len(Files) :
              Unopened(task'[q], i) => Unopened(task[q], i)
      BY <2>1, <2>9, UnopenedStays DEF Before
    <2>11. Unnamed'
      <3> SUFFICES ASSUME NEW q \in Pulls, NEW i \in 1 .. Len(Files), Unopened(task'[q], i)
                   PROVE  <<q, Files[i]>> \notin {part'[Files[i]], target'[Files[i]]}
        BY DEF Unnamed, Unopened
      <3>1. <<q, Files[i]>> \notin {part[Files[i]], target[Files[i]]} /\ Files[i] \in FileSet
        BY <2>10, FilesAre DEF Unnamed
      <3>2. CASE Files[i] # f
        BY <2>1, <3>1, <3>2 DEF Sound, TypeOK
      <3>3. CASE Files[i] = f /\ part[f] # None
        BY <2>1, <3>1, <3>3 DEF Sound, TypeOK, Opened, PartOf
      <3>4. CASE Files[i] = f /\ part[f] = None
        <4>1. i = task[p].nth
          BY <2>5, <3>4, FilesAre DEF FileOf
        <4>2. q # p
          BY <2>9, <4>1 DEF Unopened, Before
        <4>3. part'[f] = <<p, f>>
          BY <2>1, <3>4 DEF Sound, TypeOK, Opened, PartOf
        <4> QED BY <2>1, <3>1, <3>4, <4>2, <4>3
      <3> QED BY <3>2, <3>3, <3>4
    <2> QED BY <2>4, <2>7, <2>11
  <1>7. ASSUME NEW p \in Pulls, Writes(p)
        PROVE  Base'
    <2>1. /\ At(p, "writing") /\ content' \in [Inodes -> Seq(Block)]
          /\ UNCHANGED <<part, target, removing, told, world, raced>>
          /\ task' \in [Pulls -> Task] /\ Placed(task'[p])
          /\ task'[p].at = "reading" /\ task'[p].nth = task[p].nth
          /\ \A q \in Pulls \ {p} : task'[q] = task[q]
      BY <1>7, WritesType
    <2>2. TypeOK'
      BY <2>1 DEF Sound, TypeOK, told, world
    <2>3. Sound'
      BY <2>1, <2>2, Placements DEF Sound, world
    <2> QED BY <2>1, <2>3, UnopenedStays, SameDisk DEF Before, At
  <1>8. ASSUME NEW p \in Pulls, Discards(p)
        PROVE  Base'
    <2>1. Ends(p, "failed") /\ part' = [part EXCEPT ![FileOf(p)] = None]
          /\ UNCHANGED <<content, target, removing>>
      BY <1>8 DEF Discards
    <2>2. TypeOK'
      BY <2>1, EndsType DEF Sound, TypeOK
    <2>3. Sound'
      BY <2>1, <2>2, EndsType, OverPlaced, Placements DEF Sound
    <2>4. \A g \in FileSet : part'[g] \in {part[g], None} /\ target'[g] = target[g]
      BY <2>1 DEF Sound, TypeOK
    <2>5. Named'
      BY <2>4 DEF Named
    <2>6. \A q \in Pulls : \A i \in 1 .. Len(Files) :
             Unopened(task'[q], i) => Unopened(task[q], i)
      BY <2>1, EndsType, OverPlaced, UnopenedStays DEF Sound
    <2>7. Unnamed'
      BY <2>4, <2>6, FilesAre, FreshStays
    <2> QED BY <2>3, <2>5, <2>7
  <1>9. ASSUME NEW p \in Pulls, Renames(p)
        PROVE  Base'
    <2> DEFINE f == FileOf(p)
    <2>1. /\ At(p, "renaming") /\ f \in FileSet /\ part[f] \in Inodes
          /\ target' = [target EXCEPT ![f] = part[f]]
          /\ part' = [part EXCEPT ![f] = None]
          /\ UNCHANGED <<content, removing, world, raced>>
          /\ task' \in [Pulls -> Task] /\ Placed(task'[p])
          /\ \A q \in Pulls \ {p} : task'[q] = task[q]
          /\ \/ Ends(p, "completed") /\ task'[p] = Over
             \/ UNCHANGED told /\ task'[p].nth = task[p].nth + 1
      BY <1>9, RenamesType
    <2>2. TypeOK'
      BY <2>1, EndsType DEF Sound, TypeOK, told, world
    <2>3. Sound'
      BY <2>1, <2>2, Placements DEF Sound, world
    <2>4. \A g \in FileSet : /\ part'[g] \in {part[g], None}
                             /\ target'[g] = IF g = f THEN part[g] ELSE target[g]
                             /\ g = f => part'[g] = None
                             /\ g # f => part'[g] = part[g]
      BY <2>1 DEF Sound, TypeOK
    <2>5. part[f] # None
      BY <2>1
    <2>6. Named'
      BY <2>4, <2>5 DEF Named
    <2>7. \A q \in Pulls : \A i \in 1 .. Len(Files) :
             Unopened(task'[q], i) => Unopened(task[q], i)
      BY <2>1, OverPlaced, UnopenedStays DEF At
    <2>8. Unnamed'
      BY <2>4, <2>7, FilesAre, FreshStays
    <2> QED BY <2>3, <2>6, <2>8
  <1>10. ASSUME Remove \/ RemoveDirectory
         PROVE  Base'
    <2>1. /\ UNCHANGED <<content, task, told, sha, upstream>>
          /\ removing' \in BOOLEAN /\ raced' \in BOOLEAN
          /\ events' \in 0 .. Events /\ events <= events'
          /\ part' \in [FileSet -> Inodes \cup {None}]
          /\ target' \in [FileSet -> Inodes \cup {None}]
          /\ \A f \in FileSet : part'[f] \in {part[f], None} /\ target'[f] \in {target[f], None}
          /\ part' = part \/ target' = target
          /\ part' = part => target' = target \/ \A f \in FileSet : target'[f] = None
      <3>1. CASE Remove
        BY <3>1 DEF Remove, Happens, Sound, TypeOK
      <3>2. CASE RemoveDirectory
        <4>1. /\ UNCHANGED <<content, target, task, told, sha, upstream, events, raced>>
              /\ removing' = FALSE /\ part' \in {part, [f \in FileSet |-> None]}
          BY <3>2 DEF RemoveDirectory, world
        <4>2. /\ part' \in [FileSet -> Inodes \cup {None}]
              /\ \A f \in FileSet : part'[f] \in {part[f], None}
          BY <4>1 DEF Sound, TypeOK
        <4>3. events \in Int /\ target \in [FileSet -> Inodes \cup {None}]
              /\ events \in 0 .. Events /\ raced \in BOOLEAN
          BY DEF Sound, TypeOK
        <4>4. removing' \in BOOLEAN /\ raced' \in BOOLEAN
          BY <4>1, <4>3
        <4>5. /\ events' \in 0 .. Events /\ events <= events'
              /\ target' \in [FileSet -> Inodes \cup {None}]
          BY <4>1, <4>3
        <4> QED BY <4>1, <4>2, <4>4, <4>5
      <3> QED BY <1>10, <3>1, <3>2
    <2>5. TypeOK'
      BY <2>1 DEF Sound, TypeOK, told
    <2>6. \A p \in Pulls : Placed(task[p])'
      BY <2>1 DEF Sound, Placed
    <2>7. upstream' <= events' + 1
      <3>1. upstream \in Int /\ events \in Int /\ events' \in Int /\ upstream <= events + 1
        BY <2>1 DEF Sound, TypeOK
      <3>2. upstream' = upstream /\ events <= events'
        BY <2>1
      <3> QED BY <3>1, <3>2, AtMostLater
    <2>2. Sound'
      BY <2>5, <2>6, <2>7 DEF Sound
    <2>3. Named'
      BY <2>1 DEF Named
    <2>4. Unnamed'
      BY <2>1, FilesAre, FreshStays
    <2> QED BY <2>2, <2>3, <2>4
  <1>11. CASE Crash
    <2>1. /\ UNCHANGED <<content, part, target, sha, upstream, raced>>
          /\ removing' = FALSE /\ active' = None /\ status' = [p \in Pulls |-> "none"]
          /\ events' \in 0 .. Events /\ events <= events'
          /\ task' = [p \in Pulls |-> IF Working(p) THEN Over ELSE task[p]]
      BY <1>11 DEF Crash, Happens, Sound, TypeOK
    <2>2. task' \in [Pulls -> Task]
      BY <2>1, IdleType DEF Sound, TypeOK
    <2>3. \A p \in Pulls : Placed(task'[p]) /\ task'[p] \in {task[p], Over}
      BY <2>1, OverPlaced DEF Sound
    <2>6. TypeOK'
      BY <2>1, <2>2 DEF Sound, TypeOK
    <2>7. \A p \in Pulls : Placed(task[p])'
      BY <2>1, <2>3 DEF Placed
    <2>8. upstream' <= events' + 1
      <3>1. upstream \in Int /\ events \in Int /\ events' \in Int /\ upstream <= events + 1
        BY <2>1 DEF Sound, TypeOK
      <3>2. upstream' = upstream /\ events <= events'
        BY <2>1
      <3> QED BY <3>1, <3>2, AtMostLater
    <2>4. Sound'
      BY <2>6, <2>7, <2>8 DEF Sound
    <2>5. \A q \in Pulls : \A i \in 1 .. Len(Files) :
             Unopened(task'[q], i) => Unopened(task[q], i)
      BY <2>3, OverPlaced DEF Unopened
    <2> QED BY <2>1, <2>4, <2>5, SameDisk
  <1>12. CASE Update
    <2>1. UNCHANGED <<content, part, target, removing, task, status, active, sha, raced>>
          /\ upstream' = upstream + 1 /\ events < Events /\ events' = events + 1
      BY <1>12 DEF Update, Happens, disk, told
    <2>2. TypeOK'
      BY <2>1 DEF Sound, TypeOK
    <2>3. \A p \in Pulls : Placed(task[p])'
      BY <2>1 DEF Sound, TypeOK, Placed
    <2>4. Sound'
      BY <2>1, <2>2, <2>3 DEF Sound, TypeOK
    <2> QED BY <2>1, <2>4, SameDisk
  <1>13. CASE UNCHANGED vars
    BY <1>13 DEF vars, disk, told, world, Sound, TypeOK, Placed, Named, Unnamed
  <1> QED
    BY <1>1, <1>2, <1>3, <1>4, <1>5, <1>6, <1>7, <1>8, <1>9, <1>10, <1>11, <1>12, <1>13,
       NextCases

(* The types hold in every reachable state. *)
THEOREM TypeCorrect == Spec => []TypeOK
  <1>1. Base => TypeOK
    BY DEF Base, Sound
  <1> QED BY <1>1, BaseInit, BaseStep, PTL DEF Spec

-----------------------------------------------------------------------------
(* What is told: a running download is the active one and its task is at work; *)
(* the task of a cancelled one has been aborted.                               *)

Told(p) ==
    LET t == task[p]
    IN  /\ t.at = "idle" => status[p] = "none"
        /\ status[p] = "running" => active = p /\ Working(p) /\ t.route
        /\ Working(p) /\ t.route => status[p] \in {"running", "cancelled"}
        /\ Working(p) /\ t.route /\ status[p] = "cancelled" => t.aborted

Harmless(p) ==
    /\ status[p] \in {"completed", "cancelled", "failed"} => status'[p] \in {status[p], "none"}
    /\ status'[p] = "running" => active' = p

(* A pull that ends. *)
LEMMA EndTold ==
    ASSUME Sound, \A p \in Pulls : Told(p), NEW p \in Pulls, Working(p),
           NEW outcome \in {"completed", "failed"}, Ends(p, outcome)
    PROVE  \A q \in Pulls : Told(q)' /\ Harmless(q)
  <1>1. /\ task'[p] = Over /\ \A q \in Pulls \ {p} : task'[q] = task[q]
    BY EndsType DEF Sound
  <1>2. /\ active = p => active' = None
        /\ active # p => active' = active
    BY DEF Ends, ActiveAfter
  <1>3. status \in [Pulls -> {"none", "running", "completed", "cancelled", "failed"}]
    BY DEF Sound, TypeOK
  <1>4. \A q \in Pulls \ {p} : status'[q] = status[q]
    BY <1>3 DEF Ends
  <1>5. status'[p] = IF task[p].route THEN Outcome(p, outcome) ELSE status[p]
    BY <1>3 DEF Ends
  <1>6. /\ Outcome(p, outcome) \in {"completed", "cancelled", "failed"}
        /\ task[p].route /\ status[p] = "cancelled" => Outcome(p, outcome) = "cancelled"
    BY DEF Outcome, Told
  <1>7. \A q \in Pulls \ {p} : Told(q)' /\ Harmless(q)
    <2> TAKE q \in Pulls \ {p}
    <2>1. status[q] = "running" => active' = q
      BY <1>2 DEF Told
    <2> QED BY <1>1, <1>4, <2>1 DEF Told, Harmless, Working
  <1>8. status'[p] # "running"
    BY <1>5, <1>6 DEF Told
  <1>9. Told(p)'
    BY <1>1, <1>8, OverPlaced DEF Told, Working
  <1>10. Harmless(p)
    BY <1>5, <1>6, <1>8 DEF Told, Harmless
  <1> QED BY <1>7, <1>9, <1>10

(* A pull that goes on, and whatever does not concern the downloads. *)
LEMMA OnwardTold ==
    ASSUME \A p \in Pulls : Told(p), UNCHANGED told,
           \A p \in Pulls :
              \/ task'[p] = task[p]
              \/ /\ Working(p) /\ task'[p].at \notin {"idle", "over"}
                 /\ task'[p].route = task[p].route /\ task'[p].aborted = task[p].aborted
    PROVE  \A p \in Pulls : Told(p)' /\ Harmless(p)
  <1> TAKE p \in Pulls
  <1>1. status' = status /\ active' = active
    BY DEF told
  <1>2. Told(p)'
    BY <1>1 DEF Told, Working
  <1> QED BY <1>1, <1>2 DEF Told, Harmless

LEMMA ToldInit == ASSUME Init PROVE \A p \in Pulls : Told(p)
  BY OverPlaced DEF Init, Told, Working

LEMMA ToldStep ==
    ASSUME Base, \A p \in Pulls : Told(p), [Next]_vars
    PROVE  \A p \in Pulls : Told(p)' /\ Harmless(p)
  <1> DEFINE All == \A p \in Pulls : Told(p)' /\ Harmless(p)
  <1>0. Sound /\ status \in [Pulls -> {"none", "running", "completed", "cancelled", "failed"}]
    BY DEF Base, Sound, TypeOK
  <1>1. ASSUME NEW p \in Pulls, Pull(p)
        PROVE  All
    <2>1. /\ UNCHANGED <<disk, world>> /\ task[p].at = "idle" /\ status[p] = "none"
          /\ \A q \in Pulls : status[q] = "running" => FALSE
      BY <1>0, <1>1, PullType DEF At, Told
    <2>2. CASE /\ status' = [status EXCEPT ![p] = "completed"]
               /\ Goes(p, Over) /\ UNCHANGED <<active, raced>>
      <3>1. task'[p] = Over /\ \A q \in Pulls \ {p} : task'[q] = task[q]
        BY <1>0, <2>2, Change DEF Sound
      <3>2. status'[p] = "completed" /\ \A q \in Pulls \ {p} : status'[q] = status[q]
        BY <1>0, <2>2
      <3> QED BY <2>1, <2>2, <3>1, <3>2, OverPlaced DEF Told, Harmless, Working
    <2>3. CASE /\ status' = [status EXCEPT ![p] = "running"]
               /\ active' = p /\ Begins(p, TRUE)
      <3>1. /\ task'[p].at = "inspecting" /\ task'[p].route
            /\ \A q \in Pulls \ {p} : task'[q] = task[q]
        BY <1>0, <2>3, BeginsType
      <3>2. status'[p] = "running" /\ \A q \in Pulls \ {p} : status'[q] = status[q]
        BY <1>0, <2>3
      <3> QED BY <2>1, <2>3, <3>1, <3>2 DEF Told, Harmless, Working
    <2> QED BY <1>0, <1>1, <2>2, <2>3, PullType
  <1>2. ASSUME NEW p \in Pulls, PullUnlisted(p)
        PROVE  All
    <2>1. UNCHANGED told /\ task[p].at = "idle" /\ Begins(p, FALSE)
      BY <1>2 DEF PullUnlisted, At
    <2>2. /\ task'[p].at = "inspecting" /\ ~task'[p].route
          /\ \A q \in Pulls \ {p} : task'[q] = task[q]
      BY <1>0, <2>1, BeginsType
    <2> QED BY <2>1, <2>2 DEF Told, Harmless, Working, told
  <1>3. ASSUME NEW p \in Pulls, Cancel(p)
        PROVE  All
    <2>1. /\ status[p] = "running" /\ active = p /\ Working(p) /\ task[p].route
          /\ status' = [status EXCEPT ![p] = "cancelled"] /\ active' = active
          /\ task' = [task EXCEPT ![p].aborted = TRUE]
      BY <1>3 DEF Cancel, Told
    <2>2. /\ status'[p] = "cancelled" /\ \A q \in Pulls \ {p} : status'[q] = status[q]
          /\ \A q \in Pulls \ {p} : task'[q] = task[q]
      BY <1>0, <2>1 DEF Sound, TypeOK
    <2>3. task \in [Pulls -> Task] /\ task[p] \in Task
      BY <1>0 DEF Sound, TypeOK
    <2>4. task'[p].at = task[p].at /\ task'[p].route = task[p].route /\ task'[p].aborted
      BY <2>1, <2>3 DEF Task
    <2> QED BY <2>1, <2>2, <2>4 DEF Told, Harmless, Working
  <1>4. ASSUME NEW p \in Pulls, Fails(p) \/ Vanished(p) \/ Discards(p)
        PROVE  All
    <2>1. Ends(p, "failed") /\ Working(p)
      BY <1>4 DEF Fails, Vanished, Discards, Working, At
    <2> QED BY <1>0, <2>1, EndTold
  <1>5. ASSUME NEW p \in Pulls, Quiet(p)
        PROVE  All
    BY <1>0, <1>5, QuietType, OnwardTold
  <1>6. ASSUME NEW p \in Pulls, Opens(p) \/ Writes(p)
        PROVE  All
    <2>1. task[p] \in Task
      BY <1>0 DEF Sound, TypeOK
    <2>2. CASE Opens(p)
      <3>1. /\ UNCHANGED told /\ Working(p) /\ \A q \in Pulls \ {p} : task'[q] = task[q]
            /\ task'[p] = [task[p] EXCEPT !.at = "reading", !.inode = Opened(p)]
        BY <1>0, <2>2, OpensType DEF Base, Named, Working, At
      <3>2. task'[p].at = "reading" /\ task'[p].route = task[p].route
            /\ task'[p].aborted = task[p].aborted
        BY <2>1, <3>1 DEF Task
      <3> QED BY <3>1, <3>2, OnwardTold
    <2>3. CASE Writes(p)
      <3>1. /\ UNCHANGED told /\ Working(p) /\ \A q \in Pulls \ {p} : task'[q] = task[q]
            /\ task'[p] = [task[p] EXCEPT !.at = "reading", !.done = task[p].done + 1,
                                          !.hash = Hashed(p)]
        BY <1>0, <2>3, WritesType DEF Working, At
      <3>2. task'[p].at = "reading" /\ task'[p].route = task[p].route
            /\ task'[p].aborted = task[p].aborted
        BY <2>1, <3>1 DEF Task
      <3> QED BY <3>1, <3>2, OnwardTold
    <2> QED BY <1>6, <2>2, <2>3
  <1>7. ASSUME NEW p \in Pulls, Renames(p)
        PROVE  All
    <2>1. /\ Working(p) /\ \A q \in Pulls \ {p} : task'[q] = task[q]
          /\ \/ Ends(p, "completed")
             \/ /\ UNCHANGED told /\ task'[p].at = "sizing"
                /\ task'[p].route = task[p].route /\ task'[p].aborted = task[p].aborted
      BY <1>0, <1>7, RenamesType DEF Working, At
    <2> QED BY <1>0, <2>1, EndTold, OnwardTold
  <1>8. CASE Remove \/ RemoveDirectory \/ Update \/ UNCHANGED vars
    <2>1. UNCHANGED <<task, told>>
      BY <1>8 DEF Remove, RemoveDirectory, Update, vars
    <2> QED BY <2>1, OnwardTold
  <1>9. CASE Crash
    <2>1. /\ status' = [p \in Pulls |-> "none"]
          /\ task' = [p \in Pulls |-> IF Working(p) THEN Over ELSE task[p]]
      BY <1>9 DEF Crash
    <2> QED BY <2>1, OverPlaced DEF Told, Harmless, Working
  <1> QED
    BY <1>1, <1>2, <1>3, <1>4, <1>5, <1>6, <1>7, <1>8, <1>9, NextCases

(* A download that is over stays what it was told to be, and the one that runs *)
(* is the active one: no late end of an earlier task takes that away.          *)
THEOREM LateEndsAreHarmless == Spec => LateEndsHarmless
  <1> DEFINE I == Base /\ \A p \in Pulls : Told(p)
  <1>1. Init => I
    BY BaseInit, ToldInit
  <1>2. I /\ [Next]_vars => I'
    BY BaseStep, ToldStep
  <1>3. I /\ [Next]_vars =>
           [\A p \in Pulls :
               /\ status[p] \in {"completed", "cancelled", "failed"} =>
                     status'[p] \in {status[p], "none"}
               /\ status'[p] = "running" => active' = p]_vars
    BY ToldStep DEF Harmless
  <1> QED BY <1>1, <1>2, <1>3, PTL DEF Spec, LateEndsHarmless

-----------------------------------------------------------------------------
(* One pull or removal at a time: what the pull at work knows of its file is    *)
(* what the file is.                                                           *)

Sole ==
    /\ \A p, q \in Pulls : Working(p) /\ Working(q) => p = q
    /\ removing => \A p \in Pulls : ~Working(p)

(* The .part is as long as the pull believes, and what it has hashed is what    *)
(* the .part holds.                                                            *)
Size(f) == IF part[f] = None THEN 0 ELSE Len(content[part[f]])

Follows(p) ==
    LET t == task[p]
        f == FileOf(p)
    IN  /\ t.at \in {"inspecting", "sizing", "fetching"} => t.hash = << >>
        /\ t.at \in {"fetching", "checking"} => t.from = Size(f)
        /\ t.at = "checking" => t.from >= Length[f]
        /\ t.at = "hashing" => t.resumed
        /\ t.at \in {"hashing", "opening"} /\ t.resumed => part[f] # None /\ t.done = Size(f)
        /\ t.at \in {"hashing", "opening"} /\ ~t.resumed => t.done = 0
        /\ t.at = "opening" /\ sha /\ t.resumed => t.hash = content[part[f]]
        /\ t.at = "opening" /\ sha /\ ~t.resumed => t.hash = << >>
        /\ t.at \in {"reading", "writing"} => part[f] = t.inode /\ t.done = Len(content[t.inode])
        /\ t.at \in {"reading", "writing"} /\ sha => t.hash = content[t.inode]
        /\ t.at = "writing" => t.done < Length[f]

(* Once raced, always raced. *)
LEMMA RacedStays == ASSUME Base, [Next]_vars, ~raced' PROVE ~raced
  <1>1. \A p \in Pulls : \A outcome \in {"completed", "failed"} :
           Ends(p, outcome) \/ Continues => raced' = raced
    BY DEF Ends, Continues
  <1>2. ASSUME NEW p \in Pulls, Pull(p) \/ PullUnlisted(p) \/ Cancel(p)
        PROVE  ~raced
    BY <1>2 DEF Pull, PullUnlisted, Cancel, Begins
  <1>3. ASSUME NEW p \in Pulls, \/ Fails(p) \/ Vanished(p) \/ Quiet(p)
                                \/ Opens(p) \/ Writes(p) \/ Discards(p) \/ Renames(p)
        PROVE  ~raced
    BY <1>1, <1>3 DEF Fails, Vanished, Quiet, Opens, Writes, Discards, Renames, Inspected,
           Sized, RangeUnsatisfiable, Responds, HashesPart, Reads, ReadsAll, Verifies
  <1>4. CASE Remove \/ RemoveDirectory \/ Crash \/ Update \/ UNCHANGED vars
    BY <1>4 DEF Remove, RemoveDirectory, Crash, Update, vars
  <1> QED BY <1>2, <1>3, <1>4, NextCases

(* What the steps do to who is at work. *)
LEMMA SoleStep ==
    ASSUME Base, Sole, [Next]_vars, ~raced'
    PROVE  Sole'
  <1>0. Sound
    BY DEF Base
  <1>1. ASSUME NEW p \in Pulls, NEW route \in BOOLEAN, Begins(p, route), removing' = removing
        PROVE  Sole'
    <2>1. (\A q \in Pulls : ~Working(q)) /\ ~removing
      BY <1>0, <1>1, BeginsType
    <2>2. \A q \in Pulls \ {p} : ~Working(q)'
      BY <1>0, <1>1, <2>1, BeginsType DEF Working
    <2> QED BY <1>1, <2>1, <2>2 DEF Sole
  <1>2. ASSUME \A q \in Pulls : Working(q)' => Working(q), removing' => removing
        PROVE  Sole'
    BY <1>2 DEF Sole
  <1>3. ASSUME NEW p \in Pulls, Pull(p)
        PROVE  Sole'
    <2>1. removing' = removing
      BY <1>0, <1>3, PullType DEF disk
    <2>2. CASE Begins(p, TRUE)
      BY <1>1, <2>1, <2>2
    <2>3. CASE Goes(p, Over)
      <3>1. task'[p] = Over /\ \A q \in Pulls \ {p} : task'[q] = task[q]
        BY <1>0, <2>3, Change DEF Sound
      <3> QED BY <1>2, <2>1, <3>1, OverPlaced DEF Working
    <2> QED BY <1>0, <1>3, <2>2, <2>3, PullType
  <1>4. ASSUME NEW p \in Pulls, PullUnlisted(p)
        PROVE  Sole'
    BY <1>1, <1>4 DEF PullUnlisted, disk
  <1>5. ASSUME NEW p \in Pulls, Cancel(p)
        PROVE  Sole'
    <2>1. removing' = removing /\ task' \in {task, [task EXCEPT ![p].aborted = TRUE]}
      BY <1>5 DEF Cancel, disk
    <2>2. task \in [Pulls -> Task] /\ task[p] \in Task
      BY <1>0 DEF Sound, TypeOK
    <2>3. \A q \in Pulls : task'[q].at = task[q].at
      <3> DEFINE u == [task[p] EXCEPT !.aborted = TRUE]
      <3>1. u.at = task[p].at
        BY <2>2 DEF Task
      <3>2. task' = task \/ task' = [task EXCEPT ![p] = u]
        BY <2>1
      <3> HIDE DEF u
      <3> QED BY <2>2, <3>1, <3>2
    <2> QED BY <1>2, <2>1, <2>3 DEF Working
  <1>6. ASSUME NEW p \in Pulls, Fails(p) \/ Vanished(p) \/ Discards(p)
        PROVE  Sole'
    <2>1. Ends(p, "failed") /\ removing' = removing
      BY <1>6 DEF Fails, Vanished, Discards, disk
    <2>2. task'[p] = Over /\ \A q \in Pulls \ {p} : task'[q] = task[q]
      BY <1>0, <2>1, EndsType DEF Sound
    <2> QED BY <1>2, <2>1, <2>2, OverPlaced DEF Working
  <1>7. ASSUME NEW p \in Pulls, Quiet(p)
        PROVE  Sole'
    BY <1>0, <1>2, <1>7, QuietType DEF disk, Working
  <1>8. ASSUME NEW p \in Pulls, Opens(p)
        PROVE  Sole'
    BY <1>0, <1>2, <1>8, OpensType DEF Base, Named, Working, At
  <1>9. ASSUME NEW p \in Pulls, Writes(p)
        PROVE  Sole'
    BY <1>0, <1>2, <1>9, WritesType DEF Working, At
  <1>10. ASSUME NEW p \in Pulls, Renames(p)
         PROVE  Sole'
    BY <1>0, <1>2, <1>10, RenamesType DEF Working, At
  <1>11. CASE Remove
    <2>1. task' = task /\ \A p \in Pulls : ~Working(p)
      BY <1>11 DEF Remove
    <2> QED BY <2>1 DEF Sole, Working
  <1>12. CASE RemoveDirectory \/ Update \/ UNCHANGED vars
    <2>1. task' = task /\ (removing' => removing)
      BY <1>12 DEF RemoveDirectory, Update, vars, disk
    <2> QED BY <1>2, <2>1 DEF Working
  <1>13. CASE Crash
    <2>1. \A p \in Pulls : ~Working(p)'
      BY <1>13, OverPlaced DEF Crash, Working
    <2> QED BY <2>1 DEF Sole
  <1> QED
    BY <1>3, <1>4, <1>5, <1>6, <1>7, <1>8, <1>9, <1>10, <1>11, <1>12, <1>13, NextCases

(* The pull at work keeps its file to itself. *)
LEMMA OnlyOne ==
    ASSUME Sole, NEW p \in Pulls, Working(p), \A q \in Pulls \ {p} : task'[q] = task[q]
    PROVE  \A q \in Pulls : Working(q)' => q = p
  BY DEF Sole, Working

LEMMA QuietFollows ==
    ASSUME Sound, NEW p \in Pulls, Quiet(p), Follows(p)
    PROVE  Follows(p)'
  <1> DEFINE t == task[p]
             f == FileOf(p)
  <1>1. /\ UNCHANGED <<content, part, target, sha>>
        /\ task'[p].nth = t.nth /\ FileOf(p)' = f /\ Size(f)' = Size(f)
    BY QuietType DEF disk, world, FileOf, Size
  <1>2. t \in Task /\ f \in FileSet /\ Length[f] \in Nat \ {0}
    BY QuietType, AtAFile DEF Sound, TypeOK
  <1>3. ASSUME NEW u, Goes(p, u)
        PROVE  task'[p] = u
    BY <1>3, Change DEF Sound
  <1>4. Size(f) \in Nat
    <2>1. PartOf(p) # None => content[PartOf(p)] \in Seq(Block)
      BY QuietType, AtAFile
    <2>2. part[f] # None => Len(content[part[f]]) \in Nat
      BY <2>1, LenProperties DEF PartOf
    <2> QED BY <2>2 DEF Size
  <1>5. CASE Inspected(p)
    <2>1. task'[p] = [t EXCEPT !.at = "sizing", !.promised = upstream] /\ t.at = "inspecting"
      BY <1>3, <1>5 DEF Inspected, Proceeds, At
    <2>2. task'[p].at = "sizing" /\ task'[p].hash = t.hash
      BY <1>2, <2>1 DEF Task
    <2> QED BY <2>1, <2>2 DEF Follows
  <1>6. CASE Sized(p)
    <2>1. task'[p] = [t EXCEPT !.at = "fetching", !.from = Size(f)] /\ t.at = "sizing"
      BY <1>3, <1>6 DEF Sized, Proceeds, At, Size, PartOf
    <2>2. task'[p].at = "fetching" /\ task'[p].hash = t.hash /\ task'[p].from = Size(f)
      BY <1>2, <2>1 DEF Task
    <2> QED BY <1>1, <2>1, <2>2 DEF Follows
  <1>7. CASE RangeUnsatisfiable(p)
    <2>1. task'[p] = [t EXCEPT !.at = "checking"] /\ t.at = "fetching" /\ t.from >= Length[f]
      BY <1>3, <1>7 DEF RangeUnsatisfiable, Proceeds, At, GoesTo
    <2>2. task'[p].at = "checking" /\ task'[p].from = t.from
      BY <1>2, <2>1 DEF Task
    <2> QED BY <1>1, <2>1, <2>2 DEF Follows
  <1>8. CASE Responds(p)
    <2>1. PICK resumed \in BOOLEAN :
             /\ resumed => t.from > 0 /\ t.from < Length[f]
             /\ Goes(p, [t EXCEPT !.at = IF resumed /\ sha THEN "hashing" ELSE "opening",
                           !.streamed = upstream, !.resumed = resumed,
                           !.from = 0, !.done = IF resumed THEN t.from ELSE 0])
      BY <1>8 DEF Responds
    <2>2. t.at = "fetching"
      BY <1>8 DEF Responds, Proceeds, At
    <2>3. /\ task'[p].at = IF resumed /\ sha THEN "hashing" ELSE "opening"
          /\ task'[p].resumed = resumed /\ task'[p].hash = t.hash
          /\ task'[p].done = IF resumed THEN t.from ELSE 0
      BY <1>2, <1>3, <2>1 DEF Task
    <2>4. t.from = Size(f) /\ t.hash = << >>
      BY <2>2 DEF Follows
    <2>5. resumed => part[f] # None
      BY <1>2, <2>1, <2>4 DEF Size
    <2>6. sha \in BOOLEAN
      BY DEF Sound, TypeOK
    <2>7. CASE resumed /\ sha
      <3>1. task'[p].at = "hashing" /\ task'[p].resumed /\ task'[p].done = Size(f)
            /\ part[f] # None
        BY <2>3, <2>4, <2>5, <2>7
      <3> QED BY <1>1, <3>1 DEF Follows
    <2>8. CASE resumed /\ ~sha
      <3>1. task'[p].at = "opening" /\ task'[p].resumed /\ task'[p].done = Size(f)
            /\ part[f] # None /\ ~sha'
        BY <1>1, <2>3, <2>4, <2>5, <2>8
      <3> QED BY <1>1, <3>1 DEF Follows
    <2>9. CASE ~resumed
      <3>1. task'[p].at = "opening" /\ ~task'[p].resumed /\ task'[p].done = 0
            /\ task'[p].hash = << >>
        BY <2>3, <2>4, <2>9
      <3> QED BY <1>1, <3>1 DEF Follows
    <2> QED BY <2>6, <2>7, <2>8, <2>9
  <1>9. CASE HashesPart(p)
    <2>1. task'[p] = [t EXCEPT !.at = "opening", !.hash = content[part[f]]]
          /\ t.at = "hashing" /\ part[f] # None
      BY <1>3, <1>9 DEF HashesPart, At, PartOf
    <2>2. task'[p].at = "opening" /\ task'[p].hash = content[part[f]]
          /\ task'[p].resumed = t.resumed /\ task'[p].done = t.done
      BY <1>2, <2>1 DEF Task
    <2>3. t.resumed /\ t.done = Size(f)
      BY <2>1 DEF Follows
    <2> QED BY <1>1, <2>1, <2>2, <2>3 DEF Follows
  <1>10. CASE Reads(p)
    <2>1. task'[p] = [t EXCEPT !.at = "writing"] /\ t.at = "reading" /\ t.done < Length[f]
      BY <1>3, <1>10 DEF Reads, GoesTo, Proceeds, At
    <2>2. task'[p].at = "writing" /\ task'[p].hash = t.hash
          /\ task'[p].inode = t.inode /\ task'[p].done = t.done
      BY <1>2, <2>1 DEF Task
    <2> QED BY <1>1, <2>1, <2>2 DEF Follows
  <1>11. CASE ReadsAll(p) \/ Verifies(p)
    <2>1. PICK stage \in {"renaming", "discarding"} : Goes(p, [t EXCEPT !.at = stage])
      BY <1>11 DEF ReadsAll, Verifies, GoesTo
    <2>2. task'[p].at \in {"renaming", "discarding"}
      BY <1>2, <1>3, <2>1 DEF Task
    <2> QED BY <2>2 DEF Follows
  <1> QED BY <1>5, <1>6, <1>7, <1>8, <1>9, <1>10, <1>11 DEF Quiet

LEMMA OpensFollows ==
    ASSUME Base, NEW p \in Pulls, Opens(p), Follows(p)
    PROVE  Follows(p)'
  <1> DEFINE t == task[p]
             f == FileOf(p)
  <1>1. /\ t.at = "opening" /\ f \in FileSet /\ Opened(p) \in Inodes
        /\ part' = [part EXCEPT ![f] = Opened(p)]
        /\ content' = IF t.resumed THEN content ELSE [content EXCEPT ![Opened(p)] = << >>]
        /\ sha' = sha
        /\ task'[p] = [t EXCEPT !.at = "reading", !.inode = Opened(p)]
    BY OpensType DEF Base, Named, At, world
  <1>2. t \in Task /\ part \in [FileSet -> Inodes \cup {None}]
        /\ content \in [Inodes -> Seq(Block)]
    BY DEF Base, Sound, TypeOK
  <1>3. task'[p].at = "reading" /\ task'[p].inode = Opened(p) /\ task'[p].nth = t.nth
        /\ task'[p].done = t.done /\ task'[p].hash = t.hash
    BY <1>1, <1>2 DEF Task
  <1>4. FileOf(p)' = f
    BY <1>3 DEF FileOf
  <1>5. part'[f] = Opened(p)
    BY <1>1, <1>2
  <1>6. t.done = Len(content'[Opened(p)]) /\ (sha => t.hash = content'[Opened(p)])
    <2>1. CASE t.resumed
      <3>1. part[f] # None /\ t.done = Size(f) /\ (sha => t.hash = content[part[f]])
        BY <1>1, <2>1 DEF Follows
      <3>2. Opened(p) = part[f] /\ content' = content
        BY <1>1, <2>1, <3>1 DEF Opened, PartOf
      <3> QED BY <3>1, <3>2 DEF Size
    <2>2. CASE ~t.resumed
      <3>1. t.done = 0 /\ (sha => t.hash = << >>)
        BY <1>1, <2>2 DEF Follows
      <3>2. content'[Opened(p)] = << >>
        BY <1>1, <1>2, <2>2
      <3> QED BY <3>1, <3>2
    <2>3. t.resumed \in BOOLEAN
      BY <1>2 DEF Task
    <2> QED BY <2>1, <2>2, <2>3
  <1> QED BY <1>1, <1>3, <1>4, <1>5, <1>6 DEF Follows

(* Where the pull writes is the end of what it has written. *)
LEMMA WritesAtTheEnd ==
    ASSUME Sound, NEW p \in Pulls, Writes(p), Follows(p)
    PROVE  /\ part[FileOf(p)] = task[p].inode
           /\ WritesAt(p) = Len(content[task[p].inode]) + 1
           /\ task[p].done = Len(content[task[p].inode]) /\ task[p].done < Length[FileOf(p)]
           /\ content'[task[p].inode] = Append(content[task[p].inode], Written(p))
           /\ \A i \in Inodes \ {task[p].inode} : content'[i] = content[i]
  <1>1. task[p].at = "writing"
    BY WritesType DEF At
  <1>2. /\ part[FileOf(p)] = task[p].inode /\ task[p].done < Length[FileOf(p)]
        /\ task[p].done = Len(content[task[p].inode])
    BY <1>1 DEF Follows
  <1>3. WritesAt(p) = Len(content[task[p].inode]) + 1
    BY <1>2 DEF WritesAt
  <1>4. /\ task[p].inode \in Inodes /\ Written(p) \in Block
        /\ content[task[p].inode] \in Seq(Block)
        /\ content' = [content EXCEPT ![task[p].inode] =
                          Put(content[task[p].inode], WritesAt(p), Written(p))]
    BY WritesType
  <1>5. Put(content[task[p].inode], WritesAt(p), Written(p))
           = Append(content[task[p].inode], Written(p))
    BY <1>3, <1>4, PutAppends
  <1>6. content \in [Inodes -> Seq(Block)]
    BY DEF Sound, TypeOK
  <1> QED BY <1>2, <1>3, <1>4, <1>5, <1>6

LEMMA WritesFollows ==
    ASSUME Sound, NEW p \in Pulls, Writes(p), Follows(p)
    PROVE  Follows(p)'
  <1> DEFINE t == task[p]
             f == FileOf(p)
  <1>1. /\ t.at = "writing" /\ content[t.inode] \in Seq(Block) /\ Written(p) \in Block
        /\ part' = part /\ sha' = sha
        /\ task'[p] = [t EXCEPT !.at = "reading", !.done = t.done + 1, !.hash = Hashed(p)]
    BY WritesType DEF At, world
  <1>2. t \in Task
    BY DEF Sound, TypeOK
  <1>3. task'[p].at = "reading" /\ task'[p].inode = t.inode /\ task'[p].nth = t.nth
        /\ task'[p].done = t.done + 1 /\ task'[p].hash = Hashed(p)
    BY <1>1, <1>2 DEF Task
  <1>4. FileOf(p)' = f
    BY <1>3 DEF FileOf
  <1>5. /\ part[f] = t.inode /\ t.done = Len(content[t.inode])
        /\ content'[t.inode] = Append(content[t.inode], Written(p))
    BY WritesAtTheEnd
  <1>6. Len(Append(content[t.inode], Written(p))) = t.done + 1
    BY <1>1, <1>5, AppendProperties
  <1>7. sha => Hashed(p) = Append(content[t.inode], Written(p))
    BY <1>1 DEF Hashed, Follows
  <1>8. task'[p].done = Len(content'[task'[p].inode])
    BY <1>3, <1>5, <1>6
  <1>9. sha' => task'[p].hash = content'[task'[p].inode]
    BY <1>1, <1>3, <1>5, <1>7
  <1>10. part'[f] = task'[p].inode
    BY <1>1, <1>3, <1>5
  <1> QED BY <1>3, <1>4, <1>8, <1>9, <1>10 DEF Follows

(* What does not touch the .part of the pull does not disturb it. *)
LEMMA StillFollows ==
    ASSUME NEW p \in Pulls, Follows(p), UNCHANGED <<content, part, sha>>,
           \/ task'[p] = task[p]
           \/ task[p] \in Task /\ task'[p] = [task[p] EXCEPT !.aborted = TRUE]
    PROVE  Follows(p)'
  <1> DEFINE t == task[p]
  <1>1. /\ task'[p].at = t.at /\ task'[p].hash = t.hash /\ task'[p].from = t.from
        /\ task'[p].nth = t.nth /\ task'[p].resumed = t.resumed
        /\ task'[p].inode = t.inode /\ task'[p].done = t.done
    BY DEF Task
  <1>2. FileOf(p)' = FileOf(p) /\ Size(FileOf(p))' = Size(FileOf(p))
    BY <1>1 DEF FileOf, Size
  <1> QED BY <1>1, <1>2 DEF Follows

LEMMA EndsSole ==
    ASSUME Sound, Sole, NEW p \in Pulls, Working(p), NEW outcome \in {"completed", "failed"},
           Ends(p, outcome)
    PROVE  \A q \in Pulls : ~Working(q)'
  <1>1. task'[p] = Over /\ \A q \in Pulls \ {p} : task'[q] = task[q]
    BY EndsType DEF Sound
  <1>2. ~Working(p)'
    BY <1>1, OverPlaced DEF Working
  <1> QED BY <1>1, <1>2, OnlyOne

LEMMA FollowsStep ==
    ASSUME Base, Sole, \A p \in Pulls : Working(p) => Follows(p), [Next]_vars, ~raced'
    PROVE  \A p \in Pulls : Working(p)' => Follows(p)'
  <1> DEFINE All == \A p \in Pulls : Working(p)' => Follows(p)'
  <1>0. Sound /\ task \in [Pulls -> Task]
    BY DEF Base, Sound, TypeOK
  <1>1. ASSUME NEW p \in Pulls, NEW route \in BOOLEAN, Begins(p, route)
        PROVE  All
    <2>1. \A q \in Pulls : ~Working(q)
      BY <1>0, <1>1, BeginsType
    <2>2. task'[p].at = "inspecting" /\ task'[p].hash = << >>
          /\ \A q \in Pulls \ {p} : task'[q] = task[q]
      BY <1>0, <1>1, BeginsType
    <2>3. \A q \in Pulls \ {p} : ~Working(q)'
      BY <2>1, <2>2 DEF Working
    <2>4. Follows(p)'
      BY <2>2 DEF Follows
    <2> QED BY <2>3, <2>4
  <1>2. ASSUME NEW p \in Pulls, Pull(p)
        PROVE  All
    <2>1. CASE Begins(p, TRUE)
      BY <1>1, <2>1
    <2>2. CASE Goes(p, Over) /\ ~Begins(p, TRUE)
      <3>1. task'[p] = Over /\ \A q \in Pulls \ {p} : task'[q] = task[q]
        BY <1>0, <2>2, Change DEF Sound
      <3>2. UNCHANGED <<content, part, sha>>
        BY <1>0, <1>2, PullType DEF disk, world
      <3>3. ~Working(p)'
        BY <3>1, OverPlaced DEF Working
      <3>4. \A q \in Pulls \ {p} : Working(q)' => Follows(q)'
        BY <3>1, <3>2, StillFollows DEF Working
      <3> QED BY <3>3, <3>4
    <2> QED BY <1>0, <1>2, <2>1, <2>2, PullType
  <1>3. ASSUME NEW p \in Pulls, PullUnlisted(p)
        PROVE  All
    BY <1>1, <1>3 DEF PullUnlisted
  <1>4. ASSUME NEW p \in Pulls, Cancel(p)
        PROVE  All
    <2>1. UNCHANGED <<content, part, sha>>
          /\ task' \in {task, [task EXCEPT ![p].aborted = TRUE]}
      BY <1>4 DEF Cancel, disk, world
    <2> SUFFICES ASSUME NEW q \in Pulls, Working(q)'
                 PROVE  Follows(q)'
      OBVIOUS
    <2>2. task[q] \in Task
      BY <1>0
    <2> DEFINE u == [task[p] EXCEPT !.aborted = TRUE]
    <2>3. task'[q] = task[q] \/ (q = p /\ task'[q] = u)
      <3>1. task' = task \/ task' = [task EXCEPT ![p] = u]
        BY <2>1
      <3> HIDE DEF u
      <3> QED BY <1>0, <3>1
    <2>4. task'[q] = task[q] \/ task'[q] = [task[q] EXCEPT !.aborted = TRUE]
      BY <2>3
    <2>5. task'[q].at = task[q].at
      BY <2>2, <2>4 DEF Task
    <2>6. Follows(q)
      BY <2>5 DEF Working
    <2> QED BY <2>1, <2>2, <2>4, <2>6, StillFollows
  <1>5. ASSUME NEW p \in Pulls, Fails(p) \/ Vanished(p) \/ Discards(p)
        PROVE  All
    <2>1. Ends(p, "failed") /\ Working(p)
      BY <1>5 DEF Fails, Vanished, Discards, Working, At
    <2> QED BY <1>0, <2>1, EndsSole
  <1>6. ASSUME NEW p \in Pulls, Quiet(p)
        PROVE  All
    BY <1>0, <1>6, QuietType, QuietFollows, OnlyOne
  <1>7. ASSUME NEW p \in Pulls, Opens(p)
        PROVE  All
    <2>1. Working(p) /\ \A q \in Pulls \ {p} : task'[q] = task[q]
      BY <1>0, <1>7, OpensType DEF Base, Named, Working, At
    <2> QED BY <1>7, <2>1, OpensFollows, OnlyOne
  <1>8. ASSUME NEW p \in Pulls, Writes(p)
        PROVE  All
    <2>1. Working(p) /\ \A q \in Pulls \ {p} : task'[q] = task[q]
      BY <1>0, <1>8, WritesType DEF Working, At
    <2> QED BY <1>0, <1>8, <2>1, WritesFollows, OnlyOne
  <1>9. ASSUME NEW p \in Pulls, Renames(p)
        PROVE  All
    <2>1. /\ Working(p) /\ \A q \in Pulls \ {p} : task'[q] = task[q]
          /\ \/ Ends(p, "completed")
             \/ task'[p].at = "sizing" /\ task'[p].hash = << >>
      BY <1>0, <1>9, RenamesType DEF Working, At
    <2>2. CASE Ends(p, "completed")
      BY <1>0, <2>1, <2>2, EndsSole
    <2>3. CASE task'[p].at = "sizing" /\ task'[p].hash = << >>
      <3>1. Follows(p)'
        BY <2>3 DEF Follows
      <3> QED BY <2>1, <3>1, OnlyOne
    <2> QED BY <2>1, <2>2, <2>3
  <1>10. CASE Remove
    <2>1. task' = task /\ \A p \in Pulls : ~Working(p)
      BY <1>10 DEF Remove
    <2> QED BY <2>1 DEF Working
  <1>11. CASE RemoveDirectory
    <2>1. task' = task /\ \A p \in Pulls : ~Working(p)
      BY <1>11 DEF RemoveDirectory, Sole
    <2> QED BY <2>1 DEF Working
  <1>12. CASE Crash
    BY <1>12, OverPlaced DEF Crash, Working
  <1>13. CASE Update \/ UNCHANGED vars
    <2>1. UNCHANGED <<content, part, sha, task>>
      BY <1>13 DEF Update, vars, disk, world
    <2> QED BY <2>1, StillFollows DEF Working
  <1> QED
    BY <1>2, <1>3, <1>4, <1>5, <1>6, <1>7, <1>8, <1>9, <1>10, <1>11, <1>12, <1>13, NextCases

-----------------------------------------------------------------------------
(* What the files hold: without checksums every .part is the beginning of the   *)
(* one version there is; what is about to be published, and what is published,  *)
(* is a whole version.                                                         *)

Begun(f) == part[f] # None => \E n \in 0 .. Length[f] : content[part[f]] = Run(1, n)

Ready(p) ==
    At(p, "renaming") /\ PartOf(p) # None =>
        \E v \in 1 .. upstream : content[PartOf(p)] = Full(FileOf(p), v)

Whole ==
    /\ ~sha => \A f \in FileSet : Begun(f)
    /\ \A p \in Pulls : Ready(p)
    /\ \A f \in FileSet : target[f] # None => Intact(f)

Reliable == sha \/ upstream = 1

(* The contents of a file's names stay, or the name goes away. *)
PartStays(f) == part'[f] # None => part'[f] = part[f] /\ content'[part[f]] = content[part[f]]
TargetStays(f) ==
    target'[f] # None => target'[f] = target[f] /\ content'[target[f]] = content[target[f]]

LEMMA StillReady ==
    ASSUME Base, Whole, NEW p \in Pulls, At(p, "renaming"), task'[p].nth = task[p].nth,
           PartStays(FileOf(p)), \A v \in 1 .. upstream : v \in 1 .. upstream'
    PROVE  Ready(p)'
  <1> SUFFICES ASSUME (PartOf(p) # None)'
               PROVE  \E v \in 1 .. upstream' : (content[PartOf(p)] = Full(FileOf(p), v))'
    BY DEF Ready
  <1>1. FileOf(p)' = FileOf(p)
    BY DEF FileOf
  <1>2. PartOf(p)' = PartOf(p) /\ content'[PartOf(p)] = content[PartOf(p)] /\ PartOf(p) # None
    BY <1>1 DEF PartOf, PartStays
  <1>3. PICK v \in 1 .. upstream : content[PartOf(p)] = Full(FileOf(p), v)
    BY <1>2 DEF Whole, Ready
  <1> QED BY <1>1, <1>2, <1>3

LEMMA StillWhole ==
    ASSUME Base, Whole, sha' = sha, upstream' \in Int, upstream <= upstream',
           \A f \in FileSet : PartStays(f) \/ (~sha => Begun(f)'),
           \A f \in FileSet : TargetStays(f) \/ Intact(f)',
           \A p \in Pulls :
              At(p, "renaming")' =>
                 \/ Ready(p)'
                 \/ At(p, "renaming") /\ task'[p].nth = task[p].nth /\ PartStays(FileOf(p))
    PROVE  Whole'
  <1>1. ~sha' => \A f \in FileSet : Begun(f)'
    BY DEF Whole, Begun, PartStays
  <1>2. \A v \in 1 .. upstream : v \in 1 .. upstream'
    BY DEF Base, Sound, TypeOK
  <1>3. ASSUME NEW p \in Pulls
        PROVE  Ready(p)'
    <2>1. CASE ~At(p, "renaming")'
      BY <2>1 DEF Ready
    <2>2. CASE At(p, "renaming") /\ task'[p].nth = task[p].nth /\ PartStays(FileOf(p))
      BY <1>2, <2>2, StillReady
    <2> QED BY <2>1, <2>2
  <1>4. ASSUME NEW f \in FileSet, target'[f] # None
        PROVE  Intact(f)'
    <2>1. CASE TargetStays(f)
      <3>1. target'[f] = target[f] /\ content'[target[f]] = content[target[f]]
        BY <1>4, <2>1 DEF TargetStays
      <3>2. PICK v \in 1 .. upstream : content[target[f]] = Full(f, v)
        BY <1>4, <3>1 DEF Whole, Intact
      <3> QED BY <1>2, <3>1, <3>2 DEF Intact
    <2> QED BY <2>1
  <1> QED BY <1>1, <1>3, <1>4 DEF Whole

(* Nothing changes on the disk, or names only go away. *)
LEMMA SameWhole ==
    ASSUME Base, Whole, content' = content, sha' = sha,
           upstream' \in Int, upstream <= upstream',
           \A f \in FileSet : part'[f] \in {part[f], None} /\ target'[f] \in {target[f], None},
           \A p \in Pulls :
              At(p, "renaming")' =>
                 Ready(p)' \/ (At(p, "renaming") /\ task'[p].nth = task[p].nth)
    PROVE  Whole'
  <1>1. \A f \in FileSet : PartStays(f) /\ TargetStays(f)
    BY DEF PartStays, TargetStays
  <1>2. \A p \in Pulls : At(p, "renaming") => FileOf(p) \in FileSet
    BY AtAFile DEF Base, At, Working
  <1> QED BY <1>1, <1>2, StillWhole

(* What is about to be published has been checked, or is of the only version   *)
(* there is and complete: it is the version the pull has inspected.            *)
LEMMA ChecksReady ==
    ASSUME Base, Whole, Reliable, NEW p \in Pulls, Follows(p), ReadsAll(p) \/ Verifies(p)
    PROVE  /\ Ready(p)'
           /\ At(p, "renaming")' /\ PartOf(p) # None =>
                 content[PartOf(p)] = Full(FileOf(p), task[p].promised)
  <1> DEFINE t == task[p]
             f == FileOf(p)
             body == content[part[f]]
  <1>0. Sound /\ Quiet(p)
    BY DEF Base, Quiet
  <1>1. /\ UNCHANGED <<content, part, sha, upstream>> /\ f \in FileSet
        /\ task'[p].nth = t.nth /\ FileOf(p)' = f /\ PartOf(p)' = part[f]
        /\ Length[f] \in Nat \ {0} /\ upstream \in Nat \ {0} /\ t \in Task
    BY <1>0, QuietType, AtAFile DEF disk, world, FileOf, PartOf, Sound, TypeOK
  <1>9. t.at \in {"reading", "checking"} /\ t.promised \in 1 .. upstream
    <2>1. t.at \in {"reading", "checking"}
      BY DEF ReadsAll, Verifies, Proceeds, At
    <2> QED BY <1>0, <2>1 DEF Sound, Placed
  <1> SUFFICES ASSUME At(p, "renaming")', part[f] # None
               PROVE  body = Full(f, t.promised)
    BY <1>1, <1>9 DEF Ready, PartOf
  <1>2. body \in Seq(Block) /\ Len(body) \in Nat
    BY <1>0, QuietType, AtAFile, LenProperties DEF PartOf
  <1>3. ASSUME NEW stage, GoesTo(p, stage)
        PROVE  stage = "renaming"
    <2>1. task'[p] = [t EXCEPT !.at = stage]
      BY <1>0, <1>3, Change DEF GoesTo, Sound
    <2> QED BY <1>1, <2>1 DEF At, Task
  <1>5. ASSUME ~sha, Len(body) >= Length[f]
        PROVE  body = Full(f, t.promised)
    <2>1. PICK n \in 0 .. Length[f] : body = Run(1, n)
      BY <1>1, <1>5 DEF Whole, Begun
    <2>2. Len(body) = n
      BY <2>1, RunType, Arithmetic
    <2>3. n = Length[f]
      BY <1>1, <1>5, <2>2
    <2>4. body = Full(f, 1)
      BY <2>1, <2>3, FullIsRun
    <2>5. t.promised = 1
      BY <1>1, <1>5, <1>9 DEF Reliable
    <2> QED BY <2>4, <2>5
  <1>6. sha \in BOOLEAN
    BY <1>0 DEF Sound, TypeOK
  <1>7. CASE ReadsAll(p)
    <2>1. /\ t.at = "reading" /\ t.done = Length[f] /\ Matches(p, t.hash)
      BY <1>3, <1>7 DEF ReadsAll, Proceeds, At
    <2>2. t.done = Len(body) /\ (sha => t.hash = body)
      BY <2>1 DEF Follows
    <2> QED BY <1>1, <1>5, <1>6, <2>1, <2>2 DEF Matches
  <1>8. CASE Verifies(p)
    <2>1. t.at = "checking" /\ (sha => Matches(p, body))
      BY <1>3, <1>8 DEF Verifies, At, PartOf
    <2>2. Len(body) >= Length[f]
      BY <2>1 DEF Follows, Size
    <2> QED BY <1>5, <1>6, <2>1, <2>2 DEF Matches
  <1> QED BY <1>7, <1>8

(* Of the quiet steps only the checks lead to the renaming. *)
LEMMA QuietRenames ==
    ASSUME Sound, NEW p \in Pulls, Quiet(p), ~ReadsAll(p), ~Verifies(p)
    PROVE  ~At(p, "renaming")'
  <1>0. Sound /\ task[p] \in Task
    BY DEF Sound, TypeOK
  <1>3. ASSUME NEW u, Goes(p, u), u.at # "renaming"
        PROVE  ~At(p, "renaming")'
    <2>1. task'[p] = u
      BY <1>0, <1>3, Change DEF Sound
    <2> QED BY <1>3, <2>1 DEF At
  <1>4. CASE Inspected(p)
    <2>1. [task[p] EXCEPT !.at = "sizing", !.promised = upstream].at # "renaming"
      BY <1>0 DEF Task
    <2> QED BY <1>3, <1>4, <2>1 DEF Inspected
  <1>5. CASE Sized(p)
    <2> DEFINE n == IF PartOf(p) = None THEN 0 ELSE Len(content[PartOf(p)])
               u == [task[p] EXCEPT !.at = "fetching", !.from = n]
    <2>1. u.at # "renaming" /\ Goes(p, u)
      BY <1>0, <1>5 DEF Task, Sized
    <2> HIDE DEF u
    <2> QED BY <1>3, <2>1
  <1>6. CASE RangeUnsatisfiable(p) \/ Reads(p)
    <2>1. PICK stage \in {"checking", "writing"} : Goes(p, [task[p] EXCEPT !.at = stage])
      BY <1>6 DEF RangeUnsatisfiable, Reads, GoesTo
    <2>2. [task[p] EXCEPT !.at = stage].at # "renaming"
      BY <1>0 DEF Task
    <2> QED BY <1>3, <2>1, <2>2
  <1>7. CASE Responds(p)
    <2>1. PICK resumed \in BOOLEAN :
             Goes(p, [task[p] EXCEPT !.at = IF resumed /\ sha THEN "hashing" ELSE "opening",
                        !.streamed = upstream, !.resumed = resumed,
                        !.from = 0, !.done = IF resumed THEN task[p].from ELSE 0])
      BY <1>7 DEF Responds
    <2> DEFINE u == [task[p] EXCEPT !.at = IF resumed /\ sha THEN "hashing" ELSE "opening",
                        !.streamed = upstream, !.resumed = resumed,
                        !.from = 0, !.done = IF resumed THEN task[p].from ELSE 0]
    <2>2. u.at # "renaming" /\ Goes(p, u)
      BY <1>0, <2>1 DEF Task
    <2> HIDE DEF u
    <2> QED BY <1>3, <2>2
  <1>8. CASE HashesPart(p)
    <2> DEFINE u == [task[p] EXCEPT !.at = "opening", !.hash = content[PartOf(p)]]
    <2>1. u.at # "renaming" /\ Goes(p, u)
      BY <1>0, <1>8 DEF Task, HashesPart
    <2> HIDE DEF u
    <2> QED BY <1>3, <2>1
  <1> QED BY <1>4, <1>5, <1>6, <1>7, <1>8 DEF Quiet

(* The inode a pull has open is the .part of its file and nothing else. *)
LEMMA InodeOfOne ==
    ASSUME Named, NEW f \in FileSet, part[f] # None
    PROVE  /\ \A g \in FileSet \ {f} : part[g] # None => part[g] # part[f]
           /\ \A g \in FileSet : target[g] # None => target[g] # part[f]
  BY DEF Named

(* What a pull opens is published under no name. *)
LEMMA OpenedUnpublished ==
    ASSUME Base, NEW p \in Pulls, Opens(p)
    PROVE  \A g \in FileSet : target[g] # None => target[g] # Opened(p)
  <1> DEFINE t == task[p]
             inode == Opened(p)
  <1>0. PICK f \in FileSet : f = FileOf(p)
    BY OpensType DEF Base, Named
  <1>1. t.at = "opening" /\ inode[2] = f
    BY <1>0, OpensType DEF Base, Named, At
  <1>2. part[f] # None => inode = part[f] /\ part[f] # target[f]
    BY <1>0, <1>1 DEF Opened, PartOf, Base, Named
  <1>3. part[f] = None => inode = <<p, f>>
    BY <1>0 DEF Opened, PartOf
  <1>4. t.nth \in 1 .. Len(Files) /\ Unopened(t, t.nth)
    BY <1>1, AtAFile DEF Base, Working, Unopened, Before
  <1>5. <<p, f>> # target[f]
    BY <1>0, <1>4 DEF Base, Unnamed, FileOf
  <1> QED BY <1>1, <1>2, <1>3, <1>5 DEF Base, Named

LEMMA OpensWhole ==
    ASSUME Base, Sole, Whole, NEW p \in Pulls, Follows(p), Opens(p)
    PROVE  Whole'
  <1> DEFINE t == task[p]
             inode == Opened(p)
  <1>0. PICK f \in FileSet : f = FileOf(p)
    BY OpensType DEF Base, Named
  <1>1. /\ t.at = "opening" /\ f \in FileSet /\ inode \in Inodes /\ inode[2] = f
        /\ part' = [part EXCEPT ![f] = inode]
        /\ content' = IF t.resumed THEN content ELSE [content EXCEPT ![inode] = << >>]
        /\ target' = target /\ sha' = sha /\ upstream' = upstream
        /\ task'[p] = [t EXCEPT !.at = "reading", !.inode = inode]
        /\ \A q \in Pulls \ {p} : task'[q] = task[q]
    BY <1>0, OpensType DEF Base, Named, At, world
  <1>2. t \in Task /\ part \in [FileSet -> Inodes \cup {None}] /\ upstream \in Int
        /\ content \in [Inodes -> Seq(Block)] /\ target \in [FileSet -> Inodes \cup {None}]
        /\ Length[f] \in Nat
    BY <1>1 DEF Base, Sound, TypeOK
  <1>3. ~At(p, "renaming")'
    BY <1>1, <1>2 DEF Task, At
  <1>4. \A q \in Pulls : ~At(q, "renaming")'
    BY <1>1, <1>3, OnlyOne DEF Working, At
  <1>6. \A i \in Inodes : i # inode => content'[i] = content[i]
    BY <1>1, <1>2
  <1>7. \A g \in FileSet : TargetStays(g)
    <2> SUFFICES ASSUME NEW g \in FileSet, target[g] # None
                 PROVE  content'[target[g]] = content[target[g]]
      BY <1>1 DEF TargetStays
    <2>1. target[g] # inode
      BY OpenedUnpublished
    <2> QED BY <1>2, <1>6, <2>1
  <1>8. \A g \in FileSet \ {f} : PartStays(g)
    <2> SUFFICES ASSUME NEW g \in FileSet \ {f}, part[g] # None
                 PROVE  part'[g] = part[g] /\ content'[part[g]] = content[part[g]]
      BY <1>1, <1>2 DEF PartStays
    <2>1. part[g] # inode
      BY <1>1 DEF Base, Named
    <2> QED BY <1>1, <1>2, <1>6, <2>1
  <1>9. PartStays(f) \/ Begun(f)'
    <2>1. CASE t.resumed
      <3>1. part[f] # None
        BY <1>0, <1>1, <2>1 DEF Follows
      <3>2. inode = part[f] /\ content' = content
        BY <1>0, <1>1, <2>1, <3>1 DEF Opened, PartOf
      <3> QED BY <1>1, <1>2, <3>2 DEF PartStays
    <2>2. CASE ~t.resumed
      <3>1. part'[f] = inode /\ content'[inode] = << >>
        BY <1>1, <1>2, <2>2
      <3>2. Run(1, 0) = << >>
        <4>1. Run(1, 0) \in Seq(Block) /\ Len(Run(1, 0)) = 0
          BY RunType, Arithmetic
        <4> QED BY <4>1, EmptySeq
      <3>3. 0 \in 0 .. Length[f]
        BY <1>2
      <3> QED BY <3>1, <3>2, <3>3 DEF Begun
    <2>3. t.resumed \in BOOLEAN
      BY <1>2 DEF Task
    <2> QED BY <2>1, <2>2, <2>3
  <1>10. \A g \in FileSet : PartStays(g) \/ (~sha => Begun(g)')
    BY <1>8, <1>9
  <1>11. upstream' \in Int /\ upstream <= upstream'
    BY <1>1, <1>2
  <1> QED BY <1>1, <1>4, <1>7, <1>10, <1>11, StillWhole

LEMMA WritesWhole ==
    ASSUME Base, Sole, Whole, Reliable, NEW p \in Pulls, Follows(p), Writes(p)
    PROVE  Whole'
  <1> DEFINE t == task[p]
             body == content[part[FileOf(p)]]
  <1>0. Sound /\ Named
    BY DEF Base
  <1>1. /\ t.at = "writing" /\ t.inode \in Inodes
        /\ UNCHANGED <<part, target, sha, upstream>>
        /\ task'[p].at = "reading"
        /\ \A q \in Pulls \ {p} : task'[q] = task[q]
    BY <1>0, WritesType DEF At, world
  <1>11. FileOf(p) \in FileSet
    BY <1>0, <1>1, AtAFile DEF Working
  <1>12. PICK f \in FileSet : f = FileOf(p)
    BY <1>11
  <1>2. Length[f] \in Nat /\ upstream \in Int /\ t \in Task
        /\ part \in [FileSet -> Inodes \cup {None}] /\ target \in [FileSet -> Inodes \cup {None}]
    BY <1>0 DEF Sound, TypeOK
  <1>3. \A q \in Pulls : ~At(q, "renaming")'
    BY <1>1, OnlyOne DEF Working, At
  <1>4. /\ part[f] = t.inode /\ t.done = Len(body) /\ t.done < Length[f]
        /\ content'[part[f]] = Append(body, Written(p))
        /\ \A i \in Inodes \ {part[f]} : content'[i] = content[i]
    BY <1>0, <1>12, WritesAtTheEnd
  <1>5. part[f] # None
    BY <1>1, <1>4
  <1>6. \A g \in FileSet : TargetStays(g)
    BY <1>0, <1>1, <1>2, <1>4, <1>5, InodeOfOne DEF TargetStays
  <1>7. \A g \in FileSet \ {f} : PartStays(g)
    BY <1>0, <1>1, <1>2, <1>4, <1>5, InodeOfOne DEF PartStays
  <1>8. ASSUME ~sha
        PROVE  Begun(f)'
    <2>1. PICK n \in 0 .. Length[f] : body = Run(1, n)
      BY <1>2, <1>5, <1>8, <1>12 DEF Whole, Begun
    <2>2. n \in Nat /\ n = t.done /\ 1 \in Versions
      BY <1>2, <1>4, <2>1, RunType, Arithmetic
    <2>3. t.streamed = 1
      <3>1. upstream = 1 /\ t.streamed \in 1 .. upstream
        BY <1>0, <1>1, <1>8 DEF Reliable, Sound, Placed
      <3> QED BY <3>1
    <2>4. Written(p) = <<1, n + 1>> /\ Written(p) \in Block /\ body \in Seq(Block)
      BY <1>0, <1>4, <1>12, <2>2, <2>3, WritesType DEF Written
    <2>5. Append(body, Written(p)) = Put(body, Len(body) + 1, Written(p))
      BY <2>4, PutAppends
    <2>6. Put(body, Len(body) + 1, Written(p)) = Run(1, n + 1)
      BY <1>4, <2>1, <2>2, <2>4, RunGrows
    <2>7. n + 1 \in 0 .. Length[f]
      BY <1>2, <1>4, <2>2
    <2> QED BY <1>1, <1>4, <1>12, <2>5, <2>6, <2>7 DEF Begun
  <1>9. \A g \in FileSet : PartStays(g) \/ (~sha => Begun(g)')
    BY <1>7, <1>8
  <1>10. upstream' \in Int /\ upstream <= upstream'
    BY <1>1, <1>2
  <1> QED BY <1>1, <1>3, <1>6, <1>9, <1>10, StillWhole

LEMMA RenamesWhole ==
    ASSUME Base, Sole, Whole, NEW p \in Pulls, Renames(p)
    PROVE  Whole'
  <1>0. Sound
    BY DEF Base
  <1>8. PICK f \in FileSet : f = FileOf(p)
    BY <1>0, RenamesType
  <1>1. /\ At(p, "renaming") /\ f \in FileSet /\ part[f] \in Inodes
        /\ target' = [target EXCEPT ![f] = part[f]] /\ part' = [part EXCEPT ![f] = None]
        /\ UNCHANGED <<content, sha, upstream>>
        /\ task'[p].at \in {"over", "sizing"}
        /\ \A q \in Pulls \ {p} : task'[q] = task[q]
    BY <1>0, <1>8, RenamesType, OverPlaced DEF world
  <1>2. /\ part \in [FileSet -> Inodes \cup {None}] /\ upstream \in Int
        /\ target \in [FileSet -> Inodes \cup {None}]
    BY <1>0 DEF Sound, TypeOK
  <1>3. \A q \in Pulls : ~At(q, "renaming")'
    BY <1>1, OnlyOne DEF Working, At
  <1>4. Intact(f)'
    <2>1. \E v \in 1 .. upstream : content[part[f]] = Full(f, v)
      BY <1>1, <1>8 DEF Whole, Ready, PartOf
    <2>2. target'[f] = part[f]
      BY <1>1, <1>2
    <2> QED BY <1>1, <2>1, <2>2 DEF Intact
  <1>5. \A g \in FileSet : TargetStays(g) \/ Intact(g)'
    BY <1>1, <1>2, <1>4 DEF TargetStays
  <1>6. \A g \in FileSet : PartStays(g)
    BY <1>1, <1>2 DEF PartStays
  <1>7. upstream' \in Int /\ upstream <= upstream'
    BY <1>1, <1>2
  <1> QED BY <1>1, <1>3, <1>5, <1>6, <1>7, StillWhole

LEMMA WholeStep ==
    ASSUME Base, Sole, \A p \in Pulls : Working(p) => Follows(p), Whole, Reliable,
           [Next]_vars, ~raced'
    PROVE  Whole'
  <1>0. Sound /\ task \in [Pulls -> Task] /\ upstream \in Int
        /\ part \in [FileSet -> Inodes \cup {None}] /\ target \in [FileSet -> Inodes \cup {None}]
    BY DEF Base, Sound, TypeOK
  <1>1. ASSUME UNCHANGED <<disk, world>>,
               \A p \in Pulls :
                  At(p, "renaming")' =>
                     Ready(p)' \/ (At(p, "renaming") /\ task'[p].nth = task[p].nth)
        PROVE  Whole'
    <2>1. /\ content' = content /\ sha' = sha /\ upstream' \in Int /\ upstream <= upstream'
          /\ \A f \in FileSet : part'[f] \in {part[f], None} /\ target'[f] \in {target[f], None}
      BY <1>0, <1>1 DEF disk, world
    <2> QED BY <1>1, <2>1, SameWhole
  <1>2. ASSUME NEW p \in Pulls, NEW route \in BOOLEAN, Begins(p, route), UNCHANGED <<disk, world>>
        PROVE  Whole'
    <2>1. task'[p].at = "inspecting" /\ \A q \in Pulls \ {p} : task'[q] = task[q]
      BY <1>0, <1>2, BeginsType
    <2> QED BY <1>1, <1>2, <2>1 DEF At
  <1>3. ASSUME NEW p \in Pulls, task'[p] = Over, \A q \in Pulls \ {p} : task'[q] = task[q],
               UNCHANGED <<disk, world>>
        PROVE  Whole'
    BY <1>1, <1>3, OverPlaced DEF At
  <1>4. ASSUME NEW p \in Pulls, Pull(p)
        PROVE  Whole'
    <2>1. UNCHANGED <<disk, world>> /\ (Begins(p, TRUE) \/ Goes(p, Over))
      BY <1>0, <1>4, PullType
    <2>2. CASE Begins(p, TRUE)
      BY <1>2, <2>1, <2>2
    <2>3. CASE Goes(p, Over)
      <3>1. task'[p] = Over /\ \A q \in Pulls \ {p} : task'[q] = task[q]
        BY <1>0, <2>3, Change DEF Sound
      <3> QED BY <1>3, <2>1, <3>1
    <2> QED BY <2>1, <2>2, <2>3
  <1>5. ASSUME NEW p \in Pulls, PullUnlisted(p)
        PROVE  Whole'
    BY <1>2, <1>5 DEF PullUnlisted
  <1>6. ASSUME NEW p \in Pulls, Cancel(p)
        PROVE  Whole'
    <2> DEFINE u == [task[p] EXCEPT !.aborted = TRUE]
    <2>1. UNCHANGED <<disk, world>> /\ (task' = task \/ task' = [task EXCEPT ![p] = u])
      BY <1>6 DEF Cancel
    <2>2. u.at = task[p].at /\ u.nth = task[p].nth
      BY <1>0 DEF Task
    <2> HIDE DEF u
    <2>3. \A q \in Pulls : task'[q].at = task[q].at /\ task'[q].nth = task[q].nth
      BY <1>0, <2>1, <2>2
    <2> QED BY <1>1, <2>1, <2>3 DEF At
  <1>7. ASSUME NEW p \in Pulls, Fails(p) \/ Vanished(p)
        PROVE  Whole'
    <2>1. Ends(p, "failed") /\ UNCHANGED <<disk, world>>
      BY <1>7 DEF Fails, Vanished, Ends
    <2>2. task'[p] = Over /\ \A q \in Pulls \ {p} : task'[q] = task[q]
      BY <1>0, <2>1, EndsType DEF Sound
    <2> QED BY <1>3, <2>1, <2>2
  <1>8. ASSUME NEW p \in Pulls, Quiet(p)
        PROVE  Whole'
    <2>1. /\ UNCHANGED <<disk, world>> /\ Working(p) /\ task'[p].nth = task[p].nth
          /\ \A q \in Pulls \ {p} : task'[q] = task[q]
      BY <1>0, <1>8, QuietType
    <2>2. CASE ReadsAll(p) \/ Verifies(p)
      <3>1. Ready(p)'
        BY <2>1, <2>2, ChecksReady
      <3> QED BY <1>1, <2>1, <3>1 DEF At
    <2>3. CASE ~At(p, "renaming")'
      BY <1>1, <2>1, <2>3 DEF At
    <2> QED BY <1>8, <2>2, <2>3, QuietRenames DEF Base
  <1>9. ASSUME NEW p \in Pulls, Opens(p)
        PROVE  Whole'
    BY <1>9, OpensWhole DEF Opens, At, Working
  <1>10. ASSUME NEW p \in Pulls, Writes(p)
         PROVE  Whole'
    BY <1>10, WritesWhole DEF Writes, At, Working
  <1>11. ASSUME NEW p \in Pulls, Discards(p)
         PROVE  Whole'
    <2>1. /\ Ends(p, "failed") /\ Working(p) /\ part' = [part EXCEPT ![FileOf(p)] = None]
          /\ content' = content /\ target' = target
      BY <1>11 DEF Discards, At, Working
    <2>2. \A q \in Pulls : ~Working(q)'
      BY <1>0, <2>1, EndsSole
    <2>3. /\ sha' = sha /\ upstream' = upstream
          /\ \A f \in FileSet : part'[f] \in {part[f], None}
      BY <1>0, <2>1, EndsType DEF Sound
    <2>4. \A q \in Pulls : ~At(q, "renaming")'
      BY <2>2 DEF Working, At
    <2> QED BY <1>0, <2>1, <2>3, <2>4, SameWhole
  <1>12. ASSUME NEW p \in Pulls, Renames(p)
         PROVE  Whole'
    BY <1>12, RenamesWhole
  <1>13. CASE Remove \/ RemoveDirectory
    <2>1. /\ UNCHANGED <<content, sha, upstream, task>>
          /\ \A f \in FileSet : part'[f] \in {part[f], None} /\ target'[f] \in {target[f], None}
      <3>1. CASE Remove
        BY <3>1 DEF Remove
      <3>2. CASE RemoveDirectory
        BY <3>2 DEF RemoveDirectory, world
      <3> QED BY <1>13, <3>1, <3>2
    <2> QED BY <1>0, <2>1, SameWhole DEF At
  <1>14. CASE Crash
    <2>1. UNCHANGED <<content, part, target, sha, upstream>>
          /\ \A p \in Pulls : task'[p] = IF Working(p) THEN Over ELSE task[p]
      BY <1>14 DEF Crash
    <2>2. \A q \in Pulls : ~At(q, "renaming")'
      BY <2>1, OverPlaced DEF Working, At
    <2> QED BY <1>0, <2>1, <2>2, SameWhole
  <1>15. CASE Update
    <2>1. UNCHANGED <<content, part, target, sha, task>> /\ upstream' = upstream + 1
      BY <1>15 DEF Update, disk
    <2>2. upstream' \in Int /\ upstream <= upstream'
      BY <1>0, <2>1
    <2> QED BY <2>1, <2>2, SameWhole DEF At
  <1>16. CASE UNCHANGED vars
    BY <1>1, <1>16 DEF vars, At
  <1> QED
    BY <1>4, <1>5, <1>6, <1>7, <1>8, <1>9, <1>10, <1>11, <1>12, <1>13, <1>14, <1>15, <1>16,
       NextCases

(* Checksums stay published or not, and the version only grows. *)
LEMMA ReliableStays == ASSUME Base, [Next]_vars PROVE Reliable' => Reliable
  <1>1. sha' = sha /\ upstream' \in {upstream, upstream + 1}
    <2>1. \A p \in Pulls : \A outcome \in {"completed", "failed"} :
             Ends(p, outcome) \/ Continues => UNCHANGED world
      BY DEF Ends, Continues
    <2>2. ASSUME NEW p \in Pulls, \/ Pull(p) \/ PullUnlisted(p) \/ Cancel(p)
                                  \/ Fails(p) \/ Vanished(p) \/ Quiet(p)
                                  \/ Opens(p) \/ Writes(p) \/ Discards(p) \/ Renames(p)
          PROVE  UNCHANGED world
      BY <2>1, <2>2
         DEF Pull, PullUnlisted, Cancel, Fails, Vanished, Quiet, Opens, Writes, Discards,
             Renames, Inspected, Sized, RangeUnsatisfiable, Responds, HashesPart, Reads,
             ReadsAll, Verifies
    <2>3. CASE Remove \/ RemoveDirectory \/ Crash \/ UNCHANGED vars
      BY <2>3 DEF Remove, RemoveDirectory, Crash, vars, world
    <2>4. CASE Update
      BY <2>4 DEF Update
    <2> QED BY <2>2, <2>3, <2>4, NextCases DEF world
  <1>2. upstream \in Nat \ {0}
    BY DEF Base, Sound, TypeOK
  <1> QED BY <1>1, <1>2 DEF Reliable

(* The inductive invariant. *)
IInv ==
    /\ Base
    /\ ~raced => Sole /\ \A p \in Pulls : Working(p) => Follows(p)
    /\ ~raced /\ Reliable => Whole

LEMMA InvInit == ASSUME Init PROVE IInv
  <1>1. \A p \in Pulls : task[p].at = "idle"
    BY OverPlaced DEF Init
  <1>2. Sole /\ \A p \in Pulls : Working(p) => Follows(p)
    BY <1>1 DEF Sole, Working
  <1>3. Whole
    BY <1>1 DEF Init, Whole, Begun, Ready, At
  <1> QED BY <1>2, <1>3, BaseInit DEF IInv

LEMMA InvStep == ASSUME IInv, [Next]_vars PROVE IInv'
  <1>1. Base /\ Base'
    BY BaseStep DEF IInv
  <1>2. ASSUME ~raced'
        PROVE  Sole' /\ \A p \in Pulls : Working(p)' => Follows(p)'
    BY <1>1, <1>2, RacedStays, SoleStep, FollowsStep DEF IInv
  <1>4. ASSUME ~raced', Reliable'
        PROVE  Whole'
    BY <1>1, <1>4, RacedStays, ReliableStays, WholeStep DEF IInv
  <1> QED BY <1>1, <1>2, <1>4 DEF IInv

(* What is published is what upstream has, whatever crashed, failed or was     *)
(* cancelled, as long as one pull or removal is at work at a time.             *)
THEOREM PublishedIsIntact == Spec => []PublishedIntact
  <1>1. IInv => PublishedIntact
    BY DEF IInv, PublishedIntact, Whole, Reliable
  <1> QED BY <1>1, InvInit, InvStep, PTL DEF Spec

-----------------------------------------------------------------------------
(* A pull leaves behind it the files of the version it has inspected.           *)

Behind(p) ==
    /\ At(p, "inspecting") => task[p].nth = 1
    /\ At(p, "renaming") /\ PartOf(p) # None =>
          content[PartOf(p)] = Full(FileOf(p), task[p].promised)
    /\ \A i \in 1 .. task[p].nth - 1 :
          /\ target[Files[i]] # None
          /\ content[target[Files[i]]] = Full(Files[i], task[p].promised)

Pulled == \A p \in Pulls : Working(p) => Behind(p)

(* Nobody but p is at work before and after. *)
LEMMA OnlyThis ==
    ASSUME Sole, NEW p \in Pulls, Working(p), \A q \in Pulls \ {p} : task'[q] = task[q],
           Working(p)' => Behind(p)'
    PROVE  Pulled'
  BY OnlyOne DEF Pulled, Working

(* What is published stays, and the pull is at the same file. *)
LEMMA StillBehind ==
    ASSUME Sound, NEW p \in Pulls, Working(p), Behind(p),
           task'[p].nth = task[p].nth,
           task[p].at # "inspecting" => task'[p].promised = task[p].promised,
           task'[p].at = "inspecting" => task[p].at = "inspecting",
           target' = target,
           \A f \in FileSet : target[f] # None => content'[target[f]] = content[target[f]],
           At(p, "renaming")' /\ PartOf(p)' # None =>
              content'[PartOf(p)'] = Full(FileOf(p), task'[p].promised)
    PROVE  Behind(p)'
  <1>1. FileOf(p)' = FileOf(p)
    BY DEF FileOf
  <1>2. task[p].nth \in 1 .. Len(Files)
    BY AtAFile
  <1>3. ASSUME NEW i \in 1 .. task'[p].nth - 1
        PROVE  /\ target'[Files[i]] # None
               /\ content'[target'[Files[i]]] = Full(Files[i], task'[p].promised)
    <2>1. i \in 1 .. task[p].nth - 1 /\ Files[i] \in FileSet /\ task[p].nth # 1
      BY <1>2, <1>3, FilesAre
    <2>2. task[p].at # "inspecting"
      BY <2>1 DEF Behind, At
    <2> QED BY <2>1, <2>2 DEF Behind
  <1>4. At(p, "inspecting")' => task'[p].nth = 1
    BY DEF Behind, At
  <1>5. At(p, "renaming")' /\ PartOf(p)' # None =>
           content'[PartOf(p)'] = Full(FileOf(p)', task'[p].promised)
    BY <1>1
  <1> QED BY <1>3, <1>4, <1>5 DEF Behind

(* The next file of the repository is another one. *)
LEMMA RenamesBehind ==
    ASSUME Base, Sole, NEW p \in Pulls, Behind(p), Renames(p)
    PROVE  /\ Pulled'
           /\ \A i \in 1 .. task[p].nth :
                 /\ target'[Files[i]] # None
                 /\ content'[target'[Files[i]]] = Full(Files[i], task[p].promised)
  <1> DEFINE n == task[p].nth
  <1>0. Sound /\ Working(p)
    BY DEF Base, Renames, At, Working
  <1>1. PICK f \in FileSet : f = FileOf(p)
    BY <1>0, AtAFile
  <1>2. /\ At(p, "renaming") /\ part[f] \in Inodes /\ content' = content
        /\ target' = [target EXCEPT ![f] = part[f]]
        /\ \A q \in Pulls \ {p} : task'[q] = task[q]
        /\ \/ task'[p] = Over
           \/ task'[p].at = "sizing" /\ task'[p].nth = n + 1 /\ task'[p].promised = task[p].promised
    BY <1>0, <1>1, RenamesType
  <1>3. n \in 1 .. Len(Files) /\ f = Files[n] /\ part[f] # None
    BY <1>0, <1>1, <1>2, AtAFile DEF FileOf
  <1>4. target \in [FileSet -> Inodes \cup {None}] /\ Len(Files) \in Nat
    BY <1>0, Arithmetic DEF Sound, TypeOK
  <1>5. ASSUME NEW i \in 1 .. n
        PROVE  /\ target'[Files[i]] # None
               /\ content'[target'[Files[i]]] = Full(Files[i], task[p].promised)
    <2>1. CASE i = n
      <3>1. content[part[f]] = Full(f, task[p].promised)
        BY <1>1, <1>2, <1>3 DEF Behind, PartOf
      <3>2. target'[f] = part[f]
        BY <1>2, <1>4
      <3> QED BY <1>2, <1>3, <2>1, <3>1, <3>2
    <2>2. CASE i # n
      <3>1. i \in 1 .. n - 1 /\ i \in 1 .. Len(Files)
        BY <1>3, <1>4, <2>2
      <3>2. Files[i] \in FileSet /\ Files[i] # f
        BY <1>3, <2>2, <3>1, FilesAre
      <3>3. target'[Files[i]] = target[Files[i]]
        BY <1>2, <1>4, <3>2
      <3> QED BY <1>2, <3>1, <3>3 DEF Behind
    <2> QED BY <2>1, <2>2
  <1>6. Working(p)' => Behind(p)'
    <2> SUFFICES ASSUME task'[p].at = "sizing", task'[p].nth = n + 1,
                        task'[p].promised = task[p].promised
                 PROVE  Behind(p)'
      BY <1>2, OverPlaced DEF Working
    <2>1. task'[p].nth - 1 = n
      BY <1>3
    <2>2. \A i \in 1 .. task'[p].nth - 1 :
             /\ target'[Files[i]] # None
             /\ content'[target'[Files[i]]] = Full(Files[i], task'[p].promised)
      BY <1>5, <2>1
    <2> QED BY <2>2 DEF Behind, At
  <1> QED BY <1>0, <1>2, <1>5, <1>6, OnlyThis

LEMMA PulledStep ==
    ASSUME Base, Sole, Whole, Reliable, Pulled, [Next]_vars, ~raced',
           \A p \in Pulls : Working(p) => Follows(p)
    PROVE  Pulled'
  <1>0. Sound /\ task \in [Pulls -> Task]
    BY DEF Base, Sound, TypeOK
  <1>1. ASSUME NEW p \in Pulls, NEW route \in BOOLEAN, Begins(p, route)
        PROVE  Pulled'
    <2>1. /\ task'[p].at = "inspecting" /\ task'[p].nth = 1
          /\ \A q \in Pulls \ {p} : task'[q] = task[q]
          /\ \A q \in Pulls : ~Working(q)
      BY <1>0, <1>1, BeginsType
    <2>2. Behind(p)'
      BY <2>1 DEF Behind, At
    <2> QED BY <2>1, <2>2 DEF Pulled, Working
  <1>2. ASSUME NEW p \in Pulls, NEW outcome \in {"completed", "failed"}, Working(p),
               Ends(p, outcome)
        PROVE  Pulled'
    BY <1>0, <1>2, EndsSole DEF Pulled
  <1>3. ASSUME UNCHANGED <<content, part, target, task>>
        PROVE  Pulled'
    BY <1>3 DEF Pulled, Working, Behind, At, PartOf, FileOf
  <1>4. ASSUME NEW p \in Pulls, Pull(p)
        PROVE  Pulled'
    <2>1. UNCHANGED <<disk, world>> /\ At(p, "idle") /\ (Begins(p, TRUE) \/ Goes(p, Over))
      BY <1>0, <1>4, PullType
    <2>2. CASE Goes(p, Over)
      <3>1. task'[p] = Over /\ \A q \in Pulls \ {p} : task'[q] = task[q]
        BY <1>0, <2>2, Change DEF Sound
      <3>2. ~Working(p)'
        BY <3>1, OverPlaced DEF Working
      <3>3. ASSUME NEW q \in Pulls, Working(q)'
            PROVE  Behind(q)'
        <4>1. task'[q] = task[q] /\ Working(q)
          BY <3>1, <3>2, <3>3 DEF Working
        <4> QED BY <2>1, <4>1 DEF Pulled, Behind, At, PartOf, FileOf, disk
      <3> QED BY <3>3 DEF Pulled
    <2> QED BY <1>1, <2>1, <2>2
  <1>5. ASSUME NEW p \in Pulls, PullUnlisted(p)
        PROVE  Pulled'
    BY <1>1, <1>5 DEF PullUnlisted
  <1>6. ASSUME NEW p \in Pulls, Cancel(p)
        PROVE  Pulled'
    <2>1. UNCHANGED disk /\ \A q \in Pulls : /\ task'[q].at = task[q].at
                                             /\ task'[q].nth = task[q].nth
                                             /\ task'[q].promised = task[q].promised
      BY <1>0, <1>6 DEF Cancel, Task
    <2> QED BY <2>1 DEF Pulled, Working, Behind, At, PartOf, FileOf, disk
  <1>7. ASSUME NEW p \in Pulls, Fails(p) \/ Vanished(p) \/ Discards(p)
        PROVE  Pulled'
    <2>1. Ends(p, "failed") /\ Working(p)
      BY <1>7 DEF Fails, Vanished, Discards, At, Working
    <2> QED BY <1>2, <2>1
  <1>8. ASSUME NEW p \in Pulls, Quiet(p)
        PROVE  Pulled'
    <2>1. /\ UNCHANGED <<content, part, target>> /\ Working(p) /\ task'[p].nth = task[p].nth
          /\ \A q \in Pulls \ {p} : task'[q] = task[q]
          /\ task'[p].at # "inspecting"
          /\ task[p].at # "inspecting" => task'[p].promised = task[p].promised
      BY <1>0, <1>8, QuietType DEF disk
    <2>2. FileOf(p)' = FileOf(p) /\ PartOf(p)' = PartOf(p)
      BY <2>1 DEF FileOf, PartOf
    <2>3. ASSUME At(p, "renaming")'
          PROVE  ReadsAll(p) \/ Verifies(p)
      BY <1>8, <2>3, QuietRenames DEF Base
    <2>4. ASSUME At(p, "renaming")', PartOf(p) # None
          PROVE  content[PartOf(p)] = Full(FileOf(p), task'[p].promised)
      <3>1. content[PartOf(p)] = Full(FileOf(p), task[p].promised)
        BY <2>1, <2>3, <2>4, ChecksReady
      <3>2. task[p].at # "inspecting"
        BY <2>3, <2>4 DEF ReadsAll, Verifies, Proceeds, At
      <3> QED BY <2>1, <3>1, <3>2
    <2>5. Behind(p)'
      BY <1>0, <2>1, <2>2, <2>4, StillBehind DEF Pulled
    <2> QED BY <2>1, <2>5, OnlyThis
  <1>9. ASSUME NEW p \in Pulls, NEW i \in Inodes, NEW s, Working(p),
               content' = content \/ content' = [content EXCEPT ![i] = s],
               \A f \in FileSet : target[f] # None => target[f] # i,
               target' = target, task'[p].at = "reading", task[p].at # "inspecting",
               task'[p].nth = task[p].nth, task'[p].promised = task[p].promised,
               \A q \in Pulls \ {p} : task'[q] = task[q]
        PROVE  Pulled'
    <2>1. \A f \in FileSet : target[f] # None => content'[target[f]] = content[target[f]]
      BY <1>0, <1>9 DEF Sound, TypeOK
    <2>2. Behind(p)'
      BY <1>0, <1>9, <2>1, StillBehind DEF Pulled, At
    <2> QED BY <1>9, <2>2, OnlyThis
  <1>10. ASSUME NEW p \in Pulls, Opens(p)
         PROVE  Pulled'
    <2> DEFINE f == FileOf(p)
    <2>1. /\ At(p, "opening") /\ f \in FileSet /\ Opened(p) \in Inodes
          /\ content' = IF task[p].resumed THEN content ELSE [content EXCEPT ![Opened(p)] = << >>]
          /\ target' = target
          /\ task'[p] = [task[p] EXCEPT !.at = "reading", !.inode = Opened(p)]
          /\ \A q \in Pulls \ {p} : task'[q] = task[q]
      BY <1>10, OpensType DEF Base, Named
    <2>2. \A g \in FileSet : target[g] # None => target[g] # Opened(p)
      BY <1>10, OpenedUnpublished
    <2>3. /\ task'[p].at = "reading" /\ task'[p].nth = task[p].nth
          /\ task'[p].promised = task[p].promised /\ task[p].at # "inspecting" /\ Working(p)
      BY <1>0, <2>1 DEF Task, At, Working
    <2> QED BY <1>9, <2>1, <2>2, <2>3
  <1>11. ASSUME NEW p \in Pulls, Writes(p)
         PROVE  Pulled'
    <2> DEFINE s == Put(content[task[p].inode], WritesAt(p), Written(p))
    <2>1. /\ At(p, "writing") /\ task[p].inode \in Inodes /\ target' = target
          /\ content' = [content EXCEPT ![task[p].inode] = s]
          /\ task'[p].at = "reading" /\ task'[p].nth = task[p].nth
          /\ \A q \in Pulls \ {p} : task'[q] = task[q]
          /\ task'[p] = [task[p] EXCEPT !.at = "reading", !.done = task[p].done + 1,
                                        !.hash = Hashed(p)]
      BY <1>0, <1>11, WritesType
    <2>4. task'[p].promised = task[p].promised
      BY <1>0, <2>1 DEF Task
    <2>2. Working(p) /\ task[p].at # "inspecting" /\ FileOf(p) \in FileSet
          /\ part[FileOf(p)] = task[p].inode /\ task[p].inode # None
      BY <1>0, <2>1, AtAFile DEF At, Working, Follows, Inodes
    <2>3. \A g \in FileSet : target[g] # None => target[g] # task[p].inode
      BY <2>2, InodeOfOne DEF Base
    <2> QED BY <1>9, <2>1, <2>2, <2>3, <2>4
  <1>12. ASSUME NEW p \in Pulls, Renames(p)
         PROVE  Pulled'
    BY <1>12, RenamesBehind DEF Pulled, Renames, At, Working
  <1>13. CASE Remove \/ RemoveDirectory
    <2>1. \A p \in Pulls : ~Working(p) /\ task'[p] = task[p]
      BY <1>13 DEF Remove, RemoveDirectory, Sole
    <2> QED BY <2>1 DEF Pulled, Working
  <1>14. CASE Crash
    <2>1. \A p \in Pulls : ~Working(p)'
      BY <1>0, <1>14, OverPlaced DEF Crash, Working
    <2> QED BY <2>1 DEF Pulled
  <1>15. CASE Update \/ UNCHANGED vars
    BY <1>3, <1>15 DEF Update, disk, vars
  <1> QED
    BY <1>4, <1>5, <1>6, <1>7, <1>8, <1>10, <1>11, <1>12, <1>13, <1>14, <1>15, NextCases

(* A pull at work is told complete when it has renamed its last file. *)
LEMMA OnlyLastRenameCompletes ==
    ASSUME Base, [Next]_vars, NEW p \in Pulls, Working(p),
           status[p] # "completed", status'[p] = "completed"
    PROVE  Renames(p) /\ task[p].nth = Len(Files)
  <1>0. Sound /\ status \in [Pulls -> {"none", "running", "completed", "cancelled", "failed"}]
    BY DEF Base, Sound, TypeOK
  <1>1. ~UNCHANGED status
    OBVIOUS
  <1>2. ASSUME NEW q \in Pulls, Ends(q, "failed")
        PROVE  FALSE
    BY <1>0, <1>2 DEF Ends, Outcome
  <1>3. ASSUME NEW q \in Pulls, Pull(q)
        PROVE  FALSE
    <2>1. p # q
      BY <1>3 DEF Pull, At, Working
    <2>2. \E new : status' = [status EXCEPT ![q] = new]
      BY <1>3 DEF Pull
    <2> QED BY <1>0, <2>1, <2>2
  <1>4. ASSUME NEW q \in Pulls, PullUnlisted(q) \/ Quiet(q) \/ Opens(q) \/ Writes(q)
        PROVE  FALSE
    BY <1>0, <1>1, <1>4, QuietType DEF PullUnlisted, Opens, Writes, Continues, told
  <1>5. ASSUME NEW q \in Pulls, Cancel(q)
        PROVE  FALSE
    BY <1>0, <1>5 DEF Cancel
  <1>6. ASSUME NEW q \in Pulls, Fails(q) \/ Vanished(q) \/ Discards(q)
        PROVE  FALSE
    BY <1>2, <1>6 DEF Fails, Vanished, Discards
  <1>7. ASSUME NEW q \in Pulls, Renames(q)
        PROVE  Renames(p) /\ task[p].nth = Len(Files)
    <2>1. task[q].nth = Len(Files) /\ Ends(q, "completed")
      BY <1>1, <1>7 DEF Renames, Continues, told
    <2>2. p = q
      BY <1>0, <2>1 DEF Ends
    <2> QED BY <1>7, <2>1, <2>2
  <1>8. CASE Remove \/ RemoveDirectory \/ Update \/ UNCHANGED vars
    BY <1>1, <1>8 DEF Remove, RemoveDirectory, Update, vars, told
  <1>9. CASE Crash
    BY <1>0, <1>9 DEF Crash
  <1> QED BY <1>3, <1>4, <1>5, <1>6, <1>7, <1>8, <1>9, NextCases

(* A pull that goes through the files and is told complete leaves all of them,  *)
(* whole and of one version, whatever others have left before.                 *)
THEOREM PulledModelIsWhole == Spec => PulledIsWhole
  <1> DEFINE PInv == IInv /\ (~raced /\ Reliable => Pulled)
             Completes(p) == /\ Working(p) /\ status[p] # "completed"
                             /\ status'[p] = "completed" /\ ~raced /\ (sha \/ upstream = 1)
             Delivers(p) == \A f \in FileSet : /\ target'[f] # None
                                               /\ content'[target'[f]] = Full(f, task[p].promised)
  <1>1. Init => PInv
    BY InvInit, OverPlaced DEF Init, Pulled, Working
  <1>2. PInv /\ [Next]_vars => PInv'
    <2> SUFFICES ASSUME PInv, [Next]_vars
                 PROVE  PInv'
      OBVIOUS
    <2>1. IInv' /\ (~raced' => ~raced) /\ (Reliable' => Reliable)
      BY InvStep, RacedStays, ReliableStays DEF IInv
    <2> QED BY <2>1, PulledStep DEF IInv
  <1>3. ASSUME PInv, [Next]_vars, NEW p \in Pulls, Completes(p)
        PROVE  Delivers(p)
    <2>0. /\ Base /\ Sound /\ Sole /\ Behind(p) /\ Working(p)
          /\ status \in [Pulls -> {"none", "running", "completed", "cancelled", "failed"}]
      BY <1>3 DEF IInv, Reliable, Pulled, Base, Sound, TypeOK
    <2>1. Renames(p) /\ task[p].nth = Len(Files)
      BY <1>3, <2>0, OnlyLastRenameCompletes
    <2>2. \A i \in 1 .. Len(Files) : /\ target'[Files[i]] # None
                                     /\ content'[target'[Files[i]]] = Full(Files[i], task[p].promised)
      BY <2>0, <2>1, RenamesBehind
    <2> QED BY <2>2, FilesAre DEF FileSet
  <1>4. PInv /\ [Next]_vars =>
           [\A p \in Pulls :
               /\ Working(p) /\ status[p] # "completed" /\ status'[p] = "completed"
               /\ ~raced /\ (sha \/ upstream = 1)
               => \A f \in FileSet : /\ target'[f] # None
                                     /\ content'[target'[f]] = Full(f, task[p].promised)]_vars
    BY <1>3
  <1> HIDE DEF PInv
  <1> QED BY <1>1, <1>2, <1>4, PTL DEF Spec, PulledIsWhole

-----------------------------------------------------------------------------
(* The catalogue.  What is listed and what answers a pull are functions of the  *)
(* files that are there, whatever pulls, removals and crashes have left.        *)

HIDE DownloadAssumption
USE CatalogueAssumption DEF Repos, Directory

PullStages ==
    {"idle", "opening", "downloading", "checking", "pruning", "completed", "over"}
Targets == [repo : Repos \cup {Nothing}, file : Ggufs \cup {Nothing},
            backend : Backends \cup {Nothing}]
PullRecord == [at : PullStages, target : Targets, todo : SUBSET AllFiles,
               fetched : SUBSET AllFiles, old : SUBSET Ggufs, chosen : BOOLEAN,
               disturbed : BOOLEAN]
Removable == [repo : Repos, path : Ggufs \cup {Directory}]
RemovalRecord == [at : {"idle", "removing", "over"}, here : BOOLEAN,
                  todo : SUBSET Removable, dirs : SUBSET Repos, any : BOOLEAN]
Listed == [name : [repo : Repos, file : Ggufs \cup {Nothing}], repo : Repos,
           path : Ggufs \cup {Directory}]

(* The types of what is in the cache and of who is at work there. *)
CacheTyped ==
    /\ darwin \in BOOLEAN /\ offered \in [Repos -> SUBSET AllFiles]
    /\ \A t \in Tags : offered[t] \subseteq Ggufs
    /\ dirs \subseteq Repos /\ stored \in [Repos -> SUBSET AllFiles]
    /\ \A r \in Repos : stored[r] # {} => r \in dirs
    /\ pull \in [PullCalls -> PullRecord] /\ removal \in [Removals -> RemovalRecord]
    /\ \A p \in PullCalls : pull[p].todo \subseteq pull[p].fetched

ListTyped ==
    /\ memo \in [there : BOOLEAN, age : 0 .. StaleLimit, value : SUBSET Listed]
    /\ refresh \in [on : BOOLEAN, roots : Seq(SUBSET Repos), todo : SUBSET Repos,
                    got : SUBSET Listed]
    /\ poll \in [Pollers -> BOOLEAN]
    /\ \A c \in Pollers : poll[c] => refresh.on

(* What a pull that works is after: it comes from upstream, and a GGUF file that *)
(* was not asked for by name answers a pull for MLX.                            *)
Suits(p) ==
    LET t == pull[p].target
    IN  /\ t.repo \in Repos /\ pull[p].fetched \in Fetches(t)
        /\ t.repo \in Tags => t.file = Nothing
        /\ t.repo \in Hub /\ t.file = Nothing /\ pull[p].fetched \cap Ggufs # {}
               => t.backend = "mlx"
        /\ pull[p].chosen /\ t.file = Nothing /\ t.backend # "gguf" => darwin

(* The last steps are those of a tag, which has one file; what they remove is  *)
(* not what was pulled.                                                        *)
Staged(p) ==
    /\ pull[p].at \in {"checking", "pruning"} =>
           pull[p].target.repo \in Tags /\ pull[p].todo = {}
    /\ pull[p].old \cap pull[p].fetched = {}

(* The other files of a tag. *)
Others(p) == (stored[pull[p].target.repo] \cap Ggufs) \ pull[p].fetched

(* Who is undisturbed is alone with its repository, and what it has is there;   *)
(* what the directory held besides is what it was read to hold.                 *)
Kept(p) ==
    ~pull[p].disturbed =>
        /\ pull[p].fetched \ pull[p].todo \subseteq stored[pull[p].target.repo]
        /\ ~RemovalsGoOn
        /\ \A q \in PullCalls \ {p} :
              PullWorks(q) => pull[q].target.repo # pull[p].target.repo
        /\ pull[p].at = "pruning" => Others(p) \subseteq pull[p].old

PullsSound == \A p \in PullCalls : PullWorks(p) => Suits(p) /\ Staged(p) /\ Kept(p)

CatalogueInv == CacheTyped /\ ListTyped /\ PullsSound

LEMMA OneGguf ==
    ASSUME NEW S \in SUBSET Ggufs
    PROVE  /\ Cardinality(S) \in Nat
           /\ Cardinality(S) = 1 <=> \E f \in S : S = {f}
           /\ Cardinality(S) = 0 <=> S = {}
  <1>1. IsFiniteSet(S)
    BY FS_Subset
  <1>2. Cardinality(S) = 1 <=> \E f : S = {f}
    BY <1>1, FS_Singleton
  <1> QED BY <1>1, <1>2, FS_CardinalityType, FS_EmptySet

LEMMA NothingIsNoFile ==
    /\ Nothing \notin Ggufs /\ Nothing # Directory /\ Nothing \notin Backends
    /\ Nothing \notin Repos /\ \A r \in Repos : r # Alias.name
  BY DEF AllFiles

(* A GGUF file that is alone answers for its repository. *)
LEMMA AloneServes ==
    ASSUME NEW t, t.file = Nothing, NEW files, NEW f \in Ggufs, files \cap Ggufs = {f},
           t.backend = "gguf" \/ ~HasMlxLayout(files)
    PROVE  Serves(t, files) = f
  <1>1. Cardinality({f}) = 1
    BY OneGguf
  <1> QED BY <1>1 DEF Serves

(* Only who names no file and accepts MLX is answered with a directory. *)
LEMMA DirectoryServes ==
    ASSUME NEW t, t.file \in Ggufs \cup {Nothing}, NEW files,
           Serves(t, files) = Directory
    PROVE  t.file = Nothing /\ t.backend # "gguf"
  <1>1. CASE t.file # Nothing
    BY <1>1, NothingIsNoFile DEF Serves
  <1>2. CASE t.file = Nothing /\ t.backend = "gguf"
    <2>1. CASE Cardinality(files \cap Ggufs) = 1
      <3>1. PICK f \in files \cap Ggufs : files \cap Ggufs = {f}
        BY <2>1, OneGguf
      <3> QED BY <1>2, <3>1, AloneServes
    <2>2. CASE Cardinality(files \cap Ggufs) # 1
      BY <1>2, <2>2, NothingIsNoFile DEF Serves
    <2> QED BY <2>1, <2>2
  <1> QED BY <1>1, <1>2

LEMMA CachedAreListed ==
    ASSUME NEW r \in Repos, NEW files
    PROVE  CachedModelsForRepo(r, files) \subseteq Listed
  BY DEF CachedModelsForRepo, Listed, NameOf

LEMMA TypedResolve ==
    CacheTyped => ListedResolves
  <1> SUFFICES ASSUME CacheTyped, NEW m \in ListCachedModels,
                      m.path # Directory => ~HasMlxLayout(stored[m.repo])
               PROVE  ResolveModel(m.name, Nothing) = Place(m.repo, m.path)
    BY DEF ListedResolves
  <1>1. PICK r \in dirs : m \in CachedModelsForRepo(r, stored[r])
    BY DEF ListCachedModels
  <1>2. r \in Repos /\ r # Alias.name
    BY NothingIsNoFile DEF CacheTyped
  <1> DEFINE ggufs == stored[r] \cap Ggufs
             answers == CachedResult(Target(r, Nothing, Nothing))
  <1>3. ASSUME m.name = NameOf(r, Nothing), m.repo = r, answers = m.path,
               m.path # Nothing
        PROVE  ResolveModel(m.name, Nothing) = Place(m.repo, m.path)
    BY <1>2, <1>3 DEF ResolveModel, NameOf, PlaceOrNot
  <1>4. ASSUME m = [name |-> NameOf(r, Nothing), repo |-> r, path |-> Directory],
               HasMlxLayout(stored[r])
        PROVE  ResolveModel(m.name, Nothing) = Place(m.repo, m.path)
    <2>1. answers = Directory
      BY <1>4, NothingIsNoFile DEF CachedResult, Target, Serves, Backends
    <2> QED BY <1>3, <1>4, <2>1, NothingIsNoFile
  <1>5. ASSUME NEW f \in ggufs,
               m = [name |-> NameOf(r, IF Cardinality(ggufs) = 1 THEN Nothing ELSE f),
                    repo |-> r, path |-> f]
        PROVE  ResolveModel(m.name, Nothing) = Place(m.repo, m.path)
    <2>1. f # Nothing /\ ~HasMlxLayout(stored[r])
      BY <1>5, NothingIsNoFile
    <2>2. CASE Cardinality(ggufs) = 1
      <3>1. ggufs = {f}
        <4>1. ggufs \in SUBSET Ggufs
          OBVIOUS
        <4> QED BY <1>5, <2>2, <4>1, OneGguf
      <3>2. answers = f
        BY <2>1, <3>1, AloneServes DEF CachedResult, Target
      <3> QED BY <1>3, <1>5, <2>1, <2>2, <3>2
    <2>3. CASE Cardinality(ggufs) # 1
      BY <1>5, <2>1, <2>3 DEF ResolveModel, NameOf
    <2> QED BY <2>2, <2>3
  <1> QED BY <1>1, <1>4, <1>5 DEF CachedModelsForRepo

(* What a request is after. *)
LEMMA AliasIsTarget ==
    ASSUME NEW backend \in Backends \cup {Nothing}
    PROVE  LET t == AliasTarget(backend)
           IN  /\ t \in Targets /\ t.repo \in Hub
               /\ \/ t = Target(Alias.mlx, Nothing, "mlx")
                  \/ t = Target(Alias.gguf, Alias.file, "gguf")
               /\ backend = "mlx" => t.backend = "mlx"
  BY DEF AliasTarget, Target, Targets, Backends

LEMMA PullTargetIs ==
    ASSUME NEW request \in Requests, request.model \in Tags => request.file = Nothing
    PROVE  LET t == PullTarget(request)
           IN  /\ t \in Targets /\ t.repo \in Repos
               /\ t.repo \in Tags => t.file = Nothing
               /\ request.file # Nothing => t.file = request.file
               /\ request.backend = "mlx" => t.backend = "mlx"
  <1>1. CASE request.model = Alias.name
    <2> DEFINE t == AliasTarget(request.backend)
    <2>1. t \in Targets /\ t.repo \in Hub /\ (request.backend = "mlx" => t.backend = "mlx")
      BY AliasIsTarget DEF Requests
    <2>2. request.file \in Ggufs \cup {Nothing}
      BY DEF Requests
    <2>3. PullTarget(request) = [t EXCEPT !.file = IF request.file = Nothing THEN @ ELSE request.file]
      BY <1>1 DEF PullTarget
    <2> HIDE DEF t
    <2> QED BY <2>1, <2>2, <2>3 DEF Targets
  <1>2. CASE request.model # Alias.name
    BY <1>2 DEF PullTarget, Target, Requests, Targets
  <1> QED BY <1>1, <1>2

LEMMA OptionsAre ==
    ASSUME NEW r \in Repos, NEW o \in OptionsForRepo(r)
    PROVE  /\ o.repo = r
           /\ \/ r \in Tags /\ o = Option(r, Nothing, "gguf", TRUE, 40)
              \/ r \in Hub /\ \E f \in offered[r] \cap Ggufs :
                    o = Option(r, f, "gguf", TRUE, Score[f])
              \/ r \in Hub /\ o = MlxOption(r)
  <1>1. CASE r \in Tags
    BY <1>1 DEF OptionsForRepo, Option
  <1>2. CASE r \notin Tags
    <2>1. \/ o \in {Option(r, f, "gguf", TRUE, Score[f]) : f \in offered[r] \cap Ggufs}
          \/ o = MlxOption(r)
      BY <1>2 DEF OptionsForRepo
    <2> QED BY <1>2, <2>1 DEF Option, MlxOption
  <1> QED BY <1>1, <1>2

LEMMA TargetReposAre ==
    ASSUME NEW request \in Requests
    PROVE  TargetRepos(request) \subseteq Repos
  <1>1. Alias.mlx \in Repos /\ Alias.gguf \in Repos
    OBVIOUS
  <1>2. CASE request.model = Alias.name /\ request.backend = Nothing
    BY <1>1, <1>2 DEF TargetRepos
  <1>3. CASE ~(request.model = Alias.name /\ request.backend = Nothing)
    <2>1. PullTarget(request).repo \in Repos
      <3>1. CASE request.model = Alias.name
        <4>1. AliasTarget(request.backend).repo \in Repos
          BY AliasIsTarget DEF Requests
        <4>2. PullTarget(request).repo = AliasTarget(request.backend).repo
          BY <3>1 DEF PullTarget, AliasTarget, Target
        <4> QED BY <4>1, <4>2
      <3>2. CASE request.model # Alias.name
        BY <3>2 DEF PullTarget, Target, Requests
      <3> QED BY <3>1, <3>2
    <2> QED BY <1>3, <2>1 DEF TargetRepos
  <1> QED BY <1>2, <1>3

LEMMA FetchedAreFiles ==
    ASSUME CacheTyped, NEW t, t.repo \in Repos, NEW fs \in Fetches(t)
    PROVE  /\ fs \in SUBSET AllFiles
           /\ t.repo \in Tags => t.backend # "mlx" /\ \E f \in Ggufs : fs = {f}
           /\ t.repo \in Hub /\ t.file # Nothing => fs = {t.file}
           /\ t.repo \in Hub /\ t.file = Nothing =>
                /\ t.backend # "gguf"
                /\ \/ \E f \in Ggufs : offered[t.repo] \cap Ggufs = {f} /\ fs = {f}
                   \/ fs \cap Ggufs = {} /\ HasMlxLayout(fs)
  <1> DEFINE there == offered[t.repo]
             ggufs == there \cap Ggufs
  <1>1. there \in SUBSET AllFiles
    BY DEF CacheTyped
  <1>2. CASE t.repo \in Tags
    <2>1. there \subseteq Ggufs
      BY <1>2 DEF CacheTyped
    <2>2. t.backend # "mlx" /\ fs \in {{f} : f \in there}
      BY <1>2 DEF Fetches
    <2> QED BY <1>1, <1>2, <2>1, <2>2
  <1>3. CASE t.repo \notin Tags /\ t.file # Nothing
    <2>1. fs \in {{f} : f \in {t.file} \cap there}
      BY <1>3 DEF Fetches
    <2> QED BY <1>1, <1>3, <2>1
  <1>4. CASE t.repo \notin Tags /\ t.file = Nothing
    <2>1. t.backend # "gguf" /\ ~(Cardinality(ggufs) > 1)
      BY <1>4 DEF Fetches
    <2>2. CASE ggufs # {}
      <3>1. fs = ggufs
        BY <1>4, <2>1, <2>2 DEF Fetches
      <3>2. Cardinality(ggufs) = 1
        BY <2>1, <2>2, OneGguf
      <3>3. PICK f \in ggufs : ggufs = {f}
        BY <3>2, OneGguf
      <3> QED BY <1>1, <1>4, <2>1, <3>1, <3>3
    <2>3. CASE ggufs = {}
      <3>1. fs = there /\ HasMlxLayout(fs)
        BY <1>4, <2>1, <2>3 DEF Fetches
      <3> QED BY <1>1, <1>4, <2>1, <2>3, <3>1
    <2> QED BY <2>2, <2>3
  <1> QED BY <1>2, <1>3, <1>4

(* The best of a GGUF file and an MLX layout. *)
LEMMA SelectedSome ==
    ASSUME CacheTyped, NEW request \in Requests, request.model \in Hub,
           request.file = Nothing, request.backend = Nothing,
           NEW f \in Ggufs, offered[request.model] \cap Ggufs = {f}
    PROVE  Selected(request) # {}
  <1> DEFINE r == request.model
             gguf == Option(r, f, "gguf", TRUE, Score[f])
             able == {o \in UNION {OptionsForRepo(x) : x \in TargetRepos(request)} :
                        Admits(request, o) /\ OfTheAlias(request, o) /\ o.supported}
  <1>1. TargetRepos(request) = {r} /\ r \in Repos \ Tags /\ r # Alias.name
    BY NothingIsNoFile DEF TargetRepos, PullTarget, Target
  <1>2. Admits(request, gguf) /\ OfTheAlias(request, gguf) /\ gguf.supported
    BY <1>1, NothingIsNoFile DEF Admits, OfTheAlias, Option
  <1>3. gguf \in OptionsForRepo(r)
    BY <1>1 DEF OptionsForRepo
  <1>4. gguf \in able
    <2>1. gguf \in UNION {OptionsForRepo(x) : x \in TargetRepos(request)}
      <3>1. r \in TargetRepos(request)
        BY <1>1
      <3>2. OptionsForRepo(r) \in {OptionsForRepo(x) : x \in TargetRepos(request)}
        BY <3>1
      <3> QED BY <1>3, <3>2
    <2> QED BY <1>2, <2>1
  <1>5. ASSUME NEW o \in able
        PROVE  o = gguf \/ o = MlxOption(r)
    <2>1. o \in OptionsForRepo(r)
      BY <1>1
    <2>2. \/ \E g \in offered[r] \cap Ggufs : o = Option(r, g, "gguf", TRUE, Score[g])
          \/ o = MlxOption(r)
      <3> HIDE DEF r
      <3>1. r \in Repos /\ r \notin Tags
        BY <1>1
      <3> QED BY <2>1, <3>1, OptionsAre
    <2> QED BY <2>2
  <1>6. gguf.score \in Int /\ MlxOption(r).score \in Int
    BY DEF Option, MlxOption
  <1>7. \E o \in able : \A x \in able : x.score <= o.score
    <2> DEFINE mlx == MlxOption(r)
    <2> HIDE DEF able, gguf, mlx
    <2>1. CASE mlx \in able /\ mlx.score > gguf.score
      <3>1. \A x \in able : x.score <= mlx.score
        BY <1>5, <1>6, <2>1 DEF mlx
      <3> QED BY <2>1, <3>1
    <2>2. CASE ~(mlx \in able /\ mlx.score > gguf.score)
      <3>1. \A x \in able : x.score <= gguf.score
        BY <1>5, <1>6, <2>2 DEF mlx
      <3> QED BY <1>4, <3>1
    <2> QED BY <2>1, <2>2
  <1> QED BY <1>7 DEF Selected

LEMMA WantedTargets ==
    ASSUME CacheTyped, NEW request \in Requests,
           request.model \in Tags => request.file = Nothing,
           NEW t \in Wants(request)
    PROVE  /\ t \in Targets /\ t.repo \in Repos
           /\ t.repo \in Tags => t.file = Nothing
           /\ Chosen(request) /\ t.file = Nothing /\ t.backend # "gguf" => darwin
           /\ \A fs \in Fetches(t) :
                t.repo \in Hub /\ t.file = Nothing /\ fs \cap Ggufs # {}
                    => t.backend = "mlx"
  <1>1. CASE Chosen(request)
    <2>1. PICK o \in Selected(request) : t = Target(o.repo, o.file, o.backend)
      BY <1>1 DEF Wants
    <2>2. PICK r \in TargetRepos(request) : o \in OptionsForRepo(r) /\ o.supported
      BY <2>1 DEF Selected
    <2>3. r \in Repos
      BY TargetReposAre
    <2>4. \/ r \in Tags /\ t = Target(r, Nothing, "gguf")
          \/ r \in Hub /\ \E f \in Ggufs : t = Target(r, f, "gguf")
          \/ r \in Hub /\ t = Target(r, Nothing, "mlx") /\ darwin
      BY <2>1, <2>2, <2>3, OptionsAre DEF Option, MlxOption
    <2> QED BY <2>3, <2>4, NothingIsNoFile DEF Target, Targets, Backends
  <1>2. CASE ~Chosen(request)
    <2>1. t = PullTarget(request)
      BY <1>2 DEF Wants
    <2>2. /\ t \in Targets /\ t.repo \in Repos
          /\ t.repo \in Tags => t.file = Nothing
          /\ request.file # Nothing => t.file = request.file
          /\ request.backend = "mlx" => t.backend = "mlx"
      BY <2>1, PullTargetIs
    <2>3. ASSUME NEW fs \in Fetches(t), t.repo \in Hub, t.file = Nothing,
                 fs \cap Ggufs # {}, t.backend # "mlx"
          PROVE  FALSE
      <3>1. request.file = Nothing /\ request.backend # "mlx" /\ Selected(request) = {}
        BY <1>2, <2>2, <2>3 DEF Chosen
      <3>2. t.repo \notin Tags /\ t.backend # "gguf"
        BY <2>2, <2>3, FetchedAreFiles
      <3>3. request.model # Alias.name
        <4> SUFFICES ASSUME request.model = Alias.name PROVE FALSE
          OBVIOUS
        <4>1. t = AliasTarget(request.backend)
          BY <2>1, <3>1, AliasIsTarget DEF PullTarget, AliasTarget, Target
        <4>2. t = Target(Alias.mlx, Nothing, "mlx") \/ t = Target(Alias.gguf, Alias.file, "gguf")
          BY <4>1, AliasIsTarget DEF Requests
        <4> QED BY <2>3, <3>2, <4>2 DEF Target
      <3>4. t = Target(request.model, Nothing, request.backend)
        BY <2>1, <3>1, <3>3 DEF PullTarget
      <3>5. request.model \in Hub /\ request.backend = Nothing
        BY <2>3, <3>1, <3>2, <3>4 DEF Target, Requests, Backends
      <3>6. PICK f \in Ggufs : offered[request.model] \cap Ggufs = {f}
        <4>1. t.repo = request.model
          BY <3>4 DEF Target
        <4>2. \/ \E f \in Ggufs : offered[t.repo] \cap Ggufs = {f} /\ fs = {f}
              \/ fs \cap Ggufs = {}
          BY <2>2, <2>3, FetchedAreFiles
        <4> QED BY <2>3, <4>1, <4>2
      <3> QED BY <3>1, <3>5, <3>6, SelectedSome
    <2> QED BY <1>2, <2>2, <2>3
  <1> QED BY <1>1, <1>2

(* What was fetched and is there answers the next pull. *)
LEMMA FetchedServes ==
    ASSUME CacheTyped, NEW t \in Targets, t.repo \in Repos,
           t.repo \in Tags => t.file = Nothing,
           NEW fs \in Fetches(t), NEW files \in SUBSET AllFiles, fs \subseteq files,
           t.repo \in Tags => files \cap Ggufs \subseteq fs,
           t.repo \in Hub /\ t.file = Nothing => fs \cap Ggufs = {}
    PROVE  Serves(t, files) # Nothing
  <1>1. CASE t.repo \in Tags
    <2>1. PICK f \in Ggufs : fs = {f}
      BY <1>1, FetchedAreFiles
    <2>2. files \cap Ggufs = {f}
      BY <1>1, <2>1
    <2>3. CASE t.backend # "gguf" /\ HasMlxLayout(files)
      BY <1>1, <2>3, NothingIsNoFile DEF Serves
    <2>4. CASE ~(t.backend # "gguf" /\ HasMlxLayout(files))
      BY <1>1, <2>2, <2>4, AloneServes, NothingIsNoFile
    <2> QED BY <2>3, <2>4
  <1>2. CASE t.repo \notin Tags /\ t.file # Nothing
    <2>1. fs = {t.file}
      BY <1>2, FetchedAreFiles
    <2> QED BY <1>2, <2>1 DEF Serves
  <1>3. CASE t.repo \notin Tags /\ t.file = Nothing
    <2>1. t.backend # "gguf" /\ HasMlxLayout(fs)
      BY <1>3, FetchedAreFiles
    <2>2. HasMlxLayout(files)
      BY <2>1 DEF HasMlxLayout
    <2> QED BY <1>3, <2>1, <2>2, NothingIsNoFile DEF Serves
  <1> QED BY <1>1, <1>2, <1>3

-----------------------------------------------------------------------------
(* Steps. *)

LEMMA CatalogueStarts == CatalogueInit => CatalogueInv
  <1> SUFFICES ASSUME CatalogueInit PROVE CatalogueInv
    OBVIOUS
  <1> USE DEF CatalogueInit
  <1>1. NoPull \in PullRecord /\ NoRemoval \in RemovalRecord
    BY DEF NoPull, NoRemoval, PullRecord, RemovalRecord, PullStages, Targets, Target
  <1>2. CacheTyped
    BY <1>1 DEF CacheTyped, NoPull
  <1>3. ListTyped
    BY DEF ListTyped, NoMemo, NoRefresh
  <1>4. PullsSound
    BY DEF PullsSound, PullWorks, NoPull
  <1> QED BY <1>2, <1>3, <1>4 DEF CatalogueInv

(* The list. *)
ListStep ==
    \/ \E c \in Pollers : List(c)
    \/ ReadsRoot \/ ReadsRepo \/ RefreshFails \/ RefreshEnds \/ MemoAges

LEMMA AnswersTyped ==
    ASSUME ListTyped, NEW value, Answer(value)
    PROVE  poll' \in [Pollers -> BOOLEAN] /\ \A c \in Pollers : ~poll'[c]
  BY DEF Answer, ListTyped

LEMMA ListStepTyped ==
    ASSUME CacheTyped, ListTyped, ListStep
    PROVE  ListTyped'
  <1> USE DEF ListTyped
  <1>1. NoMemo \in [there : BOOLEAN, age : 0 .. StaleLimit, value : SUBSET Listed]
    BY DEF NoMemo
  <1>2. NoRefresh \in [on : BOOLEAN, roots : Seq(SUBSET Repos), todo : SUBSET Repos,
                       got : SUBSET Listed]
    BY DEF NoRefresh
  <1>3. Refreshing \in [on : BOOLEAN, roots : Seq(SUBSET Repos), todo : SUBSET Repos,
                        got : SUBSET Listed] /\ Refreshing.on
    <2>1. Sources \in Seq(SUBSET Repos)
      BY DEF Sources
    <2> QED BY <1>2, <2>1 DEF Refreshing, NoRefresh
  <1>4. ASSUME NEW c \in Pollers, List(c)
        PROVE  ListTyped'
    <2>1. ~Usable => ~Fresh
      BY DEF Usable, Fresh
    <2>2. memo' = memo
      BY <1>4 DEF List
    <2>3. refresh' = refresh \/ refresh' = Refreshing
      BY <1>4 DEF List
    <2>4. refresh.on => refresh'.on
      BY <1>3, <2>3
    <2>5. CASE Usable
      BY <1>3, <1>4, <2>2, <2>3, <2>4, <2>5 DEF List
    <2>6. CASE ~Usable
      <3>1. refresh' = Refreshing
        BY <1>4, <2>1, <2>6 DEF List
      <3>2. poll' \in [Pollers -> BOOLEAN]
        BY <1>4, <2>6 DEF List
      <3> QED BY <1>3, <2>2, <3>1, <3>2
    <2> QED BY <2>5, <2>6
  <1>5. ASSUME ReadsRoot
        PROVE  ListTyped'
    <2>1. Tail(refresh.roots) \in Seq(SUBSET Repos) /\ Head(refresh.roots) \in SUBSET Repos
      BY <1>5 DEF ReadsRoot
    <2>2. refresh' = [refresh EXCEPT !.roots = Tail(refresh.roots),
                                     !.todo = dirs \cap Head(refresh.roots)]
      BY <1>5 DEF ReadsRoot
    <2>3. refresh' \in [on : BOOLEAN, roots : Seq(SUBSET Repos), todo : SUBSET Repos,
                        got : SUBSET Listed] /\ refresh'.on = refresh.on
      BY <2>1, <2>2 DEF CacheTyped
    <2> QED BY <1>5, <2>3 DEF ReadsRoot
  <1>6. ASSUME ReadsRepo
        PROVE  ListTyped'
    <2>1. PICK r \in refresh.todo \cap dirs :
             refresh' = [refresh EXCEPT !.todo = refresh.todo \ {r},
                            !.got = refresh.got \cup CachedModelsForRepo(r, stored[r])]
      BY <1>6 DEF ReadsRepo
    <2>2. CachedModelsForRepo(r, stored[r]) \subseteq Listed
      BY CachedAreListed
    <2> QED BY <1>6, <2>1, <2>2 DEF ReadsRepo
  <1>7. ASSUME RefreshFails
        PROVE  ListTyped'
    BY <1>2, <1>7, AnswersTyped DEF RefreshFails
  <1>8. ASSUME RefreshEnds
        PROVE  ListTyped'
    BY <1>2, <1>8, AnswersTyped DEF RefreshEnds
  <1>9. ASSUME MemoAges
        PROVE  ListTyped'
    BY <1>9 DEF MemoAges
  <1> QED BY <1>4, <1>5, <1>6, <1>7, <1>8, <1>9 DEF ListStep

(* Elsewhere the memo is dropped or kept. *)
LEMMA ListKept ==
    ASSUME ListTyped, memo' = memo \/ memo' = NoMemo, UNCHANGED <<refresh, poll>>
    PROVE  ListTyped'
  <1>1. NoMemo \in [there : BOOLEAN, age : 0 .. StaleLimit, value : SUBSET Listed]
    BY DEF NoMemo
  <1> QED BY <1>1 DEF ListTyped

(* What a pull is after does not change. *)
LEMMA SuitsStays ==
    ASSUME NEW p \in PullCalls, Suits(p), UNCHANGED outside,
           pull'[p].target = pull[p].target, pull'[p].fetched = pull[p].fetched,
           pull'[p].chosen = pull[p].chosen
    PROVE  Suits(p)'
  BY DEF Suits, outside, Fetches, HasMlxLayout

(* The other pulls work on with what is theirs. *)
LEMMA OthersStay ==
    ASSUME PullsSound, NEW x \in PullCalls, PullWorks(x), UNCHANGED outside,
           pull'[x] = pull[x],
           \A q \in PullCalls :
              PullWorks(q)' => PullWorks(q) /\ pull'[q].target = pull[q].target,
           RemovalsGoOn' => RemovalsGoOn,
           ~pull[x].disturbed =>
              stored'[pull[x].target.repo] = stored[pull[x].target.repo]
    PROVE  Suits(x)' /\ Staged(x)' /\ Kept(x)'
  <1>1. Suits(x) /\ Staged(x) /\ Kept(x)
    BY DEF PullsSound
  <1>2. Suits(x)'
    BY <1>1, SuitsStays
  <1>3. Staged(x)'
    BY <1>1 DEF Staged
  <1>4. Kept(x)'
    BY <1>1 DEF Kept, Others
  <1> QED BY <1>2, <1>3, <1>4

LEMMA TheyAreTyped ==
    /\ NoPull \in PullRecord /\ NoRemoval \in RemovalRecord
    /\ \A at \in PullStages : [NoPull EXCEPT !.at = at] \in PullRecord
    /\ NoPull.todo = {} /\ NoPull.fetched = {}
  BY DEF NoPull, NoRemoval, PullRecord, RemovalRecord, PullStages, Targets, Target

(* A pull begins. *)
LEMMA PullModelSound ==
    ASSUME CatalogueInv, NEW p \in PullCalls, PullModel(p)
    PROVE  CacheTyped' /\ PullsSound'
  <1> USE DEF CatalogueInv, CacheTyped
  <1>1. PICK request \in Requests :
           /\ request.model \in Tags => request.file = Nothing
           /\ \E t \in Wants(request) :
                LET rivals == {q \in PullCalls : PullWorks(q) /\ pull[q].target.repo = t.repo}
                IN  \/ pull' = [pull EXCEPT ![p] = [NoPull EXCEPT !.at = "over"]]
                    \/ \E fs \in Fetches(t) :
                          pull' = [q \in PullCalls |->
                              IF q = p
                              THEN [at |-> "opening", target |-> t, todo |-> fs,
                                    fetched |-> fs, old |-> {}, chosen |-> Chosen(request),
                                    disturbed |-> RemovalsGoOn \/ rivals # {}]
                              ELSE [pull[q] EXCEPT !.disturbed = @ \/ q \in rivals]]
    BY DEF PullModel
  <1>2. /\ UNCHANGED <<dirs, stored, removal, darwin, offered>> /\ UNCHANGED outside
        /\ ~PullWorks(p)
    BY DEF PullModel, cache, outside, PullWorks
  <1>3. RemovalsGoOn' = RemovalsGoOn
    BY <1>2 DEF RemovalsGoOn
  <1>4. CASE pull' = [pull EXCEPT ![p] = [NoPull EXCEPT !.at = "over"]]
    <2>1. CacheTyped'
      BY <1>2, <1>4, TheyAreTyped DEF PullStages
    <2>2. ~PullWorks(p)'
      BY <1>4, TheyAreTyped DEF PullWorks, NoPull
    <2>3. \A q \in PullCalls \ {p} : pull'[q] = pull[q]
      BY <1>4
    <2>4. ASSUME NEW x \in PullCalls, PullWorks(x)'
          PROVE  Suits(x)' /\ Staged(x)' /\ Kept(x)'
      <3>1. x # p /\ pull'[x] = pull[x] /\ PullWorks(x)
        BY <2>2, <2>3, <2>4 DEF PullWorks
      <3>2. \A q \in PullCalls : PullWorks(q)' =>
               PullWorks(q) /\ pull'[q].target = pull[q].target
        BY <2>2, <2>3 DEF PullWorks
      <3> QED BY <1>2, <1>3, <3>1, <3>2, OthersStay
    <2> QED BY <2>1, <2>4 DEF PullsSound
  <1>5. PICK t \in Wants(request) :
           LET rivals == {q \in PullCalls : PullWorks(q) /\ pull[q].target.repo = t.repo}
           IN  \/ pull' = [pull EXCEPT ![p] = [NoPull EXCEPT !.at = "over"]]
               \/ \E fs \in Fetches(t) :
                     pull' = [q \in PullCalls |->
                         IF q = p
                         THEN [at |-> "opening", target |-> t, todo |-> fs,
                               fetched |-> fs, old |-> {}, chosen |-> Chosen(request),
                               disturbed |-> RemovalsGoOn \/ rivals # {}]
                         ELSE [pull[q] EXCEPT !.disturbed = @ \/ q \in rivals]]
    BY <1>1
  <1>6. PICK rivals \in SUBSET PullCalls :
           rivals = {q \in PullCalls : PullWorks(q) /\ pull[q].target.repo = t.repo}
    OBVIOUS
  <1>7. CASE \E fs \in Fetches(t) :
                pull' = [q \in PullCalls |->
                    IF q = p
                    THEN [at |-> "opening", target |-> t, todo |-> fs,
                          fetched |-> fs, old |-> {}, chosen |-> Chosen(request),
                          disturbed |-> RemovalsGoOn \/ rivals # {}]
                    ELSE [pull[q] EXCEPT !.disturbed = @ \/ q \in rivals]]
    <2>0. PICK fs \in Fetches(t) :
             pull' = [q \in PullCalls |->
                 IF q = p
                 THEN [at |-> "opening", target |-> t, todo |-> fs,
                       fetched |-> fs, old |-> {}, chosen |-> Chosen(request),
                       disturbed |-> RemovalsGoOn \/ rivals # {}]
                 ELSE [pull[q] EXCEPT !.disturbed = @ \/ q \in rivals]]
      BY <1>7
    <2> DEFINE mine == [at |-> "opening", target |-> t, todo |-> fs,
                        fetched |-> fs, old |-> {}, chosen |-> Chosen(request),
                        disturbed |-> RemovalsGoOn \/ rivals # {}]
               other(q) == [pull[q] EXCEPT !.disturbed = pull[q].disturbed \/ q \in rivals]
    <2>1. /\ t \in Targets /\ t.repo \in Repos
          /\ t.repo \in Tags => t.file = Nothing
          /\ Chosen(request) /\ t.file = Nothing /\ t.backend # "gguf" => darwin
          /\ t.repo \in Hub /\ t.file = Nothing /\ fs \cap Ggufs # {} => t.backend = "mlx"
      BY <1>1, <1>5, WantedTargets
    <2>2. fs \in SUBSET AllFiles
      BY <2>1, FetchedAreFiles
    <2>3. mine \in PullRecord
      BY <2>1, <2>2 DEF PullRecord, PullStages, Chosen, RemovalsGoOn
    <2>4. \A q \in PullCalls : other(q) \in PullRecord
      <3> SUFFICES ASSUME NEW q \in PullCalls PROVE other(q) \in PullRecord
        OBVIOUS
      <3>1. pull[q] \in PullRecord /\ (pull[q].disturbed \/ q \in rivals) \in BOOLEAN
        OBVIOUS
      <3> QED BY <3>1 DEF PullRecord
    <2>5. pull' = [q \in PullCalls |-> IF q = p THEN mine ELSE other(q)]
      BY <2>0
    <2>6. /\ pull'[p] = mine /\ pull'[p].target = t /\ pull'[p].at = "opening"
          /\ pull'[p].todo = fs /\ pull'[p].fetched = fs /\ pull'[p].old = {}
          /\ pull'[p].chosen = Chosen(request)
          /\ pull'[p].disturbed = (RemovalsGoOn \/ rivals # {})
      BY <2>5
    <2>7. \A q \in PullCalls \ {p} :
             /\ pull'[q] = other(q) /\ PullWorks(q)' = PullWorks(q)
             /\ pull'[q].target = pull[q].target /\ pull'[q].fetched = pull[q].fetched
             /\ pull'[q].todo = pull[q].todo /\ pull'[q].at = pull[q].at
             /\ pull'[q].old = pull[q].old
             /\ pull'[q].chosen = pull[q].chosen
             /\ pull'[q].disturbed = (pull[q].disturbed \/ q \in rivals)
      BY <2>5 DEF PullWorks, PullRecord
    <2>8. CacheTyped'
      <3>1. pull' \in [PullCalls -> PullRecord]
        BY <2>3, <2>4, <2>5
      <3>2. \A q \in PullCalls : pull'[q].todo \subseteq pull'[q].fetched
        <4> SUFFICES ASSUME NEW q \in PullCalls PROVE pull'[q].todo \subseteq pull'[q].fetched
          OBVIOUS
        <4> QED BY <2>6, <2>7
      <3> QED BY <1>2, <3>1, <3>2
    <2>9. Suits(p)' /\ Staged(p)' /\ Kept(p)'
      <3>1. Fetches(t)' = Fetches(t)
        BY <1>2 DEF Fetches, HasMlxLayout
      <3>2. Suits(p)'
        BY <1>2, <2>1, <2>6, <3>1 DEF Suits
      <3>3. Staged(p)'
        BY <2>6 DEF Staged
      <3>4. Kept(p)'
        <4> SUFFICES ASSUME ~pull'[p].disturbed
                     PROVE  /\ pull'[p].fetched \ pull'[p].todo
                                 \subseteq stored'[pull'[p].target.repo]
                            /\ ~RemovalsGoOn'
                            /\ \A q \in PullCalls \ {p} :
                                 PullWorks(q)' => pull'[q].target.repo # pull'[p].target.repo
                            /\ pull'[p].at = "pruning" => Others(p)' \subseteq pull'[p].old
          BY DEF Kept
        <4>1. ~RemovalsGoOn /\ rivals = {}
          BY <2>6
        <4>2. \A q \in PullCalls : PullWorks(q) => pull[q].target.repo # t.repo
          BY <1>6, <4>1
        <4>3. pull'[p].fetched \ pull'[p].todo = {}
          BY <2>6
        <4> QED BY <1>3, <2>6, <2>7, <4>1, <4>2, <4>3
      <3> QED BY <3>2, <3>3, <3>4
    <2>10. ASSUME NEW x \in PullCalls \ {p}, PullWorks(x)'
           PROVE  Suits(x)' /\ Staged(x)' /\ Kept(x)'
      <3>1. PullWorks(x) /\ Suits(x) /\ Staged(x) /\ Kept(x)
        BY <2>7, <2>10 DEF PullsSound
      <3>2. Suits(x)'
        BY <1>2, <2>7, <3>1, SuitsStays
      <3>3. Staged(x)'
        BY <2>7, <3>1 DEF Staged
      <3>4. Kept(x)'
        <4> SUFFICES ASSUME ~pull'[x].disturbed
                     PROVE  /\ pull'[x].fetched \ pull'[x].todo
                                 \subseteq stored'[pull'[x].target.repo]
                            /\ ~RemovalsGoOn'
                            /\ \A q \in PullCalls \ {x} :
                                 PullWorks(q)' => pull'[q].target.repo # pull'[x].target.repo
                            /\ pull'[x].at = "pruning" => Others(x)' \subseteq pull'[x].old
          BY DEF Kept
        <4>1. ~pull[x].disturbed /\ pull[x].target.repo # t.repo
          BY <1>6, <2>7, <3>1
        <4>2. pull'[p].target.repo = t.repo
          BY <2>6
        <4>3. Others(x)' = Others(x)
          BY <1>2, <2>7 DEF Others
        <4>4. /\ pull'[x].at = "pruning" => Others(x)' \subseteq pull'[x].old
              /\ pull'[x].fetched \ pull'[x].todo \subseteq stored'[pull'[x].target.repo]
          <5>1. /\ pull[x].fetched \ pull[x].todo \subseteq stored[pull[x].target.repo]
                /\ pull[x].at = "pruning" => Others(x) \subseteq pull[x].old
            BY <3>1, <4>1 DEF Kept
          <5>2. /\ pull'[x].fetched = pull[x].fetched /\ pull'[x].todo = pull[x].todo
                /\ pull'[x].target = pull[x].target /\ pull'[x].at = pull[x].at
                /\ pull'[x].old = pull[x].old /\ stored' = stored
            BY <1>2, <2>7
          <5> QED BY <4>3, <5>1, <5>2
        <4>5. \A q \in PullCalls \ {x} :
                 PullWorks(q)' => pull'[q].target.repo # pull'[x].target.repo
          BY <2>7, <3>1, <4>1, <4>2 DEF Kept
        <4>6. ~RemovalsGoOn'
          BY <1>3, <3>1, <4>1 DEF Kept
        <4> QED BY <4>4, <4>5, <4>6
      <3> QED BY <3>2, <3>3, <3>4
    <2> QED BY <2>8, <2>9, <2>10 DEF PullsSound
  <1> QED BY <1>4, <1>5, <1>6, <1>7

(* A pull ends; what it leaves to the others is theirs. *)
LEMMA PullEndSound ==
    ASSUME CatalogueInv, NEW p \in PullCalls, PullWorks(p),
           NEW outcome \in {"completed", "over"}, PullEnds(p, outcome),
           dirs' = dirs, stored' \in [Repos -> SUBSET AllFiles],
           \A r \in Repos : stored'[r] # {} => r \in dirs,
           \A x \in PullCalls \ {p} : PullWorks(x) /\ ~pull[x].disturbed =>
                stored'[pull[x].target.repo] = stored[pull[x].target.repo]
    PROVE  CacheTyped' /\ ListTyped' /\ PullsSound'
  <1> USE DEF CatalogueInv
  <1>1. pull' = [pull EXCEPT ![p] = [NoPull EXCEPT !.at = outcome]]
    BY DEF PullEnds
  <1>2. UNCHANGED <<removal, refresh, poll, darwin, offered>> /\ UNCHANGED outside
    BY DEF PullEnds, outside
  <1>3. CacheTyped'
    BY <1>1, <1>2, TheyAreTyped DEF CacheTyped, PullStages
  <1>4. ListTyped'
    BY <1>2, ListKept DEF PullEnds, InvalidateModelListCache
  <1>5. ~PullWorks(p)' /\ \A q \in PullCalls \ {p} : pull'[q] = pull[q]
    BY <1>1 DEF PullWorks, NoPull, CacheTyped
  <1>6. RemovalsGoOn' = RemovalsGoOn
    BY <1>2 DEF RemovalsGoOn
  <1>7. ASSUME NEW x \in PullCalls, PullWorks(x)'
        PROVE  Suits(x)' /\ Staged(x)' /\ Kept(x)'
    <2>1. x # p /\ pull'[x] = pull[x] /\ PullWorks(x)
      BY <1>5, <1>7 DEF PullWorks
    <2>2. \A q \in PullCalls : PullWorks(q)' =>
             PullWorks(q) /\ pull'[q].target = pull[q].target
      BY <1>5 DEF PullWorks
    <2> QED BY <1>2, <1>6, <2>1, <2>2, OthersStay
  <1> QED BY <1>3, <1>4, <1>7 DEF PullsSound

(* A pull moves on with its own files in its own directory. *)
MovesTo(p, to, rest) ==
    /\ pull' \in [PullCalls -> PullRecord]
    /\ \A q \in PullCalls \ {p} : pull'[q] = pull[q]
    /\ pull'[p].target = pull[p].target /\ pull'[p].fetched = pull[p].fetched
    /\ pull'[p].chosen = pull[p].chosen /\ pull'[p].disturbed = pull[p].disturbed
    /\ pull'[p].at = to /\ pull'[p].todo = rest

LEMMA MovesByRecord ==
    ASSUME CatalogueInv, NEW p \in PullCalls, NEW to \in PullStages,
           NEW rest \in SUBSET AllFiles,
           \/ pull' = [pull EXCEPT ![p].todo = rest, ![p].at = to]
           \/ pull' = [pull EXCEPT ![p].at = to] /\ rest = pull[p].todo
    PROVE  MovesTo(p, to, rest) /\ pull'[p].old = pull[p].old
  <1>1. pull[p] \in PullRecord /\ pull \in [PullCalls -> PullRecord]
    BY DEF CatalogueInv, CacheTyped
  <1>2. CASE pull' = [pull EXCEPT ![p].todo = rest, ![p].at = to]
    BY <1>1, <1>2 DEF MovesTo, PullRecord
  <1>3. CASE pull' = [pull EXCEPT ![p].at = to] /\ rest = pull[p].todo
    BY <1>1, <1>3 DEF MovesTo, PullRecord
  <1> QED BY <1>2, <1>3

LEMMA MovesWithList ==
    ASSUME CatalogueInv, NEW p \in PullCalls, NEW to \in PullStages, NEW fs \in SUBSET Ggufs,
           pull' = [pull EXCEPT ![p].at = to, ![p].old = fs]
    PROVE  MovesTo(p, to, pull[p].todo) /\ pull'[p].old = fs
  <1>1. pull[p] \in PullRecord /\ pull \in [PullCalls -> PullRecord]
    BY DEF CatalogueInv, CacheTyped
  <1> QED BY <1>1 DEF MovesTo, PullRecord

LEMMA PullGoesOn ==
    ASSUME CatalogueInv, NEW p \in PullCalls, PullWorks(p), PullWorks(p)',
           UNCHANGED <<removal, listing, outside>>,
           NEW to \in PullStages, NEW rest \in SUBSET pull[p].fetched,
           MovesTo(p, to, rest),
           to \in {"checking", "pruning"} => pull[p].target.repo \in Tags /\ rest = {},
           dirs \subseteq dirs', dirs' \subseteq Repos,
           stored' \in [Repos -> SUBSET AllFiles],
           \A r \in Repos : stored'[r] # {} => r \in dirs',
           ~pull[p].disturbed =>
              pull[p].fetched \ rest \subseteq stored'[pull[p].target.repo],
           pull'[p].old \cap pull[p].fetched = {},
           ~pull[p].disturbed /\ to = "pruning" => Others(p)' \subseteq pull'[p].old,
           \A x \in PullCalls \ {p} : PullWorks(x) /\ ~pull[x].disturbed =>
                stored'[pull[x].target.repo] = stored[pull[x].target.repo]
    PROVE  CacheTyped' /\ ListTyped' /\ PullsSound'
  <1> USE DEF CatalogueInv
  <1>3. UNCHANGED <<darwin, offered, memo, refresh, poll>>
    BY DEF listing, outside
  <1>4. /\ pull' \in [PullCalls -> PullRecord]
        /\ \A q \in PullCalls \ {p} : pull'[q] = pull[q]
    BY DEF MovesTo
  <1>5. /\ pull'[p].target = pull[p].target /\ pull'[p].fetched = pull[p].fetched
        /\ pull'[p].chosen = pull[p].chosen /\ pull'[p].disturbed = pull[p].disturbed
        /\ pull'[p].at = to /\ pull'[p].todo = rest
    BY DEF MovesTo
  <1>6. CacheTyped'
    <2>1. \A q \in PullCalls : pull'[q].todo \subseteq pull'[q].fetched
      <3> SUFFICES ASSUME NEW q \in PullCalls PROVE pull'[q].todo \subseteq pull'[q].fetched
        OBVIOUS
      <3> QED BY <1>4, <1>5 DEF CacheTyped
    <2> QED BY <1>3, <1>4, <2>1 DEF CacheTyped
  <1>7. ListTyped'
    BY <1>3, ListKept
  <1>8. RemovalsGoOn' = RemovalsGoOn
    BY DEF RemovalsGoOn
  <1>9. \A q \in PullCalls :
           PullWorks(q)' => PullWorks(q) /\ pull'[q].target = pull[q].target
    BY <1>4, <1>5 DEF PullWorks
  <1>10. Suits(p)' /\ Staged(p)' /\ Kept(p)'
    <2>1. Suits(p) /\ Kept(p)
      BY DEF PullsSound
    <2>2. Suits(p)'
      BY <1>5, <2>1, SuitsStays
    <2>3. Staged(p)'
      BY <1>5 DEF Staged
    <2>4. Kept(p)'
      BY <1>5, <1>8, <1>9, <2>1 DEF Kept
    <2> QED BY <2>2, <2>3, <2>4
  <1>11. ASSUME NEW x \in PullCalls \ {p}, PullWorks(x)'
         PROVE  Suits(x)' /\ Staged(x)' /\ Kept(x)'
    <2>1. pull'[x] = pull[x] /\ PullWorks(x)
      BY <1>4, <1>9, <1>11
    <2> QED BY <1>8, <1>9, <2>1, OthersStay
  <1> QED BY <1>6, <1>7, <1>10, <1>11 DEF PullsSound

LEMMA MakesDirectorySound ==
    ASSUME CatalogueInv, NEW p \in PullCalls, MakesDirectory(p)
    PROVE  CacheTyped' /\ ListTyped' /\ PullsSound'
  <1>1. PullWorks(p) /\ pull[p] \in PullRecord /\ pull[p].todo \in SUBSET pull[p].fetched
    BY DEF MakesDirectory, PullWorks, CatalogueInv, CacheTyped
  <1>2. Suits(p) /\ Kept(p)
    BY <1>1 DEF CatalogueInv, PullsSound
  <1>3. MovesTo(p, "downloading", pull[p].todo) /\ pull'[p].old = pull[p].old
    BY <1>1, MovesByRecord DEF MakesDirectory, PullStages, PullRecord
  <1>4. PullWorks(p)'
    BY DEF MakesDirectory, PullWorks, CatalogueInv, CacheTyped, PullRecord
  <1>5. dirs' = dirs \cup {pull[p].target.repo} /\ stored' = stored
    BY DEF MakesDirectory
  <1>6. dirs' \subseteq Repos
    BY <1>2, <1>5 DEF Suits, CatalogueInv, CacheTyped
  <1>7. ~pull[p].disturbed => pull[p].fetched \ pull[p].todo \subseteq stored'[pull[p].target.repo]
    BY <1>2, <1>5 DEF Kept
  <1>8. stored' \in [Repos -> SUBSET AllFiles] /\ \A r \in Repos : stored'[r] # {} => r \in dirs'
    BY <1>5 DEF CatalogueInv, CacheTyped
  <1>9. UNCHANGED <<removal, listing, outside>>
    BY DEF MakesDirectory
  <1>10. pull'[p].old \cap pull[p].fetched = {}
    BY <1>1, <1>3 DEF CatalogueInv, PullsSound, Staged
  <1> QED BY <1>1, <1>3, <1>4, <1>5, <1>6, <1>7, <1>8, <1>9, <1>10, PullGoesOn
         DEF PullStages

LEMMA DownloadSound ==
    ASSUME CatalogueInv, NEW p \in PullCalls, Download(p)
    PROVE  CacheTyped' /\ ListTyped' /\ PullsSound'
  <1> DEFINE repo == pull[p].target.repo
  <1>1. /\ PullWorks(p) /\ pull[p] \in PullRecord /\ pull[p].todo \subseteq pull[p].fetched
        /\ pull[p].fetched \in SUBSET AllFiles
    BY DEF Download, PullWorks, CatalogueInv, CacheTyped, PullRecord
  <1>2. Suits(p) /\ Kept(p) /\ repo \in Repos
    BY <1>1 DEF CatalogueInv, PullsSound, Suits
  <1>3. PICK f \in pull[p].todo :
           /\ stored' = [stored EXCEPT ![repo] = @ \cup {f}]
           /\ IF repo \notin Tags /\ pull[p].todo = {f}
              THEN PullEnds(p, "completed")
              ELSE /\ pull' = [pull EXCEPT
                         ![p].todo = @ \ {f},
                         ![p].at = IF repo \in Tags THEN "checking" ELSE "opening"]
                   /\ UNCHANGED <<removal, listing, outside>>
    BY DEF Download
  <1>4. dirs' = dirs /\ repo \in dirs
    BY DEF Download
  <1>5. f \in AllFiles /\ stored \in [Repos -> SUBSET AllFiles] /\ dirs \subseteq Repos
    BY <1>1 DEF CatalogueInv, CacheTyped
  <1>6. /\ stored' \in [Repos -> SUBSET AllFiles] /\ stored'[repo] = stored[repo] \cup {f}
        /\ \A r \in Repos : stored[r] \subseteq stored'[r]
        /\ \A r \in Repos \ {repo} : stored'[r] = stored[r]
    BY <1>2, <1>3, <1>5
  <1>7. \A r \in Repos : stored'[r] # {} => r \in dirs
    BY <1>4, <1>6 DEF CatalogueInv, CacheTyped
  <1>8. \A x \in PullCalls \ {p} : PullWorks(x) /\ ~pull[x].disturbed =>
             stored'[pull[x].target.repo] = stored[pull[x].target.repo]
    BY <1>1, <1>6 DEF CatalogueInv, PullsSound, Suits, Kept
  <1>9. CASE repo \notin Tags /\ pull[p].todo = {f}
    BY <1>1, <1>3, <1>4, <1>6, <1>7, <1>8, <1>9, PullEndSound
  <1>10. CASE ~(repo \notin Tags /\ pull[p].todo = {f})
    <2> DEFINE to == IF repo \in Tags THEN "checking" ELSE "opening"
               rest == pull[p].todo \ {f}
    <2>1. /\ pull' = [pull EXCEPT ![p].todo = @ \ {f}, ![p].at = to]
          /\ UNCHANGED <<removal, listing, outside>>
      BY <1>3, <1>10
    <2>3. rest \in SUBSET pull[p].fetched /\ to \in PullStages
      BY <1>1 DEF PullStages
    <2>2. MovesTo(p, to, rest) /\ pull'[p].old = pull[p].old
      <3>1. rest \in SUBSET AllFiles
        BY <1>1, <2>3
      <3>2. pull' = [pull EXCEPT ![p].todo = rest, ![p].at = to]
        BY <2>1
      <3> HIDE DEF to, rest
      <3> QED BY <2>3, <3>1, <3>2, MovesByRecord
    <2>4. to \in {"checking", "pruning"} => repo \in Tags /\ rest = {}
      <3> SUFFICES ASSUME repo \in Tags PROVE rest = {}
        OBVIOUS
      <3>1. PICK g \in Ggufs : pull[p].fetched = {g}
        BY <1>2, FetchedAreFiles DEF Suits, CatalogueInv
      <3> QED BY <1>1, <3>1
    <2>5. PullWorks(p)'
      BY <2>2 DEF PullWorks, MovesTo
    <2>6. ~pull[p].disturbed => pull[p].fetched \ rest \subseteq stored'[repo]
      BY <1>2, <1>6 DEF Kept
    <2>7. pull'[p].old \cap pull[p].fetched = {} /\ to # "pruning"
      BY <1>1, <2>2 DEF CatalogueInv, PullsSound, Staged
    <2> HIDE DEF to, rest
    <2> QED BY <1>1, <1>4, <1>5, <1>6, <1>7, <1>8, <2>1, <2>2, <2>3, <2>4, <2>5, <2>6, <2>7,
               PullGoesOn
  <1> QED BY <1>9, <1>10

LEMMA PullFailsSound ==
    ASSUME CatalogueInv, NEW p \in PullCalls, PullFails(p)
    PROVE  CacheTyped' /\ ListTyped' /\ PullsSound'
  <1>1. PullWorks(p) /\ PullEnds(p, "over") /\ dirs' = dirs /\ stored' = stored
    BY DEF PullFails, PullWorks, cache
  <1>2. stored \in [Repos -> SUBSET AllFiles] /\ \A r \in Repos : stored[r] # {} => r \in dirs
    BY DEF CatalogueInv, CacheTyped
  <1> QED BY <1>1, <1>2, PullEndSound

(* Who is undisturbed has another repository than who takes files away. *)
LEMMA OthersKeepTheirs ==
    ASSUME CatalogueInv, NEW p \in PullCalls, PullWorks(p), NEW fs,
           stored' = [stored EXCEPT ![pull[p].target.repo] = @ \ fs]
    PROVE  /\ stored' \in [Repos -> SUBSET AllFiles]
           /\ \A r \in Repos : stored'[r] \subseteq stored[r]
           /\ \A r \in Repos : stored'[r] # {} => r \in dirs
           /\ \A x \in PullCalls \ {p} : PullWorks(x) /\ ~pull[x].disturbed =>
                stored'[pull[x].target.repo] = stored[pull[x].target.repo]
  <1>1. pull[p].target.repo \in Repos /\ stored \in [Repos -> SUBSET AllFiles]
    BY DEF CatalogueInv, CacheTyped, PullsSound, Suits
  <1>2. \A r \in Repos : stored'[r] \subseteq stored[r]
    BY <1>1
  <1>3. ASSUME NEW x \in PullCalls \ {p}, PullWorks(x), ~pull[x].disturbed
        PROVE  stored'[pull[x].target.repo] = stored[pull[x].target.repo]
    <2>1. pull[x].target.repo \in Repos \ {pull[p].target.repo}
      BY <1>3 DEF CatalogueInv, PullsSound, Suits, Kept
    <2> QED BY <1>1, <2>1
  <1>4. stored' \in [Repos -> SUBSET AllFiles]
    BY <1>1
  <1>5. \A r \in Repos : stored'[r] # {} => r \in dirs
    BY <1>2 DEF CatalogueInv, CacheTyped
  <1> QED BY <1>2, <1>3, <1>4, <1>5

(* What is removed when a directory has been read is of the tag before. *)
LEMMA ReadsOldSound ==
    ASSUME CatalogueInv, NEW p \in PullCalls, ReadsOld(p)
    PROVE  CacheTyped' /\ ListTyped' /\ PullsSound'
  <1>1. /\ PullWorks(p) /\ pull[p].at = "checking"
        /\ pull' = [pull EXCEPT ![p].at = "pruning", ![p].old = Others(p)]
        /\ dirs' = dirs /\ stored' = stored /\ UNCHANGED <<removal, listing, outside>>
    BY DEF ReadsOld, PullWorks, Others, cache
  <1>2. Suits(p) /\ Staged(p) /\ Kept(p) /\ pull[p].target.repo \in Repos
    BY <1>1 DEF CatalogueInv, PullsSound, Suits
  <1>3. pull[p].todo = {} /\ pull[p].target.repo \in Tags
    BY <1>1, <1>2 DEF Staged
  <1>4. MovesTo(p, "pruning", {}) /\ pull'[p].old = Others(p)
    <2> DEFINE fs == Others(p)
    <2>1. fs \in SUBSET Ggufs /\ "pruning" \in PullStages
      BY DEF Others, PullStages
    <2>2. pull' = [pull EXCEPT ![p].at = "pruning", ![p].old = fs]
      BY <1>1
    <2> HIDE DEF fs
    <2>3. MovesTo(p, "pruning", pull[p].todo) /\ pull'[p].old = fs
      BY <2>1, <2>2, MovesWithList
    <2> QED BY <1>3, <2>3 DEF fs
  <1>5. PullWorks(p)'
    BY <1>4 DEF PullWorks, MovesTo
  <1>6. Others(p)' = Others(p)
    BY <1>1, <1>4 DEF Others, MovesTo
  <1>7. ~pull[p].disturbed => pull[p].fetched \ {} \subseteq stored'[pull[p].target.repo]
    BY <1>1, <1>2, <1>3 DEF Kept
  <1>8. /\ stored' \in [Repos -> SUBSET AllFiles] /\ dirs' \subseteq Repos
        /\ \A r \in Repos : stored'[r] # {} => r \in dirs'
    BY <1>1 DEF CatalogueInv, CacheTyped
  <1>9. {} \in SUBSET pull[p].fetched /\ "pruning" \in PullStages
    BY DEF PullStages
  <1>10. /\ pull'[p].old \cap pull[p].fetched = {} /\ Others(p)' \subseteq pull'[p].old
         /\ dirs \subseteq dirs'
    BY <1>1, <1>4, <1>6 DEF Others
  <1>11. \A x \in PullCalls \ {p} : PullWorks(x) /\ ~pull[x].disturbed =>
              stored'[pull[x].target.repo] = stored[pull[x].target.repo]
    BY <1>1
  <1> QED BY <1>1, <1>3, <1>4, <1>5, <1>7, <1>8, <1>9, <1>10, <1>11, PullGoesOn

LEMMA PruneSound ==
    ASSUME CatalogueInv, NEW p \in PullCalls, Prune(p)
    PROVE  CacheTyped' /\ ListTyped' /\ PullsSound'
  <1> DEFINE repo == pull[p].target.repo
  <1>1. PullWorks(p) /\ pull[p].at = "pruning"
    BY DEF Prune, PullWorks
  <1>2. Suits(p) /\ Staged(p) /\ Kept(p) /\ pull[p] \in PullRecord /\ repo \in Repos
    BY <1>1 DEF CatalogueInv, PullsSound, CacheTyped, Suits
  <1>3. pull[p].todo = {} /\ repo \in Tags
    BY <1>1, <1>2 DEF Staged
  <1>4. CASE pull[p].old = {} /\ PullEnds(p, "completed") /\ UNCHANGED cache
    <2>1. stored \in [Repos -> SUBSET AllFiles] /\ \A r \in Repos : stored[r] # {} => r \in dirs
      BY DEF CatalogueInv, CacheTyped
    <2>2. dirs' = dirs /\ stored' = stored
      BY <1>4 DEF cache
    <2> QED BY <1>1, <1>4, <2>1, <2>2, PullEndSound
  <1>5. ASSUME NEW f \in pull[p].old,
               stored' = [stored EXCEPT ![repo] = @ \ {f}],
               pull' = [pull EXCEPT ![p].old = @ \ {f}],
               UNCHANGED <<dirs, removal, listing, outside>>
        PROVE  CacheTyped' /\ ListTyped' /\ PullsSound'
    <2>1. MovesTo(p, "pruning", {}) /\ pull'[p].old = pull[p].old \ {f}
      <3> DEFINE fs == pull[p].old \ {f}
      <3>1. fs \in SUBSET Ggufs /\ pull' = [pull EXCEPT ![p].old = fs]
        BY <1>2, <1>5 DEF PullRecord
      <3> HIDE DEF fs
      <3>2. pull[p] \in PullRecord /\ pull \in [PullCalls -> PullRecord]
        BY DEF CatalogueInv, CacheTyped
      <3>3. MovesTo(p, pull[p].at, pull[p].todo) /\ pull'[p].old = fs
        BY <3>1, <3>2 DEF MovesTo, PullRecord
      <3> QED BY <1>1, <1>3, <3>3 DEF fs
    <2>2. PullWorks(p)'
      BY <2>1 DEF PullWorks, MovesTo
    <2>3. stored'[repo] = stored[repo] \ {f}
      BY <1>2, <1>5 DEF CatalogueInv, CacheTyped
    <2>4. Others(p)' = Others(p) \ {f}
      BY <2>1, <2>3 DEF Others, MovesTo
    <2>5. f \notin pull[p].fetched /\ pull'[p].old \cap pull[p].fetched = {}
      BY <1>2, <2>1 DEF Staged
    <2>6. ~pull[p].disturbed => /\ pull[p].fetched \ {} \subseteq stored'[repo]
                                /\ Others(p)' \subseteq pull'[p].old
      BY <1>1, <1>2, <1>3, <2>1, <2>3, <2>4, <2>5 DEF Kept
    <2>7. dirs' = dirs /\ dirs \subseteq Repos
      BY <1>5 DEF CatalogueInv, CacheTyped
    <2>8. {} \in SUBSET pull[p].fetched /\ "pruning" \in PullStages
      BY DEF PullStages
    <2>9. /\ stored' \in [Repos -> SUBSET AllFiles]
          /\ \A r \in Repos : stored'[r] # {} => r \in dirs
          /\ \A x \in PullCalls \ {p} : PullWorks(x) /\ ~pull[x].disturbed =>
                stored'[pull[x].target.repo] = stored[pull[x].target.repo]
      BY <1>1, <1>5, OthersKeepTheirs
    <2>10. UNCHANGED <<removal, listing, outside>>
      BY <1>5
    <2> QED BY <1>1, <1>3, <2>1, <2>2, <2>5, <2>6, <2>7, <2>8, <2>9, <2>10, PullGoesOn
  <1> QED BY <1>4, <1>5 DEF Prune

LEMMA RejectsLayerSound ==
    ASSUME CatalogueInv, NEW p \in PullCalls, RejectsLayer(p)
    PROVE  CacheTyped' /\ ListTyped' /\ PullsSound'
  <1>1. /\ PullWorks(p) /\ PullEnds(p, "over") /\ dirs' = dirs
        /\ stored' = [stored EXCEPT ![pull[p].target.repo] = @ \ pull[p].fetched]
    BY DEF RejectsLayer, PullWorks
  <1> DEFINE fs == pull[p].fetched
  <1>2. /\ stored' \in [Repos -> SUBSET AllFiles]
        /\ \A r \in Repos : stored'[r] # {} => r \in dirs
        /\ \A x \in PullCalls \ {p} : PullWorks(x) /\ ~pull[x].disturbed =>
              stored'[pull[x].target.repo] = stored[pull[x].target.repo]
    <2>1. stored' = [stored EXCEPT ![pull[p].target.repo] = @ \ fs]
      BY <1>1
    <2> HIDE DEF fs
    <2> QED BY <1>1, <2>1, OthersKeepTheirs
  <1> QED BY <1>1, <1>2, PullEndSound

(* Steps of removals: no pull that works is undisturbed. *)
LEMMA RemovalStep ==
    ASSUME CatalogueInv, NEW r \in Removals, removal[r].at = "removing",
           UNCHANGED <<pull, outside>>,
           removal' \in [Removals -> RemovalRecord],
           \A x \in Removals \ {r} : removal'[x] = removal[x],
           dirs' \subseteq Repos, stored' \in [Repos -> SUBSET AllFiles],
           \A x \in Repos : stored'[x] # {} => x \in dirs'
    PROVE  CacheTyped' /\ PullsSound'
  <1> USE DEF CatalogueInv
  <1>1. CacheTyped'
    BY DEF CacheTyped, outside
  <1>2. ASSUME NEW x \in PullCalls, PullWorks(x)'
        PROVE  Suits(x)' /\ Staged(x)' /\ Kept(x)'
    <2>1. PullWorks(x) /\ Suits(x) /\ Staged(x) /\ Kept(x)
      BY <1>2 DEF PullsSound, PullWorks
    <2>2. pull[x].disturbed
      BY <2>1 DEF Kept, RemovalsGoOn
    <2>3. Suits(x)'
      BY <2>1, SuitsStays
    <2> QED BY <2>1, <2>2, <2>3 DEF Staged, Kept
  <1> QED BY <1>1, <1>2 DEF PullsSound

LEMMA RemoveModelSound ==
    ASSUME CatalogueInv, NEW r \in Removals, RemoveModel(r)
    PROVE  CacheTyped' /\ ListTyped' /\ PullsSound'
  <1> USE DEF CatalogueInv
  <1>1. PICK name \in Names, here \in BOOLEAN :
           removal' = [removal EXCEPT ![r] =
              [NoRemoval EXCEPT !.at = "removing", !.here = here,
                  !.todo = {[repo |-> m.repo, path |-> m.path] :
                              m \in {x \in ListCachedModels : Denotes(name, x)}}]]
    BY DEF RemoveModel
  <1>2. /\ pull' = [p \in PullCalls |-> [pull[p] EXCEPT !.disturbed = TRUE]]
        /\ UNCHANGED <<dirs, stored, memo, refresh, poll, darwin, offered>>
        /\ UNCHANGED outside
    BY DEF RemoveModel, cache, listing, outside
  <1>3. ListCachedModels \subseteq Listed
    BY CachedAreListed DEF ListCachedModels, CacheTyped
  <1>4. {[repo |-> m.repo, path |-> m.path] : m \in {x \in ListCachedModels : Denotes(name, x)}}
           \subseteq Removable
    BY <1>3 DEF Listed, Removable
  <1>5. removal' \in [Removals -> RemovalRecord]
    BY <1>1, <1>4 DEF CacheTyped, NoRemoval, RemovalRecord
  <1>6. \A p \in PullCalls :
           /\ pull'[p] \in PullRecord /\ pull'[p].disturbed
           /\ pull'[p].at = pull[p].at /\ pull'[p].target = pull[p].target
           /\ pull'[p].todo = pull[p].todo /\ pull'[p].fetched = pull[p].fetched
           /\ pull'[p].old = pull[p].old /\ pull'[p].chosen = pull[p].chosen
    <2> SUFFICES ASSUME NEW p \in PullCalls
                 PROVE  /\ pull'[p] \in PullRecord /\ pull'[p].disturbed
                        /\ pull'[p].at = pull[p].at /\ pull'[p].target = pull[p].target
                        /\ pull'[p].todo = pull[p].todo
                        /\ pull'[p].fetched = pull[p].fetched
                        /\ pull'[p].old = pull[p].old /\ pull'[p].chosen = pull[p].chosen
      OBVIOUS
    <2>1. pull[p] \in PullRecord /\ pull'[p] = [pull[p] EXCEPT !.disturbed = TRUE]
      BY <1>2 DEF CacheTyped
    <2> QED BY <2>1 DEF PullRecord
  <1>7. CacheTyped'
    <2>1. pull' \in [PullCalls -> PullRecord]
      BY <1>2, <1>6
    <2> QED BY <1>2, <1>5, <1>6, <2>1 DEF CacheTyped
  <1>8. ListTyped'
    BY <1>2, ListKept
  <1>9. ASSUME NEW x \in PullCalls, PullWorks(x)'
        PROVE  Suits(x)' /\ Staged(x)' /\ Kept(x)'
    <2>1. PullWorks(x) /\ Suits(x) /\ Staged(x)
      BY <1>6, <1>9 DEF PullsSound, PullWorks
    <2>2. Suits(x)'
      BY <1>2, <1>6, <2>1, SuitsStays
    <2> QED BY <1>6, <2>1, <2>2 DEF Staged, Kept
  <1> QED BY <1>7, <1>8, <1>9 DEF PullsSound

LEMMA RemovesPathSound ==
    ASSUME CatalogueInv, NEW r \in Removals, RemovesPath(r)
    PROVE  CacheTyped' /\ ListTyped' /\ PullsSound'
  <1> USE DEF CatalogueInv
  <1>1. PICK x \in removal[r].todo :
          /\ removal' = [removal EXCEPT
                ![r].todo = @ \ {x},
                ![r].dirs = IF x.path \in stored[x.repo] THEN @ \cup {x.repo} ELSE @,
                ![r].any = @ \/ x.path \in stored[x.repo]
                             \/ (x.path = Directory /\ x.repo \in dirs)]
          /\ stored' = [stored EXCEPT ![x.repo] = IF x.path = Directory THEN {} ELSE @ \ {x.path}]
          /\ dirs' = IF x.path = Directory THEN dirs \ {x.repo} ELSE dirs
    BY DEF RemovesPath
  <1>2. removal[r] \in RemovalRecord /\ removal \in [Removals -> RemovalRecord]
    BY DEF CacheTyped
  <1>3. x.repo \in Repos
    BY <1>2 DEF RemovalRecord, Removable
  <1>4. /\ removal' \in [Removals -> RemovalRecord]
        /\ \A q \in Removals \ {r} : removal'[q] = removal[q]
    <2> DEFINE to == removal[r].todo \ {x}
               ds == IF x.path \in stored[x.repo] THEN removal[r].dirs \cup {x.repo}
                     ELSE removal[r].dirs
               an == removal[r].any \/ x.path \in stored[x.repo]
                             \/ (x.path = Directory /\ x.repo \in dirs)
    <2>1. to \in SUBSET Removable /\ ds \in SUBSET Repos /\ an \in BOOLEAN
      BY <1>2, <1>3 DEF RemovalRecord
    <2>2. removal' = [removal EXCEPT ![r].todo = to, ![r].dirs = ds, ![r].any = an]
      BY <1>1
    <2> HIDE DEF to, ds, an
    <2>3. [removal[r] EXCEPT !.todo = to, !.dirs = ds, !.any = an] \in RemovalRecord
      BY <1>2, <2>1 DEF RemovalRecord
    <2>4. removal' = [removal EXCEPT ![r] =
                        [removal[r] EXCEPT !.todo = to, !.dirs = ds, !.any = an]]
      BY <1>2, <2>2
    <2> QED BY <1>2, <2>3, <2>4
  <1>5. stored \in [Repos -> SUBSET AllFiles] /\ dirs \subseteq Repos
        /\ \A q \in Repos : stored[q] # {} => q \in dirs
    BY DEF CacheTyped
  <1>6. /\ dirs' \subseteq Repos /\ stored' \in [Repos -> SUBSET AllFiles]
        /\ \A q \in Repos : stored'[q] # {} => q \in dirs'
    <2>1. CASE x.path = Directory
      BY <1>1, <1>3, <1>5, <2>1
    <2>2. CASE x.path # Directory
      BY <1>1, <1>3, <1>5, <2>2
    <2> QED BY <2>1, <2>2
  <1>7. removal[r].at = "removing" /\ UNCHANGED <<pull, outside, memo, refresh, poll>>
    BY DEF RemovesPath, listing
  <1>8. ListTyped'
    BY <1>7, ListKept
  <1>9. UNCHANGED <<pull, outside>>
    BY <1>7
  <1> QED BY <1>4, <1>6, <1>7, <1>8, <1>9, RemovalStep

LEMMA RemovesDirectorySound ==
    ASSUME CatalogueInv, NEW r \in Removals, RemovesDirectory(r)
    PROVE  CacheTyped' /\ ListTyped' /\ PullsSound'
  <1> USE DEF CatalogueInv
  <1>1. PICK x \in removal[r].dirs :
          /\ removal' = [removal EXCEPT ![r].dirs = @ \ {x}]
          /\ dirs' = IF stored[x] = {} THEN dirs \ {x} ELSE dirs
    BY DEF RemovesDirectory
  <1>2. /\ removal[r].at = "removing" /\ UNCHANGED <<memo, refresh, poll>>
        /\ UNCHANGED <<pull, outside>> /\ stored' = stored
    BY DEF RemovesDirectory, listing
  <1>3. /\ removal' \in [Removals -> RemovalRecord]
        /\ \A q \in Removals \ {r} : removal'[q] = removal[q]
    BY <1>1 DEF CacheTyped, RemovalRecord
  <1>4. /\ dirs' \subseteq Repos /\ stored' \in [Repos -> SUBSET AllFiles]
        /\ \A q \in Repos : stored'[q] # {} => q \in dirs'
    BY <1>1, <1>2 DEF CacheTyped
  <1>5. ListTyped'
    BY <1>2, ListKept
  <1> QED BY <1>2, <1>3, <1>4, <1>5, RemovalStep

LEMMA RemovedSound ==
    ASSUME CatalogueInv, NEW r \in Removals, Removed(r)
    PROVE  CacheTyped' /\ ListTyped' /\ PullsSound'
  <1> USE DEF CatalogueInv
  <1>1. /\ removal' = [removal EXCEPT ![r] = [NoRemoval EXCEPT !.at = "over"]]
        /\ removal[r].at = "removing" /\ UNCHANGED <<refresh, poll>>
        /\ UNCHANGED <<pull, outside>> /\ UNCHANGED <<dirs, stored>>
        /\ memo' = memo \/ memo' = NoMemo
    BY DEF Removed, cache, InvalidateModelListCache
  <1>2. /\ removal' \in [Removals -> RemovalRecord]
        /\ \A q \in Removals \ {r} : removal'[q] = removal[q]
    BY <1>1 DEF CacheTyped, NoRemoval, RemovalRecord
  <1>3. /\ dirs' \subseteq Repos /\ stored' \in [Repos -> SUBSET AllFiles]
        /\ \A q \in Repos : stored'[q] # {} => q \in dirs'
    BY <1>1 DEF CacheTyped
  <1>4. ListTyped'
    BY <1>1, ListKept
  <1> QED BY <1>1, <1>2, <1>3, <1>4, RemovalStep

LEMMA ServerDiesSound ==
    ASSUME CatalogueInv, ServerDies
    PROVE  CacheTyped' /\ ListTyped' /\ PullsSound'
  <1> USE DEF CatalogueInv
  <1>1. /\ pull' = [p \in PullCalls |->
                      IF PullWorks(p) THEN [NoPull EXCEPT !.at = "over"] ELSE pull[p]]
        /\ removal' = [r \in Removals |->
                         IF removal[r].here THEN [NoRemoval EXCEPT !.at = "over"]
                         ELSE removal[r]]
        /\ memo' = NoMemo /\ refresh' = NoRefresh /\ poll' = [c \in Pollers |-> FALSE]
        /\ UNCHANGED <<dirs, stored, darwin, offered>>
    BY DEF ServerDies, cache, outside
  <1>2. [NoRemoval EXCEPT !.at = "over"] \in RemovalRecord
    BY DEF NoRemoval, RemovalRecord
  <1>3. [NoPull EXCEPT !.at = "over"] \in PullRecord
    BY TheyAreTyped DEF PullStages
  <1>4. CacheTyped'
    <2>1. pull' \in [PullCalls -> PullRecord] /\ removal' \in [Removals -> RemovalRecord]
      BY <1>1, <1>2, <1>3 DEF CacheTyped
    <2>2. \A p \in PullCalls : pull'[p].todo \subseteq pull'[p].fetched
      BY <1>1 DEF CacheTyped, NoPull
    <2> QED BY <1>1, <2>1, <2>2 DEF CacheTyped
  <1>5. ListTyped'
    <2>1. NoMemo \in [there : BOOLEAN, age : 0 .. StaleLimit, value : SUBSET Listed]
      BY DEF NoMemo
    <2>2. NoRefresh \in [on : BOOLEAN, roots : Seq(SUBSET Repos), todo : SUBSET Repos,
                         got : SUBSET Listed]
      BY DEF NoRefresh
    <2> QED BY <1>1, <2>1, <2>2 DEF ListTyped
  <1>6. \A p \in PullCalls : ~PullWorks(p)'
    BY <1>1 DEF PullWorks, NoPull
  <1> QED BY <1>4, <1>5, <1>6 DEF PullsSound

LEMMA ListStepSound ==
    ASSUME CatalogueInv, ListStep
    PROVE  CacheTyped' /\ ListTyped' /\ PullsSound'
  <1> USE DEF CatalogueInv
  <1>1. UNCHANGED <<cache, tasks, outside>>
    BY DEF ListStep, List, ReadsRoot, ReadsRepo, RefreshFails, RefreshEnds, MemoAges
  <1>2. CacheTyped'
    BY <1>1 DEF CacheTyped, cache, tasks, outside
  <1>3. PullsSound'
    BY <1>1 DEF PullsSound, PullWorks, Suits, Staged, Kept, Others, RemovalsGoOn, Fetches,
                HasMlxLayout, cache, tasks, outside
  <1> QED BY <1>2, <1>3, ListStepTyped

LEMMA CatalogueStep ==
    CatalogueInv /\ [CatalogueNext]_catalogueVars => CatalogueInv'
  <1> SUFFICES ASSUME CatalogueInv, [CatalogueNext]_catalogueVars
               PROVE  CacheTyped' /\ ListTyped' /\ PullsSound'
    BY DEF CatalogueInv
  <1>1. ASSUME NEW p \in PullCalls, PullModel(p)
        PROVE  CacheTyped' /\ ListTyped' /\ PullsSound'
    <2>1. ListTyped'
      BY <1>1, ListKept DEF CatalogueInv, PullModel, listing
    <2> QED BY <1>1, <2>1, PullModelSound
  <1>2. ASSUME NEW p \in PullCalls,
               \/ MakesDirectory(p) \/ Download(p) \/ PullFails(p)
               \/ ReadsOld(p) \/ Prune(p) \/ RejectsLayer(p)
        PROVE  CacheTyped' /\ ListTyped' /\ PullsSound'
    BY <1>2, MakesDirectorySound, DownloadSound, PullFailsSound, ReadsOldSound, PruneSound,
       RejectsLayerSound
  <1>3. ASSUME NEW r \in Removals,
               RemoveModel(r) \/ RemovesPath(r) \/ RemovesDirectory(r) \/ Removed(r)
        PROVE  CacheTyped' /\ ListTyped' /\ PullsSound'
    BY <1>3, RemoveModelSound, RemovesPathSound, RemovesDirectorySound, RemovedSound
  <1>4. CASE ListStep
    BY <1>4, ListStepSound
  <1>5. CASE ServerDies
    BY <1>5, ServerDiesSound
  <1>6. CASE UNCHANGED catalogueVars
    <2>1. UNCHANGED <<darwin, offered, dirs, stored, pull, removal, memo, refresh, poll>>
      BY <1>6 DEF catalogueVars, cache, tasks, listing, outside
    <2> QED BY <2>1 DEF CatalogueInv, CacheTyped, ListTyped, PullsSound, PullWorks, Suits,
               Staged, Kept, Others, RemovalsGoOn, Fetches, HasMlxLayout
  <1> QED BY <1>1, <1>2, <1>3, <1>4, <1>5, <1>6 DEF CatalogueNext, ListStep

LEMMA CatalogueKept == CatalogueSpec => []CatalogueInv
  BY CatalogueStarts, CatalogueStep, PTL DEF CatalogueSpec

(* Types, over pulls, removals, refreshes and crashes. *)
THEOREM CatalogueTyped == CatalogueSpec => []CatalogueTypeOK
  <1>1. CatalogueInv => CatalogueTypeOK
    BY DEF CatalogueInv, CacheTyped, ListTyped, CatalogueTypeOK
  <1> QED BY <1>1, CatalogueKept, PTL

(* Every cached model is found under the name it is listed with, for any number  *)
(* of repositories and files, and whatever earlier pulls have left.              *)
THEOREM ListedModelsResolve == CatalogueSpec => []ListedResolves
  <1>1. CatalogueInv => ListedResolves
    BY TypedResolve DEF CatalogueInv
  <1> QED BY <1>1, CatalogueKept, PTL

(* A pull that is undisturbed and has all its files leaves them to the next. *)
LEMMA EndServes ==
    ASSUME CatalogueInv, NEW p \in PullCalls, PullWorks(p), ~pull[p].disturbed, AsAsked(p),
           darwin' = darwin, NEW files \in SUBSET AllFiles,
           pull[p].fetched \subseteq files,
           pull[p].target.repo \in Tags => files \cap Ggufs \subseteq pull[p].fetched
    PROVE  /\ Serves(pull[p].target, files) # Nothing
           /\ pull[p].chosen /\ Serves(pull[p].target, files) = Directory => darwin
  <1> DEFINE t == pull[p].target
             fs == pull[p].fetched
  <1>1. CacheTyped /\ Suits(p) /\ t \in Targets
    BY DEF CatalogueInv, PullsSound, CacheTyped, PullRecord
  <1>2. /\ t.repo \in Repos /\ fs \in Fetches(t)
        /\ t.repo \in Tags => t.file = Nothing
        /\ t.repo \in Hub /\ t.file = Nothing => fs \cap Ggufs = {}
    BY <1>1 DEF Suits, AsAsked
  <1>3. Serves(t, files) # Nothing
    <2> HIDE DEF t
    <2>1. PICK got \in Fetches(t) : got = fs
      BY <1>2
    <2> QED BY <1>1, <1>2, <2>1, FetchedServes DEF t
  <1>4. ASSUME pull[p].chosen, Serves(t, files) = Directory
        PROVE  darwin
    <2>1. t.file \in Ggufs \cup {Nothing}
      BY <1>1 DEF Targets
    <2>2. t.file = Nothing /\ t.backend # "gguf"
      BY <1>4, <2>1, DirectoryServes
    <2> QED BY <1>1, <1>4, <2>2 DEF Suits
  <1> QED BY <1>3, <1>4

(* What pulls that end by themselves have done. *)
LEMMA EndsByItself ==
    ASSUME CatalogueInv, CatalogueNext, NEW p \in PullCalls, PullWorks(p),
           pull'[p].at = "completed"
    PROVE  (Download(p) \/ Prune(p)) /\ PullEnds(p, "completed")
  <1>1. /\ pull \in [PullCalls -> PullRecord] /\ removal \in [Removals -> RemovalRecord]
        /\ pull[p].at # "completed"
    BY DEF CatalogueInv, CacheTyped, PullWorks
  <1>2. ASSUME NEW q \in PullCalls, PullModel(q)
        PROVE  FALSE
    <2>1. q # p
      BY <1>2 DEF PullModel, PullWorks
    <2>2. pull'[p].at = pull[p].at
      <3>1. \/ pull'[p] = pull[p]
            \/ \E b : pull'[p] = [pull[p] EXCEPT !.disturbed = b]
        BY <1>1, <1>2, <2>1 DEF PullModel
      <3>2. pull[p] \in PullRecord
        BY <1>1
      <3> QED BY <3>1, <3>2 DEF PullRecord
    <2> QED BY <1>1, <2>2
  <1>3. ASSUME NEW q \in PullCalls, MakesDirectory(q)
        PROVE  FALSE
    BY <1>1, <1>3 DEF MakesDirectory, PullRecord
  <1>4. ASSUME NEW q \in PullCalls, PullFails(q)
        PROVE  FALSE
    BY <1>1, <1>4 DEF PullFails, PullEnds, NoPull
  <1>5. ASSUME NEW q \in PullCalls, RejectsLayer(q)
        PROVE  FALSE
    BY <1>1, <1>5 DEF RejectsLayer, PullEnds, NoPull
  <1>6. ASSUME NEW q \in PullCalls, Prune(q)
        PROVE  Prune(p) /\ PullEnds(p, "completed")
    <2>1. CASE PullEnds(q, "completed")
      BY <1>1, <1>6, <2>1 DEF PullEnds
    <2>2. ASSUME NEW f, pull' = [pull EXCEPT ![q].old = @ \ {f}]
          PROVE  FALSE
      BY <1>1, <2>2 DEF PullRecord
    <2> QED BY <1>6, <2>1, <2>2 DEF Prune
  <1>12. ASSUME NEW q \in PullCalls, ReadsOld(q)
         PROVE  FALSE
    BY <1>1, <1>12 DEF ReadsOld, PullRecord
  <1>7. ASSUME NEW q \in PullCalls, Download(q)
        PROVE  Download(p) /\ PullEnds(p, "completed")
    <2>1. CASE PullEnds(q, "completed")
      BY <1>1, <1>7, <2>1 DEF PullEnds
    <2>2. ASSUME NEW f, pull' = [pull EXCEPT
                            ![q].todo = @ \ {f},
                            ![q].at = IF pull[q].target.repo \in Tags THEN "checking" ELSE "opening"]
          PROVE  FALSE
      BY <1>1, <2>2 DEF PullRecord
    <2> QED BY <1>7, <2>1, <2>2 DEF Download
  <1>8. ASSUME NEW r \in Removals, RemoveModel(r)
        PROVE  FALSE
    <2>1. pull'[p] = [pull[p] EXCEPT !.disturbed = TRUE] /\ pull[p] \in PullRecord
      BY <1>1, <1>8 DEF RemoveModel
    <2> QED BY <1>1, <2>1 DEF PullRecord
  <1>9. ASSUME NEW r \in Removals, RemovesPath(r) \/ RemovesDirectory(r) \/ Removed(r)
        PROVE  FALSE
    BY <1>1, <1>9 DEF RemovesPath, RemovesDirectory, Removed
  <1>10. CASE ListStep
    BY <1>1, <1>10 DEF ListStep, List, ReadsRoot, ReadsRepo, RefreshFails, RefreshEnds,
                       MemoAges, tasks
  <1>11. CASE ServerDies
    BY <1>1, <1>11 DEF ServerDies, NoPull
  <1> QED BY <1>2, <1>3, <1>4, <1>5, <1>6, <1>7, <1>8, <1>9, <1>10, <1>11, <1>12
         DEF CatalogueNext, ListStep

(* A pull that completes by itself leaves what answers the next one, and the     *)
(* resolver's choice of MLX is made where MLX runs: for any number of pulls.     *)
THEOREM CompletedPullsServe == CatalogueSpec => CompletedServes
  <1> DEFINE Serving == \A p \in PullCalls :
          LET t == pull[p].target
          IN  (PullWorks(p) /\ pull'[p].at = "completed" /\ ~pull[p].disturbed /\ AsAsked(p))
                => /\ Serves(t, stored'[t.repo]) # Nothing
                   /\ (pull[p].chosen /\ Serves(t, stored'[t.repo]) = Directory) => darwin
  <1>1. CatalogueInv /\ [CatalogueNext]_catalogueVars => [Serving]_catalogueVars
    <2> SUFFICES ASSUME CatalogueInv, CatalogueNext, NEW p \in PullCalls,
                        PullWorks(p), pull'[p].at = "completed", ~pull[p].disturbed, AsAsked(p)
                 PROVE  LET t == pull[p].target
                        IN  /\ Serves(t, stored'[t.repo]) # Nothing
                            /\ (pull[p].chosen /\ Serves(t, stored'[t.repo]) = Directory)
                                   => darwin
      OBVIOUS
    <2> DEFINE repo == pull[p].target.repo
    <2>1. /\ Suits(p) /\ Staged(p) /\ Kept(p) /\ repo \in Repos /\ CacheTyped
          /\ stored \in [Repos -> SUBSET AllFiles]
      BY DEF CatalogueInv, PullsSound, Suits, CacheTyped
    <2>2. pull[p].todo \subseteq pull[p].fetched /\ pull[p].fetched \in SUBSET AllFiles
      BY DEF CatalogueInv, CacheTyped, PullRecord
    <2>3. pull[p].fetched \ pull[p].todo \subseteq stored[repo]
      BY <2>1 DEF Kept
    <2>4. CASE Download(p) /\ PullEnds(p, "completed")
      <3>1. PICK f \in pull[p].todo :
               /\ stored' = [stored EXCEPT ![repo] = @ \cup {f}]
               /\ repo \notin Tags /\ pull[p].todo = {f}
        <4>1. PICK f \in pull[p].todo :
               /\ stored' = [stored EXCEPT ![repo] = @ \cup {f}]
               /\ IF repo \notin Tags /\ pull[p].todo = {f} THEN TRUE
                  ELSE pull' = [pull EXCEPT
                         ![p].todo = @ \ {f},
                         ![p].at = IF repo \in Tags THEN "checking" ELSE "opening"]
          BY <2>4 DEF Download
        <4>2. CASE ~(repo \notin Tags /\ pull[p].todo = {f})
          <5>1. pull'[p].at \in {"checking", "opening"}
            BY <4>1, <4>2 DEF CatalogueInv, CacheTyped, PullRecord
          <5> QED BY <5>1
        <4> QED BY <4>1, <4>2
      <3>2. stored'[repo] = stored[repo] \cup {f} /\ f \in AllFiles
        BY <2>1, <2>2, <3>1
      <3>3. stored'[repo] \in SUBSET AllFiles /\ pull[p].fetched \subseteq stored'[repo]
        BY <2>1, <2>3, <3>1, <3>2
      <3>4. PICK files \in SUBSET AllFiles : files = stored'[repo]
        BY <3>3
      <3>5. darwin' = darwin
        BY <2>4 DEF PullEnds, outside
      <3> QED BY <3>1, <3>3, <3>4, <3>5, EndServes
    <2>5. CASE Prune(p) /\ PullEnds(p, "completed")
      <3>1. pull[p].at = "pruning"
        BY <2>5 DEF Prune
      <3>2. (stored[repo] \cap Ggufs) \ pull[p].fetched = {} /\ stored' = stored
        <4>1. ASSUME NEW f
              PROVE  pull' # [pull EXCEPT ![p].old = @ \ {f}]
          BY <3>1 DEF CatalogueInv, CacheTyped, PullRecord
        <4>2. pull[p].old = {} /\ UNCHANGED cache
          BY <2>5, <4>1 DEF Prune
        <4> QED BY <2>1, <3>1, <4>2 DEF Kept, Others, cache
      <3>3. pull[p].todo = {}
        BY <2>1, <3>1 DEF Staged
      <3>4. /\ stored'[repo] \in SUBSET AllFiles /\ pull[p].fetched \subseteq stored'[repo]
            /\ stored'[repo] \cap Ggufs \subseteq pull[p].fetched
        BY <2>1, <2>3, <3>2, <3>3
      <3>5. PICK files \in SUBSET AllFiles : files = stored'[repo]
        BY <3>4
      <3>6. darwin' = darwin
        BY <2>5 DEF PullEnds, outside
      <3> QED BY <3>4, <3>5, <3>6, EndServes
    <2> QED BY <2>4, <2>5, EndsByItself
  <1> QED BY <1>1, CatalogueKept, PTL DEF CatalogueSpec, CompletedServes
=============================================================================
