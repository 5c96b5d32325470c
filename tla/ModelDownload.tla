---------------------------- MODULE ModelDownload ----------------------------
(* Pulls of one model: the files of its repository are downloaded in order     *)
(* into <file>.part, from where the last attempt stopped if the server allows   *)
(* it, and renamed when they are complete.  The pull route keeps one active     *)
(* download per target, which can be cancelled; /api/pull does neither.         *)
(*                                                                             *)
(* A file is a sequence of blocks.  Who has it open keeps writing to the same   *)
(* inode, whatever name that has by now.  The file names an inode or nothing.   *)
(* A body ends in full or fails; the size check of Ollama blobs, which counts   *)
(* the bytes of the body again, is left out.                                   *)
EXTENDS Integers, Sequences, FiniteSets

CONSTANTS
    Pulls,        \* bound: calls of either route
    AtOnce,       \* bound: pulls at work at the same time
    Files,        \* the files of the model, in the order they are pulled
    Length,       \* blocks of each file
    Layouts,      \* sets of files that make the model count as cached
    Events,       \* bound: crashes of the server, removals of the model and
                  \* new contents upstream together
    None

FileSet == {Files[i] : i \in DOMAIN Files}

(* The inodes of f, each named for the pull that has created it. *)
Inodes == Pulls \X FileSet

(* A repository lists a file once. *)
ASSUME DownloadAssumption ==
    /\ Files \in Seq(FileSet) /\ Files # << >>
    /\ \A i, j \in DOMAIN Files : Files[i] = Files[j] => i = j
    /\ Length \in [FileSet -> Nat \ {0}]
    /\ Layouts \subseteq SUBSET FileSet /\ {} \notin Layouts
    /\ Events \in Nat /\ AtOnce \in Nat
    /\ None \notin Pulls \cup Inodes

VARIABLES
    content,     \* the blocks of each inode
    part, target,\* the inode each file's .part and final name stand for
    removing,    \* whether removeModel is between its two steps
    task,        \* where pullModel of each pull is
    status,      \* downloads: what each call of the pull route is told
    active,      \* activeDownloads
    sha,         \* whether upstream publishes checksums
    upstream,    \* the version of the files upstream
    events,      \* how many events there were
    raced        \* whether two pulls, or a pull and a removal, were at work at
                 \* the same time

disk == <<content, part, target, removing>>
told == <<status, active>>
world == <<sha, upstream, events>>
vars == <<disk, task, told, world, raced>>

(* The content of a file upstream; a block tells its version and place. *)
Full(f, v) == [i \in 1 .. Length[f] |-> <<v, i>>]
Hole == <<0, 0>>

(* route: whether the pull route tells the outcome.  nth: the file.           *)
(* promised: the version the checksum is of, streamed: that of the body.      *)
(* resumed: appends.  done: blocks of the body so far.  hash: what was hashed. *)
Idle == [at |-> "idle", route |-> FALSE, nth |-> 0, aborted |-> FALSE,
         promised |-> 0, streamed |-> 0, from |-> 0, resumed |-> FALSE,
         inode |-> None, done |-> 0, hash |-> << >>]
Over == [Idle EXCEPT !.at = "over"]

Init ==
    /\ content = [i \in Inodes |-> << >>]
    /\ part = [f \in FileSet |-> None] /\ target = [f \in FileSet |-> None]
    /\ removing = FALSE
    /\ task = [p \in Pulls |-> Idle]
    /\ status = [p \in Pulls |-> "none"] /\ active = None
    /\ sha \in BOOLEAN /\ upstream = 1
    /\ events = 0
    /\ raced = FALSE

-----------------------------------------------------------------------------

Working(p) == task[p].at \notin {"idle", "over"}
At(p, stage) == task[p].at = stage
FileOf(p) == Files[task[p].nth]
PartOf(p) == part[FileOf(p)]
Goes(p, t) == task' = [task EXCEPT ![p] = t]
GoesTo(p, stage) == Goes(p, [task[p] EXCEPT !.at = stage])

(* cachedPullResultForTarget *)
Cached == \E l \in Layouts : \A f \in l : target[f] # None

(* What then and catch make of the end of a pull. *)
Outcome(p, outcome) ==
    IF \/ outcome = "failed" /\ task[p].aborted
       \/ outcome = "completed" /\ status[p] = "cancelled"
    THEN "cancelled" ELSE outcome

(* For the mutants: finally does not look whose the active download is. *)
ActiveAfterAny(p) == None

ActiveAfter(p) == IF active = p THEN None ELSE active

Ends(p, outcome) ==
    /\ Goes(p, Over)
    /\ status' = IF task[p].route THEN [status EXCEPT ![p] = Outcome(p, outcome)]
                 ELSE status
    /\ active' = ActiveAfter(p)
    /\ UNCHANGED <<world, raced>>

Continues == UNCHANGED <<told, world, raced>>

Begins(p, route) ==
    /\ Goes(p, [Idle EXCEPT !.at = "inspecting", !.route = route, !.nth = 1])
    /\ Cardinality({q \in Pulls : Working(q)}) < AtOnce
    /\ raced' = (raced \/ removing \/ \E q \in Pulls : Working(q))

(* The pull route: a running download of the target is joined. *)
Pull(p) ==
    /\ At(p, "idle") /\ (active # None => status[active] # "running")
    /\ \E force \in BOOLEAN :
          IF Cached /\ ~force
          THEN /\ status' = [status EXCEPT ![p] = "completed"]
               /\ Goes(p, Over)
               /\ UNCHANGED <<active, raced>>
          ELSE /\ status' = [status EXCEPT ![p] = "running"]
               /\ active' = p
               /\ Begins(p, TRUE)
    /\ UNCHANGED <<disk, world>>

(* /api/pull *)
PullUnlisted(p) ==
    /\ At(p, "idle") /\ ~Cached
    /\ Begins(p, FALSE)
    /\ UNCHANGED <<disk, told, world>>

(* The task notices when it looks at its signal next. *)
Cancel(p) ==
    /\ status[p] = "running"
    /\ status' = [status EXCEPT ![p] = "cancelled"]
    /\ task' = IF active = p THEN [task EXCEPT ![p].aborted = TRUE] ELSE task
    /\ UNCHANGED <<disk, active, world, raced>>

(* A failed request, a full disk; an abort where fetch or the body awaits it. *)
Fails(p) ==
    /\ task[p].at \in {"inspecting", "sizing", "fetching", "opening", "reading",
                       "writing"}
    /\ Ends(p, "failed")
    /\ UNCHANGED disk

Proceeds(p, stage) == At(p, stage) /\ ~task[p].aborted

(* For the mutants: files that are there are not pulled again. *)
InspectedRest(p) ==
    /\ Proceeds(p, "inspecting")
    /\ \E i \in DOMAIN Files :
          /\ target[Files[i]] = None /\ \A j \in 1 .. i - 1 : target[Files[j]] # None
          /\ Goes(p, [task[p] EXCEPT !.at = "sizing", !.nth = i, !.promised = upstream])
    /\ Continues /\ UNCHANGED disk

(* fetchModelInfo: the checksums of all files. *)
Inspected(p) ==
    /\ Proceeds(p, "inspecting")
    /\ Goes(p, [task[p] EXCEPT !.at = "sizing", !.promised = upstream])
    /\ Continues /\ UNCHANGED disk

(* The size of the .part there is decides on the range to ask for. *)
Sized(p) ==
    /\ Proceeds(p, "sizing")
    /\ Goes(p, [task[p] EXCEPT !.at = "fetching",
                  !.from = IF PartOf(p) = None THEN 0 ELSE Len(content[PartOf(p)])])
    /\ Continues /\ UNCHANGED disk

(* 416: there is nothing behind the .part. *)
RangeUnsatisfiable(p) ==
    /\ Proceeds(p, "fetching") /\ task[p].from > 0
    /\ task[p].from >= Length[FileOf(p)]
    /\ GoesTo(p, "checking")
    /\ Continues /\ UNCHANGED disk

(* 206, or 200 from a server that knows no ranges: a new start. *)
Responds(p) ==
    /\ Proceeds(p, "fetching")
    /\ \E resumed \in BOOLEAN :
          /\ resumed => task[p].from > 0 /\ task[p].from < Length[FileOf(p)]
          /\ Goes(p, [task[p] EXCEPT
                        !.at = IF resumed /\ sha THEN "hashing" ELSE "opening",
                        !.streamed = upstream, !.resumed = resumed,
                        !.from = 0, !.done = IF resumed THEN task[p].from ELSE 0])
    /\ Continues /\ UNCHANGED disk

(* The .part is hashed first, so that the checksum is of the whole file. *)
HashesPart(p) ==
    /\ At(p, "hashing") /\ PartOf(p) # None
    /\ Goes(p, [task[p] EXCEPT !.at = "opening", !.hash = content[PartOf(p)]])
    /\ Continues /\ UNCHANGED disk

(* For the mutants: what is there is kept in any case. *)
OpensToAppend(p) ==
    LET f == FileOf(p)
        inode == IF part[f] = None THEN <<p, f>> ELSE part[f]
    IN  /\ At(p, "opening")
        /\ part' = [part EXCEPT ![f] = inode]
        /\ Goes(p, [task[p] EXCEPT !.at = "reading", !.inode = inode,
                                   !.resumed = TRUE])
        /\ Continues /\ UNCHANGED <<content, target, removing>>

(* open of the .part: with "w" it is truncated, with "a" it is kept. *)
Opens(p) ==
    LET f == FileOf(p)
        inode == IF part[f] = None THEN <<p, f>> ELSE part[f]
    IN  /\ At(p, "opening")
        /\ part' = [part EXCEPT ![f] = inode]
        /\ content' = IF task[p].resumed THEN content
                      ELSE [content EXCEPT ![inode] = << >>]
        /\ Goes(p, [task[p] EXCEPT !.at = "reading", !.inode = inode])
        /\ Continues /\ UNCHANGED <<target, removing>>

Reads(p) ==
    /\ Proceeds(p, "reading") /\ task[p].done < Length[FileOf(p)]
    /\ GoesTo(p, "writing")
    /\ Continues /\ UNCHANGED disk

(* s with block b at place i, over what is there or behind a hole. *)
Put(s, i, b) == [j \in 1 .. (IF i > Len(s) THEN i ELSE Len(s)) |->
                    IF j = i THEN b ELSE IF j <= Len(s) THEN s[j] ELSE Hole]

(* The write lands, also when the pull has been cancelled meanwhile. *)
Writes(p) ==
    LET t == task[p]
        block == <<t.streamed, t.done + 1>>
        place == IF t.resumed THEN Len(content[t.inode]) + 1 ELSE t.done + 1
    IN  /\ At(p, "writing")
        /\ content' = [content EXCEPT ![t.inode] = Put(@, place, block)]
        /\ Goes(p, [t EXCEPT !.at = "reading", !.done = @ + 1,
                             !.hash = IF sha THEN Append(@, block) ELSE @])
        /\ Continues /\ UNCHANGED <<part, target, removing>>

Matches(p, blocks) == sha => blocks = Full(FileOf(p), task[p].promised)

(* The end of the body; the pull is no longer cancelled from here on. *)
ReadsAll(p) ==
    /\ Proceeds(p, "reading") /\ task[p].done = Length[FileOf(p)]
    /\ GoesTo(p, IF Matches(p, task[p].hash) THEN "renaming" ELSE "discarding")
    /\ Continues /\ UNCHANGED disk

(* verifyChecksum of a .part that is complete already. *)
Verifies(p) ==
    /\ At(p, "checking") /\ (sha => PartOf(p) # None)
    /\ GoesTo(p, IF sha /\ ~Matches(p, content[PartOf(p)]) THEN "discarding"
                 ELSE "renaming")
    /\ Continues /\ UNCHANGED disk

(* The .part does not match its checksum. *)
Discards(p) ==
    /\ At(p, "discarding")
    /\ part' = [part EXCEPT ![FileOf(p)] = None]
    /\ Ends(p, "failed")
    /\ UNCHANGED <<content, target, removing>>

(* A .part somebody else has renamed or removed. *)
Vanished(p) ==
    /\ task[p].at \in {"hashing", "renaming"} \/ (At(p, "checking") /\ sha)
    /\ PartOf(p) = None
    /\ Ends(p, "failed")
    /\ UNCHANGED disk

(* The file is published, and the next one begins. *)
Renames(p) ==
    LET f == FileOf(p)
    IN  /\ At(p, "renaming") /\ part[f] # None
        /\ target' = [target EXCEPT ![f] = part[f]]
        /\ part' = [part EXCEPT ![f] = None]
        /\ IF task[p].nth = Len(Files)
           THEN Ends(p, "completed")
           ELSE /\ Goes(p, [Idle EXCEPT !.at = "sizing", !.route = task[p].route,
                              !.nth = task[p].nth + 1, !.aborted = task[p].aborted,
                              !.promised = task[p].promised])
                /\ Continues
        /\ UNCHANGED <<content, removing>>

Happens == events < Events /\ events' = events + 1

(* removeModel: the files that are listed, then the directory if nothing but  *)
(* .part files is left in it.                                                 *)
Remove ==
    /\ Cached /\ ~removing /\ Happens
    /\ target' = [f \in FileSet |-> None]
    /\ removing' = TRUE
    /\ raced' = (raced \/ \E p \in Pulls : Working(p))
    /\ UNCHANGED <<content, part, task, told, sha, upstream>>

RemoveDirectory ==
    /\ removing
    /\ removing' = FALSE
    /\ part' = IF \A f \in FileSet : target[f] = None
               THEN [f \in FileSet |-> None] ELSE part
    /\ UNCHANGED <<content, target, task, told, world, raced>>

(* The server is killed and started again: only the files are left. *)
Crash ==
    /\ Happens /\ \E p \in Pulls : Working(p)
    /\ task' = [p \in Pulls |-> IF Working(p) THEN Over ELSE task[p]]
    /\ status' = [p \in Pulls |-> "none"] /\ active' = None
    /\ removing' = FALSE
    /\ UNCHANGED <<content, part, target, sha, upstream, raced>>

(* A new version upstream. *)
Update ==
    /\ Happens
    /\ upstream' = upstream + 1
    /\ UNCHANGED <<disk, task, told, sha, raced>>

-----------------------------------------------------------------------------

Step(p) ==
    \/ Inspected(p) \/ Sized(p) \/ RangeUnsatisfiable(p) \/ Responds(p)
    \/ HashesPart(p) \/ Opens(p) \/ Reads(p) \/ Writes(p) \/ ReadsAll(p)
    \/ Verifies(p) \/ Discards(p) \/ Vanished(p) \/ Renames(p)

Next ==
    \/ \E p \in Pulls : Pull(p) \/ PullUnlisted(p) \/ Cancel(p) \/ Fails(p) \/ Step(p)
    \/ Remove \/ RemoveDirectory \/ Crash \/ Update

Spec == Init /\ [][Next]_vars

-----------------------------------------------------------------------------
Versions == 0 .. Events + 1
Block == Versions \X Nat
Stages == {"idle", "inspecting", "sizing", "fetching", "checking", "hashing", "opening",
           "reading", "writing", "discarding", "renaming", "over"}
Task == [at : Stages, route : BOOLEAN, nth : 0 .. Len(Files), aborted : BOOLEAN,
         promised : Versions, streamed : Versions, from : Nat, resumed : BOOLEAN,
         inode : Inodes \cup {None}, done : Nat, hash : Seq(Block)]

(* The types of the variables. *)
TypeOK ==
    /\ content \in [Inodes -> Seq(Block)]
    /\ part \in [FileSet -> Inodes \cup {None}]
    /\ target \in [FileSet -> Inodes \cup {None}]
    /\ removing \in BOOLEAN /\ sha \in BOOLEAN /\ raced \in BOOLEAN
    /\ task \in [Pulls -> Task]
    /\ status \in [Pulls -> {"none", "running", "completed", "cancelled", "failed"}]
    /\ active \in Pulls \cup {None}
    /\ upstream \in 1 .. Events + 1 /\ events \in 0 .. Events

Intact(f) == \E v \in 1 .. upstream : content[target[f]] = Full(f, v)

(* What is published is what upstream has, over crashes, failures, cancelled  *)
(* pulls, ranges that are ignored and files that were complete already, as    *)
(* long as one pull or removal is at work at a time: with checksums always,   *)
(* without them if upstream does not change.                                  *)
PublishedIntact ==
    (~raced /\ (sha \/ upstream = 1)) =>
        \A f \in FileSet : target[f] # None => Intact(f)

(* "Files with LFS metadata are sha256-verified": what was verified is what   *)
(* is published, whoever pulls the same model at the same time.               *)
VerifiedIntact == sha => \A f \in FileSet : target[f] # None => Intact(f)

(* The task of a cancelled download may end long after, when another has begun *)
(* under the same id: what a download was once told to have come to stays, and *)
(* the one that is told to run is the active one, which can be cancelled and   *)
(* which further pulls join.                                                   *)
LateEndsHarmless ==
    [][\A p \in Pulls :
          /\ status[p] \in {"completed", "cancelled", "failed"} =>
                status'[p] \in {status[p], "none"}
          /\ status'[p] = "running" => active' = p]_vars

(* A pull that goes through the files and is told complete leaves all of them  *)
(* whole and of one version, that of the checksums it has seen, whatever failed *)
(* or cancelled pulls and crashes have left of other versions in final names   *)
(* and .part files: with the provisos of PublishedIntact.                      *)
PulledIsWhole ==
    [][\A p \in Pulls :
          /\ Working(p) /\ status[p] # "completed" /\ status'[p] = "completed"
          /\ ~raced /\ (sha \/ upstream = 1)
          => \A f \in FileSet : /\ target'[f] # None
                                /\ content'[target'[f]] = Full(f, task[p].promised)]_vars

(* "Interrupted downloads ... resume ... on the next pull": a pull completes  *)
(* only when every file of the model is there.  Not so where some of the files *)
(* count as the model: the next pull answers from what an interrupted one has  *)
(* left.                                                                       *)
CompletedIsWhole ==
    [][\A p \in Pulls : status[p] # "completed" /\ status'[p] = "completed"
          => \A f \in FileSet : target'[f] # None]_vars
=============================================================================
