---------------------------- MODULE ModelCatalogue ----------------------------
(* The models that are cached on disk: what a pull chooses and leaves there,   *)
(* what removeModel takes away, which names resolve to what, and the list of    *)
(* models, which is memoized and refreshed while pulls and removals go on.      *)
(*                                                                             *)
(* A file is there or not; how it gets there is ModelDownload's.  A name is the *)
(* alias, a repository (or Ollama tag), or a GGUF file of one.  Models named in *)
(* the environment, and what the list tells of a model beside its name and      *)
(* place, are left out.                                                        *)
EXTENDS Integers, Sequences, FiniteSets

CONSTANTS
    Hub,         \* the repositories of Hugging Face
    Tags,        \* the tags of the Ollama registry
    Ggufs,       \* GGUF files
    Score,       \* optionScore of their quantization
    Alias,       \* an alias: its name, and a repository for either backend
    Offers,     \* what a repository may hold upstream
    Left,        \* what earlier pulls may have left in its directory
    PullCalls,       \* bound: pulls
    Removals,    \* bound: removals
    Pollers,     \* who asks for the list of models
    Ttl,         \* how old a list may be
    StaleLimit,  \* how old it may be while another is made
    Nothing

Repos == Hub \cup Tags
MlxFiles == {"config", "tokenizer", "weights"}
AllFiles == Ggufs \cup MlxFiles
Backends == {"gguf", "mlx"}
Directory == "directory"

ASSUME CatalogueAssumption ==
    /\ Hub \cap Tags = {} /\ IsFiniteSet(Ggufs) /\ Directory \notin Ggufs
    /\ Nothing \notin AllFiles \cup Repos \cup Backends \cup {Directory}
    /\ Score \in [Ggufs -> 1 .. 80]
    /\ Alias.mlx \in Hub /\ Alias.gguf \in Hub /\ Alias.file \in Ggufs
    /\ Alias.name \notin Repos
    /\ Offers \subseteq SUBSET AllFiles /\ Left \subseteq SUBSET AllFiles
    /\ Ttl \in Nat \ {0} /\ StaleLimit \in Nat /\ Ttl <= StaleLimit

VARIABLES
    darwin,      \* whether this is macOS on arm64
    offered,    \* the files of each repository, the choices of each tag
    dirs,        \* the directories of the cache
    stored,        \* the files in each of them
    pull,        \* where pullModel of each pull is
    removal,     \* where removeModel of each removal is
    memo,        \* listModelsMemo, with its age
    refresh,     \* listModelsRefresh
    poll,        \* whether each poller waits for the refresh
    shown        \* what each poller was told last

cache == <<dirs, stored>>
tasks == <<pull, removal>>
listing == <<memo, refresh, poll, shown>>
outside == <<darwin, offered>>
catalogueVars == <<cache, tasks, listing, outside>>

-----------------------------------------------------------------------------
(* What is cached. *)

HasMlxLayout(files) == "config" \in files /\ files \cap {"tokenizer", "weights"} # {}
NameOf(repo, file) == [repo |-> repo, file |-> file]

(* For the mutants: the files of a repository all have its name. *)
CachedUnderOneName(repo, files) ==
    {[name |-> NameOf(repo, Nothing), repo |-> repo, path |-> f] : f \in files \cap Ggufs}
    \cup {[name |-> NameOf(repo, Nothing), repo |-> repo, path |-> Directory] :
            d \in {x \in {Directory} : HasMlxLayout(files)}}

(* Several GGUF files are told apart by their names. *)
CachedModelsForRepo(repo, files) ==
    LET ggufs == files \cap Ggufs
        name(f) == NameOf(repo, IF Cardinality(ggufs) = 1 THEN Nothing ELSE f)
    IN  {[name |-> name(f), repo |-> repo, path |-> f] : f \in ggufs}
        \cup IF HasMlxLayout(files)
             THEN {[name |-> NameOf(repo, Nothing), repo |-> repo, path |-> Directory]}
             ELSE {}

ListCachedModels == UNION {CachedModelsForRepo(r, stored[r]) : r \in dirs}

(* What a pull is after: a repository, perhaps one file of it or one backend. *)
Target(repo, file, backend) == [repo |-> repo, file |-> file, backend |-> backend]

(* cachedPullResultForTarget: what answers a pull, or Nothing. *)
Serves(t, files) ==
    LET ggufs == files \cap Ggufs
    IN  IF t.file # Nothing
        THEN IF t.file \in files THEN t.file ELSE Nothing
        ELSE IF t.backend # "gguf" /\ HasMlxLayout(files)
        THEN Directory
        ELSE IF Cardinality(ggufs) = 1 THEN CHOOSE f \in ggufs : TRUE ELSE Nothing

CachedResult(t) == Serves(t, stored[t.repo])

AliasTarget(backend) ==
    IF backend = "mlx" \/ (backend = Nothing /\ darwin)
    THEN Target(Alias.mlx, Nothing, "mlx") ELSE Target(Alias.gguf, Alias.file, "gguf")

CachedPathForTarget(t) ==
    IF t.backend = "gguf" THEN (IF t.file \in stored[t.repo] THEN t.file ELSE Nothing)
    ELSE IF HasMlxLayout(stored[t.repo]) THEN Directory ELSE Nothing

(* resolveModel: the place a name stands for, or Nothing.  The name of a file that *)
(* is not listed stands for a file of that name in the working directory.       *)
Place(repo, path) == [repo |-> repo, path |-> path]
Nowhere == Place(Nothing, Nothing)
PlaceOrNot(repo, path) == IF path = Nothing THEN Nowhere ELSE Place(repo, path)

ResolveAlias(backend) ==
    LET first == AliasTarget(backend)
        other == AliasTarget(IF first.backend = "mlx" THEN "gguf" ELSE "mlx")
    IN  IF CachedPathForTarget(first) # Nothing \/ backend # Nothing
        THEN PlaceOrNot(first.repo, CachedPathForTarget(first))
        ELSE PlaceOrNot(other.repo, CachedPathForTarget(other))

ResolveModel(name, backend) ==
    IF name.file # Nothing
    THEN IF \E m \in ListCachedModels : m.name = name
         THEN Place(name.repo, name.file) ELSE Place(Nothing, name.file)
    ELSE IF name.repo = Alias.name THEN ResolveAlias(backend)
    ELSE PlaceOrNot(name.repo, CachedResult(Target(name.repo, Nothing, backend)))

-----------------------------------------------------------------------------
(* What a pull chooses. *)

Option(repo, file, backend, supported, score) ==
    [repo |-> repo, file |-> file, backend |-> backend,
     supported |-> supported, score |-> score]

MlxOption(r) == Option(r, Nothing, "mlx", darwin, IF darwin THEN 100 ELSE -100)

(* optionsForRepo and ollamaOption.  Weights alone are offered as unsupported. *)
OptionsForRepo(r) ==
    IF r \in Tags THEN {Option(r, Nothing, "gguf", TRUE, 40)}
    ELSE {Option(r, f, "gguf", TRUE, Score[f]) : f \in offered[r] \cap Ggufs}
         \cup {MlxOption(x) : x \in {y \in {r} : MlxFiles \subseteq offered[r]}}

(* applyOverrides *)
Admits(request, o) ==
    /\ request.backend \in {Nothing, o.backend}
    /\ request.file \in {Nothing, o.file}

(* resolvePullTarget *)
PullTarget(request) ==
    IF request.model = Alias.name
    THEN LET t == AliasTarget(request.backend)
         IN  [t EXCEPT !.file = IF request.file = Nothing THEN @ ELSE request.file]
    ELSE Target(request.model, request.file, request.backend)

TargetRepos(request) ==
    IF request.model = Alias.name /\ request.backend = Nothing
    THEN {Alias.mlx, Alias.gguf} ELSE {PullTarget(request).repo}

(* An alias has one repository for MLX, and one file of another. *)
OfTheAlias(request, o) ==
    request.model = Alias.name =>
        \/ o.backend = "mlx" /\ o.repo = Alias.mlx
        \/ o.backend = "gguf" /\ o.repo = Alias.gguf /\ o.file = Alias.file

(* rankOptions: the best of those that run here; the smaller of equal ones. *)
Selected(request) ==
    LET able == {o \in UNION {OptionsForRepo(r) : r \in TargetRepos(request)} :
                   Admits(request, o) /\ OfTheAlias(request, o) /\ o.supported}
    IN  {o \in able : \A x \in able : x.score <= o.score}

(* With a file or for MLX nothing is inspected; where nothing runs here pullModel *)
(* goes for what was asked.                                                      *)
Chosen(request) ==
    request.file = Nothing /\ request.backend # "mlx" /\ Selected(request) # {}

Wants(request) ==
    IF Chosen(request)
    THEN {Target(o.repo, o.file, o.backend) : o \in Selected(request)}
    ELSE {PullTarget(request)}

(* The files that are downloaded: those of a tag change with the tag.  Nothing *)
(* where the pull is an error: a choice between files, no file of that name,   *)
(* no layout.  A single GGUF file is taken whatever the target says.           *)
Fetches(t) ==
    LET there == offered[t.repo]
        ggufs == there \cap Ggufs
    IN  IF t.repo \in Tags
        THEN IF t.backend = "mlx" THEN {} ELSE {{f} : f \in there}
        ELSE IF t.file # Nothing THEN {{f} : f \in {t.file} \cap there}
        ELSE IF t.backend = "gguf" \/ Cardinality(ggufs) > 1 THEN {}
        ELSE IF ggufs # {} THEN {ggufs}
        ELSE {fs \in {there} : HasMlxLayout(fs)}

-----------------------------------------------------------------------------

(* todo: files to come, fetched: all of them.  old: files to be removed.        *)
(* chosen: the target is the best of what runs here.                            *)
(* disturbed: something else was at work in the cache.                          *)
NoPull == [at |-> "idle", target |-> Target(Nothing, Nothing, Nothing), todo |-> {}, fetched |-> {},
           old |-> {}, chosen |-> FALSE, disturbed |-> FALSE]
(* here: in the server.  todo: what is to be removed, dirs: whose files were.    *)
NoRemoval == [at |-> "idle", here |-> FALSE, todo |-> {}, dirs |-> {}, any |-> FALSE]
NoRefresh == [on |-> FALSE, roots |-> << >>, todo |-> {}, got |-> {}]
NoMemo == [there |-> FALSE, age |-> 0, value |-> {}]
Error == {Nothing}

CatalogueInit ==
    /\ darwin \in BOOLEAN
    /\ offered \in [Repos -> Offers]
    /\ \A t \in Tags : offered[t] \subseteq Ggufs /\ offered[t] # {}
    /\ stored \in [Repos -> Left] /\ \A t \in Tags : stored[t] \subseteq Ggufs
    /\ dirs = {r \in Repos : stored[r] # {}}
    /\ pull = [p \in PullCalls |-> NoPull]
    /\ removal = [r \in Removals |-> NoRemoval]
    /\ memo = NoMemo /\ refresh = NoRefresh
    /\ poll = [c \in Pollers |-> FALSE]
    /\ shown = [c \in Pollers |-> {}]

(* invalidateModelListCache.  A refresh under way goes on. *)
InvalidateModelListCache == memo' = NoMemo

-----------------------------------------------------------------------------
(* Pulls. *)

Requests == [model : Repos \cup {Alias.name}, file : Ggufs \cup {Nothing},
             backend : Backends \cup {Nothing}]

PullWorks(p) == pull[p].at \in {"opening", "downloading", "checking", "pruning"}
RemovalsGoOn == \E r \in Removals : removal[r].at = "removing"

(* pullModel up to the first file.  What is cached is not pulled again unless   *)
(* that is forced.                                                             *)
PullModel(p) ==
    /\ pull[p].at = "idle"
    /\ \E request \in Requests :
          /\ request.model \in Tags => request.file = Nothing
          /\ \E t \in Wants(request) :
              LET rivals == {q \in PullCalls : PullWorks(q) /\ pull[q].target.repo = t.repo}
              IN  \/ /\ CachedResult(t) # Nothing
                     /\ pull' = [pull EXCEPT ![p] = [NoPull EXCEPT !.at = "over"]]
                  \/ \E fs \in Fetches(t) :
                        pull' = [q \in PullCalls |->
                            IF q = p
                            THEN [at |-> "opening", target |-> t, todo |-> fs, fetched |-> fs,
                                  old |-> {}, chosen |-> Chosen(request),
                                  disturbed |-> RemovalsGoOn \/ rivals # {}]
                            ELSE [pull[q] EXCEPT !.disturbed = @ \/ q \in rivals]]
    /\ UNCHANGED <<cache, removal, listing, outside>>

(* The end of a pull, either way. *)
PullEnds(p, outcome) ==
    /\ pull' = [pull EXCEPT ![p] = [NoPull EXCEPT !.at = outcome]]
    /\ InvalidateModelListCache
    /\ UNCHANGED <<removal, refresh, poll, shown, outside>>

(* downloadFile, up to the end of the body: the directory is made. *)
MakesDirectory(p) ==
    /\ pull[p].at = "opening"
    /\ dirs' = dirs \cup {pull[p].target.repo}
    /\ pull' = [pull EXCEPT ![p].at = "downloading"]
    /\ UNCHANGED <<stored, removal, listing, outside>>

(* A file is complete and takes its name, if the directory is still there. *)
Download(p) ==
    LET repo == pull[p].target.repo
    IN  /\ pull[p].at = "downloading" /\ repo \in dirs
        /\ \E f \in pull[p].todo :
              /\ stored' = [stored EXCEPT ![repo] = @ \cup {f}]
              /\ IF repo \notin Tags /\ pull[p].todo = {f}
                 THEN PullEnds(p, "completed")
                 ELSE /\ pull' = [pull EXCEPT
                            ![p].todo = @ \ {f},
                            ![p].at = IF repo \in Tags THEN "checking" ELSE "opening"]
                      /\ UNCHANGED <<removal, listing, outside>>
        /\ UNCHANGED dirs

(* Cancelled, refused, or without its directory when it is to be renamed; or the *)
(* file of a tag has gone before it is looked at.                               *)
PullFails(p) ==
    /\ \/ pull[p].at \in {"opening", "downloading"}
       \/ pull[p].at = "checking" /\ ~(pull[p].fetched \subseteq stored[pull[p].target.repo])
    /\ PullEnds(p, "over")
    /\ UNCHANGED cache

(* For the mutants: the files of the tag before stay. *)
PruneNothing(p) ==
    /\ pull[p].at = "pruning"
    /\ PullEnds(p, "completed") /\ UNCHANGED cache

(* pullOllamaModel: the directory is read once, *)
ReadsOld(p) ==
    /\ pull[p].at = "checking" /\ pull[p].target.repo \in dirs
    /\ pull' = [pull EXCEPT ![p].at = "pruning",
                  ![p].old = (stored[pull[p].target.repo] \cap Ggufs) \ pull[p].fetched]
    /\ UNCHANGED <<cache, removal, listing, outside>>

(* and the other files of the tag are removed one by one. *)
Prune(p) ==
    /\ pull[p].at = "pruning"
    /\ \/ \E f \in pull[p].old :
             /\ stored' = [stored EXCEPT ![pull[p].target.repo] = @ \ {f}]
             /\ pull' = [pull EXCEPT ![p].old = @ \ {f}]
             /\ UNCHANGED <<dirs, removal, listing, outside>>
       \/ /\ pull[p].old = {}
          /\ PullEnds(p, "completed") /\ UNCHANGED cache

(* The layer turns out to be no GGUF file. *)
RejectsLayer(p) ==
    LET repo == pull[p].target.repo
    IN  /\ pull[p].at = "checking"
        /\ stored' = [stored EXCEPT ![repo] = @ \ pull[p].fetched]
        /\ PullEnds(p, "over") /\ UNCHANGED dirs

-----------------------------------------------------------------------------
(* Removals, by the server or by the command line, which has a list of its own. *)

Names == [repo : Repos \cup {Alias.name}, file : Ggufs \cup {Nothing}]

Denotes(name, m) ==
    \/ m.name = name
    \/ name.file = Nothing /\ m.repo = name.repo
    \/ name.file = Nothing /\ name.repo = Alias.name /\ m.repo \in {Alias.mlx, Alias.gguf}

RemoveModel(r) ==
    /\ removal[r].at = "idle"
    /\ \E name \in Names, here \in BOOLEAN :
          LET found == {m \in ListCachedModels : Denotes(name, m)}
          IN  /\ found # {}
              /\ removal' = [removal EXCEPT ![r] =
                    [NoRemoval EXCEPT !.at = "removing", !.here = here,
                        !.todo = {[repo |-> m.repo, path |-> m.path] : m \in found}]]
    /\ pull' = [p \in PullCalls |-> [pull[p] EXCEPT !.disturbed = TRUE]]
    /\ UNCHANGED <<cache, listing, outside>>

RemovesPath(r) ==
    /\ removal[r].at = "removing"
    /\ \E x \in removal[r].todo :
          /\ removal' = [removal EXCEPT
                ![r].todo = @ \ {x},
                ![r].dirs = IF x.path \in stored[x.repo] THEN @ \cup {x.repo} ELSE @,
                ![r].any = @ \/ x.path \in stored[x.repo]
                             \/ (x.path = Directory /\ x.repo \in dirs)]
          /\ stored' = [stored EXCEPT ![x.repo] = IF x.path = Directory THEN {} ELSE @ \ {x.path}]
          /\ dirs' = IF x.path = Directory THEN dirs \ {x.repo} ELSE dirs
    /\ UNCHANGED <<pull, listing, outside>>

(* The directories that hold nothing but .part files, one by one. *)
RemovesDirectory(r) ==
    /\ removal[r].at = "removing" /\ removal[r].todo = {}
    /\ \E x \in removal[r].dirs :
          /\ removal' = [removal EXCEPT ![r].dirs = @ \ {x}]
          /\ dirs' = IF stored[x] = {} THEN dirs \ {x} ELSE dirs
    /\ UNCHANGED <<stored, pull, listing, outside>>

Removed(r) ==
    /\ removal[r].at = "removing" /\ removal[r].todo = {} /\ removal[r].dirs = {}
    /\ removal' = [removal EXCEPT ![r] = [NoRemoval EXCEPT !.at = "over"]]
    /\ IF removal[r].here /\ removal[r].any THEN InvalidateModelListCache ELSE UNCHANGED memo
    /\ UNCHANGED <<cache, pull, refresh, poll, shown, outside>>

-----------------------------------------------------------------------------
(* The list. *)

Sources == <<Hub, Tags>>
Fresh == memo.there /\ memo.age < Ttl
Usable == memo.there /\ memo.age < StaleLimit

Refreshing == IF refresh.on THEN refresh ELSE [NoRefresh EXCEPT !.on = TRUE, !.roots = Sources]

(* listModelsAsync: the memo while it is fresh; else a refresh, and the memo     *)
(* again as long as it is not too old.                                          *)
List(c) ==
    /\ ~poll[c]
    /\ IF Fresh THEN UNCHANGED refresh ELSE refresh' = Refreshing
    /\ IF Usable
       THEN shown' = [shown EXCEPT ![c] = memo.value] /\ UNCHANGED poll
       ELSE poll' = [poll EXCEPT ![c] = TRUE] /\ UNCHANGED shown
    /\ UNCHANGED <<cache, tasks, memo, outside>>

Answer(value) ==
    /\ shown' = [c \in Pollers |-> IF poll[c] THEN value ELSE shown[c]]
    /\ poll' = [c \in Pollers |-> FALSE]

ReadsRoot ==
    /\ refresh.on /\ refresh.todo = {} /\ refresh.roots # << >>
    /\ refresh' = [refresh EXCEPT !.roots = Tail(@), !.todo = dirs \cap Head(refresh.roots)]
    /\ UNCHANGED <<cache, tasks, memo, poll, shown, outside>>

ReadsRepo ==
    /\ refresh.on
    /\ \E r \in refresh.todo \cap dirs :
          refresh' = [refresh EXCEPT !.todo = @ \ {r},
                                     !.got = @ \cup CachedModelsForRepo(r, stored[r])]
    /\ UNCHANGED <<cache, tasks, memo, poll, shown, outside>>

(* For the mutants: the refresh that failed is kept, and fails whoever waits. *)
RefreshStuck ==
    /\ refresh.on /\ refresh.todo \ dirs # {}
    /\ Answer(Error)
    /\ UNCHANGED <<cache, tasks, memo, refresh, outside>>

(* A directory that was there when the root was read has gone. *)
RefreshFails ==
    /\ refresh.on /\ refresh.todo \ dirs # {}
    /\ refresh' = NoRefresh
    /\ Answer(Error)
    /\ UNCHANGED <<cache, tasks, memo, outside>>

RefreshEnds ==
    /\ refresh.on /\ refresh.todo = {} /\ refresh.roots = << >>
    /\ memo' = [there |-> TRUE, age |-> 0, value |-> refresh.got]
    /\ refresh' = NoRefresh
    /\ Answer(refresh.got)
    /\ UNCHANGED <<cache, tasks, outside>>

(* Beyond the limit its age does not matter. *)
MemoAges ==
    /\ memo.there /\ memo.age < StaleLimit
    /\ memo' = [memo EXCEPT !.age = @ + 1]
    /\ UNCHANGED <<cache, tasks, refresh, poll, shown, outside>>

(* The server is killed at work and started again: only what is on disk is left. *)
ServerDies ==
    /\ \/ \E p \in PullCalls : PullWorks(p)
       \/ \E r \in Removals : removal[r].here
    /\ pull' = [p \in PullCalls |-> IF PullWorks(p) THEN [NoPull EXCEPT !.at = "over"] ELSE pull[p]]
    /\ removal' = [r \in Removals |-> IF removal[r].here THEN [NoRemoval EXCEPT !.at = "over"]
                                      ELSE removal[r]]
    /\ memo' = NoMemo /\ refresh' = NoRefresh
    /\ poll' = [c \in Pollers |-> FALSE]
    /\ UNCHANGED <<cache, shown, outside>>

-----------------------------------------------------------------------------

CatalogueNext ==
    \/ \E p \in PullCalls : \/ PullModel(p) \/ MakesDirectory(p) \/ Download(p) \/ PullFails(p)
                        \/ ReadsOld(p) \/ Prune(p) \/ RejectsLayer(p)
    \/ \E r \in Removals : \/ RemoveModel(r) \/ RemovesPath(r) \/ RemovesDirectory(r)
                           \/ Removed(r)
    \/ \E c \in Pollers : List(c)
    \/ ReadsRoot \/ ReadsRepo \/ RefreshFails \/ RefreshEnds \/ MemoAges \/ ServerDies

CatalogueSpec == CatalogueInit /\ [][CatalogueNext]_catalogueVars

(* Pollers keep asking, time passes, and the disk answers. *)
Fairness ==
    /\ \A c \in Pollers : WF_catalogueVars(List(c))
    /\ WF_catalogueVars(ReadsRoot) /\ WF_catalogueVars(ReadsRepo)
    /\ WF_catalogueVars(RefreshFails) /\ WF_catalogueVars(RefreshEnds) /\ WF_catalogueVars(MemoAges)

FairSpec == CatalogueSpec /\ Fairness

-----------------------------------------------------------------------------
(* The types of the variables. *)
CatalogueTypeOK ==
    /\ darwin \in BOOLEAN /\ offered \in [Repos -> SUBSET AllFiles]
    /\ dirs \subseteq Repos /\ stored \in [Repos -> SUBSET AllFiles]
    /\ \A p \in PullCalls : pull[p].todo \subseteq pull[p].fetched
    /\ \A r \in Repos : stored[r] # {} => r \in dirs
    /\ memo.age \in 0 .. StaleLimit
    /\ \A c \in Pollers : poll[c] => refresh.on

(* Every cached model is found under the name it is listed with, whatever pulls, *)
(* removals and crashes have left there.  A GGUF file beside an MLX layout shares *)
(* its name with the layout, which is preferred.                                *)
ListedResolves ==
    \A m \in ListCachedModels :
        (m.path # Directory => ~HasMlxLayout(stored[m.repo]))
            => ResolveModel(m.name, Nothing) = Place(m.repo, m.path)

(* "Clap prefers MLX on macOS arm64 when an MLX layout is available": an MLX      *)
(* target is not answered with a GGUF file.                                      *)
AsAsked(p) ==
    pull[p].target.backend = "mlx" /\ pull[p].target.file = Nothing
        => pull[p].fetched \cap Ggufs = {}

MlxIsPulled == \A p \in PullCalls : AsAsked(p)

(* "If the target is already fully cached, pulls return a completed download     *)
(* immediately": a pull that completes by itself leaves what answers the next    *)
(* one, and what the resolver has chosen runs on this platform.  A GGUF file that *)
(* answers a pull for MLX may find others beside it, and then answers none.      *)
CompletedServes ==
    [][\A p \in PullCalls :
          LET t == pull[p].target
          IN  (PullWorks(p) /\ pull'[p].at = "completed" /\ ~pull[p].disturbed /\ AsAsked(p))
                => /\ Serves(t, stored'[t.repo]) # Nothing
                   /\ (pull[p].chosen /\ Serves(t, stored'[t.repo]) = Directory) => darwin]_catalogueVars

(* Whoever keeps asking for the list is told what is there in the end: over      *)
(* memos that another process has made stale, refreshes that were under way      *)
(* when the cache changed, refreshes that fail, and crashes.                     *)
PollersConverge == \A c \in Pollers : <>[](shown[c] = ListCachedModels)
=============================================================================
