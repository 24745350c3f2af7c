---------------------------- MODULE ConfigCenter ----------------------------
(***************************************************************************)
(* The configuration centre (config/center.go) and the dashboard requests  *)
(* that change the configuration through it (api/dashboard.go).  The same  *)
(* domains are kept in five places: the main file, the centre's memory,    *)
(* the shield, the upstream pools and the dashboard's own storage, which   *)
(* outlives the process as well.                                           *)
(*                                                                         *)
(* SaveYAML runs under the centre's mutex, the rest of a request does not. *)
(* os.WriteFile truncates the file and then writes it: a crash in between  *)
(* leaves it empty.                                                        *)
(***************************************************************************)
EXTENDS Naturals, Sequences, FiniteSets

CONSTANTS
  Admins,       \* requests handled at the same time
  Domains,
  Settings,     \* what a domain may be set to (upstreams, protection mode)
  Blank,        \* settings whose upstream has a blank URL
  None,         \* the domain is not configured
  Empty,        \* contents of a file cut off by a crash
  MaxRequests, MaxCrashes  \* bounds

ASSUME ConfigAssumption ==
  /\ Blank \notin Settings /\ None \notin Settings \cup {Blank}
  /\ Empty \notin [Domains -> Settings \cup {Blank, None}]
  /\ MaxRequests \in Nat /\ MaxCrashes \in Nat

Configs == [Domains -> Settings \cup {Blank, None}]
Nothing == [d \in Domains |-> None]

VARIABLES
  \* on disk
  writable,  \* whether the main file may be written (rigid)
  main,      \* the file given with -config
  files,     \* the files v_<version>.yaml
  index,     \* revisions.json
  store,     \* the domains of data/mango_db.json
  \* in memory
  up,        \* whether the process runs
  center,    \* currentConfig and rawYAML
  revisions, \* the versions the centre lists
  data,      \* Storage.Data.Domains
  shield,    \* the shield's and the pipeline's configuration
  pools,     \* the upstream pools
  save,      \* the SaveYAML that holds the mutex, and what it does next
  req,       \* what each request has yet to do, and with which configuration
  \* the clock and the bounds
  version, requests, crashes,
  \* history
  saved,     \* the last configuration saved, or loaded at the start
  attempted, \* the one that was being saved when the process died, if any
  reloaded   \* whether something was saved since the start

disk   == <<main, files, index, store>>
memory == <<center, revisions, data, shield, pools>>
vars   == <<writable, disk, up, memory, save, req, version, requests, crashes,
            saved, attempted, reloaded>>

(* The steps of the handlers.  Try is a Save whose error nobody looks at. *)
EditSteps     == <<"SetStore", "SaveStore", "Try", "Pools">>
ModeSteps     == <<"SetStore", "SaveStore", "Try">>
SecuritySteps == <<"Save">>
RawSteps      == <<"Save", "Get", "SetStore", "SaveStore", "Pools">>
RollbackSteps == <<"Save", "Get", "Pools">>

Steps == {"SetStore", "SaveStore", "Try", "Save", "Get", "Pools"}
Idle  == [todo |-> <<>>, cfg |-> Nothing]
Free  == [stage |-> "free", by |-> None, cfg |-> Nothing]

TypeOK ==
  /\ writable \in BOOLEAN
  /\ main \in Configs \cup {Empty}
  /\ files \subseteq [v : Nat, cfg : Configs \cup {Empty}]
  /\ index \in (SUBSET Nat) \cup {Empty}
  /\ store \in Configs \cup {Empty}
  /\ up \in BOOLEAN
  /\ center \in Configs /\ data \in Configs /\ shield \in Configs /\ pools \in Configs
  /\ revisions \subseteq Nat
  /\ save \in [stage : {"free", "file", "index", "main", "reload"},
               by : Admins \cup {None}, cfg : Configs]
  /\ req \in [Admins -> [todo : Seq(Steps), cfg : Configs]]
  /\ version \in Nat /\ requests \in Nat /\ crashes \in Nat
  /\ saved \in Configs /\ attempted \in Configs /\ reloaded \in BOOLEAN
-----------------------------------------------------------------------------
(* ValidateConfig, asked by SaveYAML. *)
Valid(c) == \A d \in Domains : c[d] # Blank

(* config.validate, asked at the start: an empty file has no domain either. *)
Loadable(c) == c # Empty /\ \E d \in Domains : c[d] # None

(* A file that does not parse leaves the value it was meant to replace. *)
Read(file, default) == IF file = Empty THEN default ELSE file

(* main.go: the stored domains win over those of the file. *)
Merged(c, stored) == [d \in Domains |-> IF stored[d] # None THEN stored[d] ELSE c[d]]

(* Nothing was stored yet. *)
Init ==
  /\ writable \in BOOLEAN
  /\ main \in {c \in Configs : Loadable(c)}
  /\ files = {} /\ index = Empty /\ store = Nothing
  /\ up = TRUE
  /\ center = main /\ shield = main /\ pools = main
  /\ revisions = {} /\ data = Nothing
  /\ save = Free
  /\ req = [a \in Admins |-> Idle]
  /\ version = 1 /\ requests = 0 /\ crashes = 0
  /\ saved = main /\ attempted = main /\ reloaded = FALSE
-----------------------------------------------------------------------------
Unlocked == save.stage = "free"

Begin(a, steps, c) ==
  /\ up /\ req[a] = Idle /\ requests < MaxRequests
  /\ req' = [req EXCEPT ![a] = [todo |-> steps, cfg |-> c]]
  /\ requests' = requests + 1
  /\ UNCHANGED <<writable, disk, up, memory, save, version, crashes,
                 saved, attempted, reloaded>>

(* handleDomains: POST, PUT and DELETE on a clone of the configuration. *)
Edit(a, d, s) ==
  /\ Unlocked
  /\ s = None => center[d] # None
  /\ Begin(a, EditSteps, [center EXCEPT ![d] = s])

(* handleDomainProtectionMode. *)
SetMode(a, d, s) ==
  /\ Unlocked
  /\ center[d] # None /\ s \in Settings
  /\ Begin(a, ModeSteps, [center EXCEPT ![d] = s])

(* handleSecurityRules: changes what is no domain in a clone. *)
SetRules(a) == Unlocked /\ Begin(a, SecuritySteps, center)

(* handleConfigCenter, POST: a whole configuration, from an administrator or *)
(* from the dashboard of a peer.                                             *)
PostRaw(a, c) == Begin(a, RawSteps, c)

(* Mutant of Rollback: a file cut off is restored. *)
RollbackBlindly(a, f) == Begin(a, RollbackSteps, f.cfg)

(* handleConfigCenter, PUT, with RestoreRevision: any version that has a     *)
(* file; one that was cut off is not valid.                                  *)
Rollback(a, f) == f.cfg # Empty /\ Begin(a, RollbackSteps, f.cfg)

(* The next step of the request of a. *)
At(a, step) == up /\ req[a].todo # <<>> /\ Head(req[a].todo) = step

Rest(r) == IF Tail(r.todo) = <<>> THEN Idle ELSE [r EXCEPT !.todo = Tail(r.todo)]

Continue(a) == req' = [req EXCEPT ![a] = Rest(req[a])]

Answer(a) == req' = [req EXCEPT ![a] = Idle]

(* Untouched by all but saves, crashes and starts. *)
Others == UNCHANGED <<writable, up, version, requests, crashes, saved, attempted, reloaded>>

(* Storage.Data.Domains, under the storage's own mutex, then Storage.Save. *)
SetStore(a) ==
  /\ At(a, "SetStore")
  /\ data' = req[a].cfg
  /\ Continue(a)
  /\ Others /\ UNCHANGED <<disk, center, revisions, shield, pools, save>>

SaveStore(a) ==
  /\ At(a, "SaveStore")
  /\ store' = data
  /\ Continue(a)
  /\ Others /\ UNCHANGED <<main, files, index, memory, save>>

(* center.GetConfig, after the save: what another request may have saved. *)
Get(a) ==
  /\ At(a, "Get") /\ Unlocked
  /\ req' = [req EXCEPT ![a] = [todo |-> Tail(@.todo), cfg |-> center]]
  /\ Others /\ UNCHANGED <<disk, memory, save>>

(* Shield.UpdateUpstreams, outside the centre's mutex. *)
Pools(a) ==
  /\ At(a, "Pools")
  /\ pools' = req[a].cfg
  /\ Continue(a)
  /\ Others /\ UNCHANGED <<disk, center, revisions, data, shield, save>>
-----------------------------------------------------------------------------
(* SaveYAML: the mutex is taken, the configuration is valid. *)
Accept(a) ==
  /\ At(a, "Save") \/ At(a, "Try")
  /\ Unlocked /\ Valid(req[a].cfg)
  /\ save' = [stage |-> "file", by |-> a, cfg |-> req[a].cfg]
  /\ Others /\ UNCHANGED <<disk, memory, req>>

(* SaveYAML returns an error: it ends the request, or nobody looks at it. *)
Fail(a) ==
  \/ At(a, "Save") /\ Answer(a)
  \/ At(a, "Try") /\ Continue(a)

Refuse(a) ==
  /\ Unlocked /\ ~Valid(req[a].cfg)
  /\ Fail(a)
  /\ Others /\ UNCHANGED <<disk, memory, save>>

(* Mutant of NextVersion: revisions are counted. *)
CountedVersion == Cardinality(revisions) + 1

(* The name of a revision is the time, which no two revisions share. *)
NextVersion == version

Write(v, c) == {f \in files : f.v # v} \cup {[v |-> v, cfg |-> c]}

WriteRevision ==
  /\ save.stage = "file"
  /\ files' = Write(NextVersion, save.cfg)
  /\ revisions' = revisions \cup {NextVersion}
  /\ version' = version + 1
  /\ save' = [save EXCEPT !.stage = "index"]
  /\ UNCHANGED <<writable, main, index, store, up, center, data, shield, pools,
                 req, requests, crashes, saved, attempted, reloaded>>

(* Mutant of RevisionFails: the error is ignored, like those of other files. *)
RevisionListed ==
  /\ save.stage = "file"
  /\ files' \in {files, Write(NextVersion, Empty)}
  /\ revisions' = revisions \cup {NextVersion}
  /\ version' = version + 1
  /\ save' = [save EXCEPT !.stage = "index"]
  /\ UNCHANGED <<writable, main, index, store, up, center, data, shield, pools,
                 req, requests, crashes, saved, attempted, reloaded>>

(* The revision's file cannot be written, or only created. *)
RevisionFails ==
  /\ save.stage = "file"
  /\ files' \in {files, Write(NextVersion, Empty)}
  /\ version' = version + 1
  /\ save' = Free
  /\ Fail(save.by)
  /\ UNCHANGED <<writable, main, index, store, up, memory, requests, crashes,
                 saved, attempted, reloaded>>

WriteIndex ==
  /\ save.stage = "index"
  /\ index' = revisions
  /\ save' = [save EXCEPT !.stage = "main"]
  /\ Others /\ UNCHANGED <<main, files, store, memory, req>>

(* Mutant of WriteMain: memory is written before it is updated. *)
WriteMainOld ==
  /\ save.stage = "main"
  /\ main' = IF writable THEN center ELSE main
  /\ save' = [save EXCEPT !.stage = "reload"]
  /\ Others /\ UNCHANGED <<files, index, store, memory, req>>

(* On a read-only mount the file is written elsewhere or nowhere: the next   *)
(* start reads the old one.                                                  *)
WriteMain ==
  /\ save.stage = "main"
  /\ main' = IF writable THEN save.cfg ELSE main
  /\ save' = [save EXCEPT !.stage = "reload"]
  /\ Others /\ UNCHANGED <<files, index, store, memory, req>>

(* Mutant of Reload: the hook does not reach the shield. *)
ReloadCenter ==
  /\ save.stage = "reload"
  /\ center' = save.cfg
  /\ saved' = save.cfg /\ attempted' = save.cfg /\ reloaded' = TRUE
  /\ save' = Free
  /\ Continue(save.by)
  /\ UNCHANGED <<writable, disk, up, shield, pools, revisions, data, version, requests, crashes>>

(* The centre's memory, then the hook of main.go: Shield.ReloadConfig, which *)
(* never fails.                                                              *)
Reload ==
  /\ save.stage = "reload"
  /\ center' = save.cfg /\ shield' = save.cfg /\ pools' = save.cfg
  /\ saved' = save.cfg /\ attempted' = save.cfg /\ reloaded' = TRUE
  /\ save' = Free
  /\ Continue(save.by)
  /\ UNCHANGED <<writable, disk, up, revisions, data, version, requests, crashes>>

(* What a crash may leave of a file, and of a revision's file. *)
CutOff(file, writing) == IF writing THEN {file, Empty} ELSE {file}

CutOffRevision ==
  {files} \cup {Write(NextVersion, Empty) : x \in {s \in {save} : s.stage = "file"}}

(* The process is killed, or exits on SIGTERM without waiting for requests. *)
Crash ==
  /\ up /\ crashes < MaxCrashes
  /\ up' = FALSE
  /\ main' \in CutOff(main, writable /\ save.stage = "main")
  /\ index' \in CutOff(index, save.stage = "index")
  /\ store' \in CutOff(store, \E a \in Admins : At(a, "SaveStore"))
  /\ files' \in CutOffRevision
  /\ center' = Nothing /\ revisions' = {} /\ data' = Nothing
  /\ shield' = Nothing /\ pools' = Nothing
  /\ save' = Free /\ req' = [a \in Admins |-> Idle]
  /\ version' = version + 1 /\ crashes' = crashes + 1
  /\ attempted' = IF save.stage = "free" THEN saved ELSE save.cfg
  /\ UNCHANGED <<writable, requests, saved, reloaded>>

(* Mutant of Restart: the centre starts from the merged domains. *)
RestartMerged ==
  /\ ~up /\ Loadable(main)
  /\ up' = TRUE
  /\ revisions' = Read(index, {}) /\ data' = Read(store, Nothing)
  /\ center' = Merged(main, data') /\ shield' = center' /\ pools' = center'
  /\ saved' = main /\ attempted' = main /\ reloaded' = FALSE
  /\ UNCHANGED <<writable, disk, save, req, version, requests, crashes>>

(* The process starts; it exits at once if the main file is not Loadable. *)
Restart ==
  /\ ~up /\ Loadable(main)
  /\ up' = TRUE
  /\ center' = main /\ revisions' = Read(index, {}) /\ data' = Read(store, Nothing)
  /\ shield' = Merged(main, data') /\ pools' = Merged(main, data')
  /\ saved' = main /\ attempted' = main /\ reloaded' = FALSE
  /\ UNCHANGED <<writable, disk, save, req, version, requests, crashes>>

Next ==
  \/ \E a \in Admins :
       \/ \E d \in Domains : \E s \in Settings \cup {Blank, None} :
            Edit(a, d, s) \/ SetMode(a, d, s)
       \/ SetRules(a)
       \/ \E c \in Configs : PostRaw(a, c)
       \/ \E f \in files : Rollback(a, f)
       \/ SetStore(a) \/ SaveStore(a) \/ Get(a) \/ Pools(a)
       \/ Accept(a) \/ Refuse(a)
  \/ WriteRevision \/ RevisionFails \/ WriteIndex \/ WriteMain \/ Reload
  \/ Crash \/ Restart

Spec == Init /\ [][Next]_vars
-----------------------------------------------------------------------------
(* Every version that the centre lists, or will list after a restart, can be *)
(* restored, whenever the process dies while revisions are being written     *)
(* (SaveYAML, saveRevisionsIndex, loadRevisionsList).                        *)
Restorable(v) == \E f \in files : f.v = v /\ f.cfg # Empty

ListedRestorable == \A v \in revisions \cup Read(index, {}) : Restorable(v)

(* A revision is never lost or changed, by other saves, by crashes in the    *)
(* middle of a save or by the loss of the list (SaveYAML).                   *)
RevisionsKept == [][\A f \in files : f.cfg # Empty => f \in files']_vars

(* Once something has been saved since the start, and while no save is being *)
(* made, what the shield enforces is what the centre shows and what the next *)
(* start reads, whatever requests are under way (SaveYAML and its hook).     *)
SavedEverywhere ==
  up /\ Unlocked /\ reloaded => shield = center /\ (writable => main = center)

(* A start brings back the last configuration saved, or the one whose save   *)
(* the crash interrupted, but no older one and no mixture (NewCenter).       *)
RestartKeepsSaves ==
  [][~up /\ up' /\ writable => center' \in {saved, attempted}]_vars

(* "ConfigCenter manages single source of truth configuration" (center.go):  *)
(* when no request is being handled the shield enforces, and the pools route, *)
(* the domains of the centre.                                                *)
OneSource ==
  up /\ (\A a \in Admins : req[a].todo = <<>>) => shield = center /\ pools = center
=============================================================================
