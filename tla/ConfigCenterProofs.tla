------------------------- MODULE ConfigCenterProofs -------------------------
(* Theorems about what the dashboard keeps - the configuration centre, the   *)
(* accounts and their audit trail, the configurations that nodes post to     *)
(* each other - for any number of requests, domains, accounts, nodes, saves  *)
(* and crashes.                                                              *)
EXTENDS MCConfigCenter, FiniteSetTheorems, WellFoundedInduction, TLAPS

(* Every revision is older than the next one. *)
FilesOld == \A f \in files : f.v < version

(* The main file follows memory, but for the save under way; a crash leaves  *)
(* what was saved, what was being saved, or nothing.                         *)
MainInv ==
  /\ up => center = saved /\ (reloaded => shield = center)
  /\ up /\ writable => main = IF save.stage = "reload" THEN save.cfg ELSE saved
  /\ ~up => save = Free
  /\ ~up /\ writable => main \in {saved, attempted, Empty}
-----------------------------------------------------------------------------
LEMMA NothingType == Nothing \in Configs
BY DEF Nothing, Configs

LEMMA IdleType == Idle \in [todo : Seq(Steps), cfg : Configs]
BY NothingType DEF Idle

LEMMA StepsType ==
  /\ EditSteps \in Seq(Steps) /\ ModeSteps \in Seq(Steps) /\ SecuritySteps \in Seq(Steps)
  /\ RawSteps \in Seq(Steps) /\ RollbackSteps \in Seq(Steps)
BY DEF EditSteps, ModeSteps, SecuritySteps, RawSteps, RollbackSteps, Steps

(* A request stays well typed when it goes on, is answered or begins. *)
LEMMA ReqType ==
  ASSUME TypeOK, NEW a
  PROVE  /\ Continue(a) /\ req[a].todo # <<>> => req' \in [Admins -> [todo : Seq(Steps), cfg : Configs]]
         /\ Answer(a) => req' \in [Admins -> [todo : Seq(Steps), cfg : Configs]]
<1>1. ASSUME Answer(a) PROVE req' \in [Admins -> [todo : Seq(Steps), cfg : Configs]]
  BY <1>1, IdleType DEF Answer, TypeOK
<1>2. ASSUME Continue(a), req[a].todo # <<>>
      PROVE  req' \in [Admins -> [todo : Seq(Steps), cfg : Configs]]
  <2>1. ASSUME a \in Admins PROVE Rest(req[a]) \in [todo : Seq(Steps), cfg : Configs]
    <3>1. req[a] \in [todo : Seq(Steps), cfg : Configs]
      BY <2>1 DEF TypeOK
    <3>2. Tail(req[a].todo) \in Seq(Steps)
      BY <3>1, <1>2
    <3> QED
      BY <3>1, <3>2, IdleType DEF Rest
  <2> QED
    BY <1>2, <2>1 DEF Continue, TypeOK
<1> QED
  BY <1>1, <1>2

LEMMA WriteType ==
  ASSUME TypeOK, NEW v \in Nat, NEW c \in Configs \cup {Empty}
  PROVE  Write(v, c) \subseteq [v : Nat, cfg : Configs \cup {Empty}]
BY DEF Write, TypeOK

LEMMA TypeInit == Init => TypeOK
<1> SUFFICES ASSUME Init PROVE TypeOK
  OBVIOUS
<1>1. Free \in [stage : {"free", "file", "index", "main", "reload"},
                by : Admins \cup {None}, cfg : Configs]
  BY NothingType DEF Free
<1> QED
  BY <1>1, NothingType, IdleType DEF Init, TypeOK

LEMMA BeginType ==
  ASSUME TypeOK, NEW a, NEW steps \in Seq(Steps), NEW c \in Configs, Begin(a, steps, c)
  PROVE  TypeOK'
<1>1. [todo |-> steps, cfg |-> c] \in [todo : Seq(Steps), cfg : Configs]
  OBVIOUS
<1>2. req' \in [Admins -> [todo : Seq(Steps), cfg : Configs]]
  <2>1. req' = [req EXCEPT ![a] = [todo |-> steps, cfg |-> c]]
    BY DEF Begin
  <2> QED
    BY <1>1, <2>1, Zenon DEF TypeOK
<1>3. requests' \in Nat
  BY DEF Begin, TypeOK
<1> QED
  BY <1>2, <1>3 DEF Begin, TypeOK, disk, memory

(* What the steps of a request that take no lock do to the types. *)
LEMMA StepType ==
  ASSUME TypeOK, NEW a \in Admins,
         SetStore(a) \/ SaveStore(a) \/ Get(a) \/ Pools(a) \/ Accept(a) \/ Refuse(a)
  PROVE  TypeOK'
<1>0. req[a] \in [todo : Seq(Steps), cfg : Configs]
  BY DEF TypeOK
<1>1. CASE SetStore(a)
  BY <1>0, <1>1, ReqType DEF SetStore, At, Others, TypeOK, disk
<1>2. CASE SaveStore(a)
  BY <1>0, <1>2, ReqType DEF SaveStore, At, Others, TypeOK, memory
<1>3. CASE Get(a)
  <2>1. [todo |-> Tail(req[a].todo), cfg |-> center] \in [todo : Seq(Steps), cfg : Configs]
    BY <1>0, <1>3 DEF Get, At, TypeOK
  <2>2. req' \in [Admins -> [todo : Seq(Steps), cfg : Configs]]
    BY <1>3, <2>1 DEF Get, TypeOK
  <2> QED
    BY <1>3, <2>2 DEF Get, Others, TypeOK, disk, memory
<1>4. CASE Pools(a)
  BY <1>0, <1>4, ReqType DEF Pools, At, Others, TypeOK, disk
<1>5. CASE Accept(a)
  <2>1. [stage |-> "file", by |-> a, cfg |-> req[a].cfg]
          \in [stage : {"free", "file", "index", "main", "reload"},
               by : Admins \cup {None}, cfg : Configs]
    BY <1>0
  <2> QED
    BY <1>5, <2>1 DEF Accept, Others, TypeOK, disk, memory
<1>6. CASE Refuse(a)
  <2>1. req' \in [Admins -> [todo : Seq(Steps), cfg : Configs]]
    BY <1>6, ReqType DEF Refuse, Fail, At
  <2> QED
    BY <1>6, <2>1 DEF Refuse, Others, TypeOK, disk, memory
<1> QED
  BY <1>1, <1>2, <1>3, <1>4, <1>5, <1>6

(* What SaveYAML does under the mutex, by a request that waits for it. *)
Waiting == save.stage # "free" => /\ save.by \in Admins
                                  /\ At(save.by, "Save") \/ At(save.by, "Try")

LEMMA SaveType ==
  ASSUME TypeOK, Waiting, WriteRevision \/ RevisionFails \/ WriteIndex \/ WriteMain \/ Reload
  PROVE  TypeOK'
<1> DEFINE SaveSet == [stage : {"free", "file", "index", "main", "reload"},
                       by : Admins \cup {None}, cfg : Configs]
<1>0. save \in SaveSet /\ Free \in SaveSet
  BY NothingType DEF TypeOK, Free
<1>1. CASE WriteRevision
  <2>1. save' \in SaveSet
    BY <1>0, <1>1 DEF WriteRevision
  <2>2. files' \subseteq [v : Nat, cfg : Configs \cup {Empty}]
    BY <1>0, <1>1, WriteType DEF WriteRevision, NextVersion, TypeOK
  <2> QED
    BY <1>1, <2>1, <2>2 DEF WriteRevision, NextVersion, TypeOK
<1>2. CASE RevisionFails
  <2>1. files' \subseteq [v : Nat, cfg : Configs \cup {Empty}]
    BY <1>2, WriteType DEF RevisionFails, NextVersion, TypeOK
  <2>2. req' \in [Admins -> [todo : Seq(Steps), cfg : Configs]]
    BY <1>2, ReqType DEF RevisionFails, Fail, At
  <2> QED
    BY <1>0, <1>2, <2>1, <2>2 DEF RevisionFails, TypeOK, memory
<1>3. CASE WriteIndex
  <2>1. save' \in SaveSet
    BY <1>0, <1>3 DEF WriteIndex
  <2> QED
    BY <1>3, <2>1 DEF WriteIndex, Others, TypeOK, memory
<1>4. CASE WriteMain
  <2>1. save' \in SaveSet
    BY <1>0, <1>4 DEF WriteMain
  <2>2. main' \in Configs \cup {Empty}
    BY <1>0, <1>4 DEF WriteMain, TypeOK
  <2> QED
    BY <1>4, <2>1, <2>2 DEF WriteMain, Others, TypeOK, memory
<1>5. CASE Reload
  <2>1. req' \in [Admins -> [todo : Seq(Steps), cfg : Configs]]
    BY <1>5, ReqType DEF Reload, Waiting, At
  <2>2. save.cfg \in Configs
    BY <1>0
  <2> QED
    BY <1>0, <1>5, <2>1, <2>2 DEF Reload, TypeOK, disk
<1> QED
  BY <1>1, <1>2, <1>3, <1>4, <1>5

LEMMA CrashType ==
  ASSUME TypeOK, Crash
  PROVE  TypeOK'
<1>1. CutOffRevision \subseteq SUBSET [v : Nat, cfg : Configs \cup {Empty}]
  <2>1. NextVersion \in Nat
    BY DEF NextVersion, TypeOK
  <2>2. Write(NextVersion, Empty) \subseteq [v : Nat, cfg : Configs \cup {Empty}]
    BY <2>1, WriteType
  <2> QED
    BY <2>2 DEF CutOffRevision, TypeOK
<1>2. files' \subseteq [v : Nat, cfg : Configs \cup {Empty}]
  BY <1>1 DEF Crash
<1>3. /\ main' \in Configs \cup {Empty} /\ store' \in Configs \cup {Empty}
      /\ index' \in (SUBSET Nat) \cup {Empty}
  BY DEF Crash, CutOff, TypeOK
<1>4. /\ save' \in [stage : {"free", "file", "index", "main", "reload"},
                    by : Admins \cup {None}, cfg : Configs]
      /\ req' \in [Admins -> [todo : Seq(Steps), cfg : Configs]]
  BY NothingType, IdleType DEF Crash, Free
<1>5. attempted' \in Configs
  BY DEF Crash, TypeOK
<1>6. up' \in BOOLEAN /\ writable' \in BOOLEAN /\ reloaded' \in BOOLEAN
  BY DEF Crash, TypeOK
<1>7. version' \in Nat /\ requests' \in Nat /\ crashes' \in Nat
  BY DEF Crash, TypeOK
<1> QED
  BY <1>2, <1>3, <1>4, <1>5, <1>6, <1>7, NothingType DEF Crash, TypeOK

LEMMA RestartType ==
  ASSUME TypeOK, Restart
  PROVE  TypeOK'
<1>1. main \in Configs /\ Read(store, Nothing) \in Configs /\ Read(index, {}) \subseteq Nat
  BY NothingType DEF Restart, Loadable, Read, TypeOK
<1>2. Merged(main, Read(store, Nothing)) \in Configs
  BY <1>1 DEF Merged, Configs
<1> QED
  BY <1>1, <1>2 DEF Restart, TypeOK, disk

(* A request that begins is not the one that holds the mutex. *)
LEMMA BeginNext ==
  ASSUME TypeOK, NEW a \in Admins,
         \/ \E d \in Domains : \E s \in Settings \cup {Blank, None} :
              Edit(a, d, s) \/ SetMode(a, d, s)
         \/ SetRules(a)
         \/ \E c \in Configs : PostRaw(a, c)
         \/ \E f \in files : Rollback(a, f)
  PROVE  \E steps \in Seq(Steps) : \E c \in Configs : Begin(a, steps, c)
<1>1. ASSUME NEW d \in Domains, NEW s \in Settings \cup {Blank, None}
      PROVE  [center EXCEPT ![d] = s] \in Configs
  BY <1>1 DEF Configs, TypeOK
<1>2. center \in Configs /\ \A f \in files : f.cfg # Empty => f.cfg \in Configs
  BY DEF TypeOK
<1>3. CASE \E d \in Domains : \E s \in Settings \cup {Blank, None} : Edit(a, d, s)
  BY <1>1, <1>3, StepsType DEF Edit
<1>4. CASE \E d \in Domains : \E s \in Settings \cup {Blank, None} : SetMode(a, d, s)
  BY <1>1, <1>4, StepsType DEF SetMode
<1>5. CASE SetRules(a)
  BY <1>2, <1>5, StepsType DEF SetRules
<1>6. CASE \E c \in Configs : PostRaw(a, c)
  BY <1>6, StepsType DEF PostRaw
<1>7. CASE \E f \in files : Rollback(a, f)
  BY <1>2, <1>7, StepsType DEF Rollback
<1> QED
  BY <1>3, <1>4, <1>5, <1>6, <1>7

(* The steps of the system, with everything that begins a request as one. *)
LEMMA NextCases ==
  ASSUME TypeOK, [Next]_vars
  PROVE  \/ \E a \in Admins :
              \/ \E steps \in Seq(Steps) : \E c \in Configs : Begin(a, steps, c)
              \/ SetStore(a) \/ SaveStore(a) \/ Get(a) \/ Pools(a) \/ Accept(a) \/ Refuse(a)
         \/ WriteRevision \/ RevisionFails \/ WriteIndex \/ WriteMain \/ Reload
         \/ Crash \/ Restart \/ UNCHANGED vars
BY BeginNext DEF Next

LEMMA TypeNext == TypeOK /\ Waiting /\ [Next]_vars => TypeOK'
<1> SUFFICES ASSUME TypeOK, Waiting, [Next]_vars PROVE TypeOK'
  OBVIOUS
<1>1. CASE UNCHANGED vars
  BY <1>1 DEF vars, disk, memory, TypeOK
<1> QED
  BY <1>1, NextCases, BeginType, StepType, SaveType, CrashType, RestartType
(* The request that holds the mutex stays where it is while others move. *)
LEMMA Waits ==
  ASSUME TypeOK, Waiting, save.stage # "free",
         NEW a \in Admins, ~At(a, "Save"), ~At(a, "Try"), NEW r,
         req' = [req EXCEPT ![a] = r], up' = up, save' = save
  PROVE  Waiting'
<1>1. save.by \in Admins /\ save.by # a /\ (At(save.by, "Save") \/ At(save.by, "Try"))
  BY DEF Waiting
<1>2. req'[save.by] = req[save.by]
  BY <1>1 DEF TypeOK
<1> QED
  BY <1>1, <1>2 DEF Waiting, At

LEMMA WaitingInit == Init => Waiting
BY DEF Init, Waiting, Free

LEMMA WaitingNext == TypeOK /\ Waiting /\ [Next]_vars => Waiting'
<1> SUFFICES ASSUME TypeOK, Waiting, [Next]_vars PROVE Waiting'
  OBVIOUS
<1>1. ASSUME save'.stage = "free" PROVE Waiting'
  BY <1>1 DEF Waiting
<1>2. ASSUME NEW a \in Admins, NEW steps \in Seq(Steps), NEW c \in Configs, Begin(a, steps, c)
      PROVE  Waiting'
  <2>1. req[a] = Idle /\ up' = up /\ save' = save
        /\ req' = [req EXCEPT ![a] = [todo |-> steps, cfg |-> c]]
    BY <1>2 DEF Begin
  <2>2. ~At(a, "Save") /\ ~At(a, "Try")
    BY <2>1 DEF At, Idle
  <2> QED
    BY <1>1, <2>1, <2>2, Waits
<1>3. ASSUME NEW a \in Admins, SetStore(a) \/ SaveStore(a) \/ Get(a) \/ Pools(a)
      PROVE  Waiting'
  <2>1. ~At(a, "Save") /\ ~At(a, "Try")
    BY <1>3 DEF SetStore, SaveStore, Get, Pools, At
  <2>2. up' = up /\ save' = save
    BY <1>3 DEF SetStore, SaveStore, Get, Pools, Others
  <2>3. PICK r : req' = [req EXCEPT ![a] = r]
    BY <1>3 DEF SetStore, SaveStore, Get, Pools, Continue
  <2> QED
    BY <1>1, <2>1, <2>2, <2>3, Waits
<1>4. ASSUME NEW a \in Admins, Accept(a) PROVE Waiting'
  BY <1>4 DEF Accept, Others, Waiting, At
<1>5. ASSUME NEW a \in Admins, Refuse(a) PROVE Waiting'
  BY <1>1, <1>5 DEF Refuse, Unlocked
<1>6. CASE WriteRevision \/ WriteIndex \/ WriteMain
  <2>1. save.stage # "free" /\ req' = req /\ up' = up /\ save'.by = save.by
    BY <1>6 DEF WriteRevision, WriteIndex, WriteMain, Others, TypeOK
  <2> QED
    BY <2>1 DEF Waiting, At
<1>7. CASE RevisionFails \/ Reload \/ Crash
  <2>1. save' = Free
    BY <1>7, Zenon DEF RevisionFails, Reload, Crash
  <2> QED
    BY <1>1, <2>1 DEF Free
<1>8. CASE Restart
  <2>1. save.stage = "free" /\ save' = save
    BY <1>8 DEF Restart, Waiting, At
  <2> QED
    BY <1>1, <2>1
<1>9. CASE UNCHANGED vars
  BY <1>9 DEF vars, Waiting, At
<1> QED
  BY <1>2, <1>3, <1>4, <1>5, <1>6, <1>7, <1>8, <1>9, NextCases

(* Every variable keeps its type; the mutex is held by a request that is     *)
(* saving.                                                                   *)
THEOREM TypeCorrect == Spec => [](TypeOK /\ Waiting)
<1>1. Init => TypeOK /\ Waiting
  BY TypeInit, WaitingInit
<1>2. TypeOK /\ Waiting /\ [Next]_vars => (TypeOK /\ Waiting)'
  BY TypeNext, WaitingNext
<1> QED
  BY <1>1, <1>2, PTL DEF Spec
-----------------------------------------------------------------------------
(* A revision written under a new version leaves the others as they are. *)
LEMMA WriteKeeps ==
  ASSUME TypeOK, FilesOld, NEW c
  PROVE  /\ files \subseteq Write(version, c)
         /\ \A f \in Write(version, c) : f \in files \/ f = [v |-> version, cfg |-> c]
BY DEF FilesOld, Write, TypeOK

(* What a step does to the files of the history: it adds at most one, under  *)
(* a version no other has.                                                   *)
LEMMA HistoryStep ==
  ASSUME TypeOK, FilesOld, [Next]_vars
  PROVE  /\ files \subseteq files'
         /\ \A f \in files' \ files : f.v = version /\ version' = version + 1
         /\ version' = version \/ version' = version + 1
<1>1. ASSUME NEW a \in Admins, NEW steps \in Seq(Steps), NEW c \in Configs, Begin(a, steps, c)
      PROVE  files' = files /\ version' = version
  BY <1>1, Zenon DEF Begin, disk
<1>2. ASSUME NEW a \in Admins,
             SetStore(a) \/ SaveStore(a) \/ Get(a) \/ Pools(a) \/ Accept(a) \/ Refuse(a)
      PROVE  files' = files /\ version' = version
  BY <1>2, Zenon DEF SetStore, SaveStore, Get, Pools, Accept, Refuse, Others, disk
<1>3. CASE WriteIndex \/ WriteMain \/ Reload \/ Restart
  <2>1. files' = files /\ version' = version
    BY <1>3, Zenon DEF WriteIndex, WriteMain, Reload, Restart, Others, disk
  <2> QED
    BY <2>1
<1>4. ASSUME WriteRevision \/ RevisionFails \/ Crash
      PROVE  /\ files' = files \/ \E c : files' = Write(version, c)
             /\ version' = version + 1
  BY <1>4 DEF WriteRevision, RevisionFails, Crash, CutOffRevision, NextVersion
<1>5. CASE WriteRevision \/ RevisionFails \/ Crash
  BY <1>4, <1>5, WriteKeeps
<1>6. CASE UNCHANGED vars
  <2>1. files' = files /\ version' = version
    BY <1>6, Zenon DEF vars, disk
  <2> QED
    BY <2>1
<1> QED
  BY <1>1, <1>2, <1>3, <1>5, <1>6, NextCases

(* The versions a step adds to a list have a whole file. *)
LEMMA ListStep ==
  ASSUME TypeOK, FilesOld, ListedRestorable, [Next]_vars
  PROVE  \A v \in revisions' \cup Read(index', {}) :
            v \in revisions \cup Read(index, {}) \/ Restorable(v)'
<1>1. ASSUME NEW a \in Admins, NEW steps \in Seq(Steps), NEW c \in Configs, Begin(a, steps, c)
      PROVE  revisions' = revisions /\ index' = index
  BY <1>1, Zenon DEF Begin, disk, memory
<1>2. ASSUME NEW a \in Admins,
             SetStore(a) \/ SaveStore(a) \/ Get(a) \/ Pools(a) \/ Accept(a) \/ Refuse(a)
      PROVE  revisions' = revisions /\ index' = index
  BY <1>2, Zenon DEF SetStore, SaveStore, Get, Pools, Accept, Refuse, Others, disk, memory
<1>3. CASE WriteMain \/ Reload \/ RevisionFails \/ UNCHANGED vars
  <2>1. revisions' = revisions /\ index' = index
    BY <1>3, Zenon DEF WriteMain, Reload, RevisionFails, vars, disk, memory
  <2> QED
    BY <2>1
<1>4. CASE WriteIndex
  <2>1. revisions' = revisions /\ index' = revisions
    BY <1>4, Zenon DEF WriteIndex, memory
  <2> QED
    BY <2>1 DEF Read
<1>5. CASE WriteRevision
  <2>1. index' = index /\ revisions' = revisions \cup {version}
    BY <1>5, Zenon DEF WriteRevision, NextVersion
  <2>2. [v |-> version, cfg |-> save.cfg] \in files' /\ save.cfg \in Configs
    BY <1>5 DEF WriteRevision, NextVersion, Write, TypeOK
  <2>3. save.cfg # Empty
    BY <2>2, ConfigAssumption DEF Configs
  <2>4. ASSUME NEW v, v = version PROVE Restorable(v)'
    BY <2>2, <2>3, <2>4 DEF Restorable
  <2> QED
    BY <2>1, <2>4
<1>6. CASE Crash
  <2>1. revisions' = {} /\ index' \in {index, Empty}
    BY <1>6 DEF Crash, CutOff
  <2> QED
    BY <2>1 DEF Read
<1>7. CASE Restart
  <2>1. revisions' = Read(index, {}) /\ index' = index
    BY <1>7, Zenon DEF Restart, disk
  <2> QED
    BY <2>1
<1> QED
  BY <1>1, <1>2, <1>3, <1>4, <1>5, <1>6, <1>7, NextCases

LEMMA HistoryNext ==
  TypeOK /\ FilesOld /\ ListedRestorable /\ [Next]_vars => FilesOld' /\ ListedRestorable'
<1> SUFFICES ASSUME TypeOK, FilesOld, ListedRestorable, [Next]_vars
             PROVE  FilesOld' /\ ListedRestorable'
  OBVIOUS
<1>1. FilesOld'
  BY HistoryStep DEF FilesOld, TypeOK
<1>2. \A v : Restorable(v) => Restorable(v)'
  BY HistoryStep DEF Restorable
<1>3. ListedRestorable'
  BY <1>2, ListStep DEF ListedRestorable
<1> QED
  BY <1>1, <1>3

LEMMA HistoryInit == Init => FilesOld /\ ListedRestorable
BY DEF Init, FilesOld, ListedRestorable, Read

(* Whatever crashes, fails or is read back, every listed revision can be     *)
(* restored.                                                                 *)
THEOREM ListsAreWhole == Spec => []ListedRestorable
<1>1. Init => TypeOK /\ FilesOld /\ ListedRestorable
  BY TypeInit, HistoryInit
<1>2. /\ TypeOK /\ Waiting /\ FilesOld /\ ListedRestorable
      /\ [Next]_vars
      => FilesOld' /\ ListedRestorable'
  BY HistoryNext
<1> QED
  BY <1>1, <1>2, TypeCorrect, PTL DEF Spec

(* No revision written in full is ever lost or changed. *)
THEOREM HistoryKept == Spec => RevisionsKept
<1>1. Init => FilesOld /\ ListedRestorable
  BY HistoryInit
<1>2. TypeOK /\ FilesOld /\ ListedRestorable /\ [Next]_vars => FilesOld' /\ ListedRestorable'
  BY HistoryNext
<1>3. TypeOK /\ FilesOld /\ [Next]_vars => [\A f \in files : f.cfg # Empty => f \in files']_vars
  BY HistoryStep
<1> QED
  BY <1>1, <1>2, <1>3, TypeCorrect, PTL DEF Spec, RevisionsKept-----------------------------------------------------------------------------
LEMMA MainInit == Init => MainInv
BY DEF Init, MainInv, Free

(* MainInv is about these variables only, and about the last stage of a save. *)
MainSame == UNCHANGED <<up, center, saved, reloaded, shield, writable, main, attempted>>

LEMMA MainStays ==
  ASSUME MainInv, MainSame, save' = save
  PROVE  MainInv'
BY DEF MainInv, MainSame

LEMMA MainMoves ==
  ASSUME MainInv, MainSame, up, save.stage # "reload", save'.stage # "reload"
  PROVE  MainInv'
BY DEF MainInv, MainSame

LEMMA MainNext == TypeOK /\ Waiting /\ MainInv /\ [Next]_vars => MainInv'
<1> SUFFICES ASSUME TypeOK, Waiting, MainInv, [Next]_vars PROVE MainInv'
  OBVIOUS
<1>1. ASSUME NEW a \in Admins, NEW steps \in Seq(Steps), NEW c \in Configs, Begin(a, steps, c)
      PROVE  MainInv'
  <2>1. MainSame /\ save' = save
    BY <1>1, Zenon DEF Begin, disk, memory, MainSame
  <2> QED
    BY <2>1, MainStays
<1>2. ASSUME NEW a \in Admins, SetStore(a) \/ SaveStore(a) \/ Get(a) \/ Pools(a) \/ Refuse(a)
      PROVE  MainInv'
  <2>1. MainSame /\ save' = save
    BY <1>2, Zenon DEF SetStore, SaveStore, Get, Pools, Refuse, Others, disk, memory, MainSame
  <2> QED
    BY <2>1, MainStays
<1>3. ASSUME NEW a \in Admins, Accept(a) PROVE MainInv'
  <2>1. MainSame /\ up
    BY <1>3, Zenon DEF Accept, At, Others, disk, memory, MainSame
  <2>2. save.stage # "reload" /\ save'.stage # "reload"
    BY <1>3 DEF Accept, Unlocked
  <2> QED
    BY <2>1, <2>2, MainMoves
<1>4. CASE WriteRevision \/ RevisionFails \/ WriteIndex
  <2>1. MainSame
    BY <1>4, Zenon DEF WriteRevision, RevisionFails, WriteIndex, Others, memory, MainSame
  <2>2. save.stage \in {"file", "index"} /\ save'.stage \in {"free", "index", "main"}
    <3>1. CASE WriteRevision \/ WriteIndex
      BY <3>1 DEF WriteRevision, WriteIndex, TypeOK
    <3>2. CASE RevisionFails
      <4>1. save.stage = "file" /\ save' = Free
        BY <3>2, Zenon DEF RevisionFails
      <4> QED
        BY <4>1 DEF Free
    <3> QED
      BY <1>4, <3>1, <3>2
  <2>3. up
    BY <2>2 DEF Waiting, At
  <2> QED
    BY <2>1, <2>2, <2>3, MainMoves
<1>5. CASE WriteMain
  <2>1. up /\ up' = up /\ UNCHANGED <<center, saved, reloaded, shield, writable>>
    <3>1. up
      BY <1>5 DEF WriteMain, Waiting, At
    <3>2. up' = up /\ UNCHANGED <<center, saved, reloaded, shield, writable>>
      BY <1>5, Zenon DEF WriteMain, Others, memory
    <3> QED
      BY <3>1, <3>2
  <2>2. save'.stage = "reload" /\ save'.cfg = save.cfg /\ (writable => main' = save.cfg)
    BY <1>5 DEF WriteMain, TypeOK
  <2> QED
    BY <2>1, <2>2 DEF MainInv
<1>6. CASE Reload
  <2>1. up /\ save.stage = "reload"
    BY <1>6 DEF Reload, Waiting, At
  <2>2. /\ center' = save.cfg /\ shield' = save.cfg /\ saved' = save.cfg
        /\ main' = main /\ writable' = writable /\ up' = up /\ save' = Free
    BY <1>6, Zenon DEF Reload, disk
  <2> QED
    BY <2>1, <2>2 DEF MainInv, Free
<1>7. CASE Crash
  <2>1. /\ up /\ ~up' /\ save' = Free /\ writable' = writable /\ saved' = saved
        /\ attempted' = IF save.stage = "free" THEN saved ELSE save.cfg
    BY <1>7, Zenon DEF Crash
  <2>2. main' \in {main, Empty}
    BY <1>7 DEF Crash, CutOff
  <2>3. writable => main \in {saved, attempted'}
    BY <2>1 DEF MainInv
  <2> QED
    BY <2>1, <2>2, <2>3 DEF MainInv
<1>8. CASE Restart
  <2>1. save = Free /\ save' = save
    BY <1>8, Zenon DEF Restart, MainInv
  <2>2. center' = main /\ saved' = main /\ main' = main /\ up' /\ ~reloaded'
    BY <1>8, Zenon DEF Restart, disk
  <2> QED
    BY <2>1, <2>2 DEF MainInv, Free
<1>9. CASE UNCHANGED vars
  <2>1. MainSame /\ save' = save
    BY <1>9, Zenon DEF vars, disk, memory, MainSame
  <2> QED
    BY <2>1, MainStays
<1> QED
  BY <1>1, <1>2, <1>3, <1>4, <1>5, <1>6, <1>7, <1>8, <1>9, NextCases

LEMMA MainAlways == Spec => []MainInv
<1>1. TypeOK /\ Waiting /\ MainInv /\ [Next]_vars => MainInv'
  BY MainNext
<1> QED
  BY <1>1, MainInit, TypeCorrect, PTL DEF Spec

(* Between saves the shield, the centre and the main file agree, once        *)
(* something has been saved since the start.                                 *)
THEOREM SaveReachesAll == Spec => []SavedEverywhere
<1>1. MainInv => SavedEverywhere
  BY DEF MainInv, SavedEverywhere, Unlocked
<1> QED
  BY <1>1, MainAlways, PTL

(* A start finds the last save or the interrupted one. *)
THEOREM StartFindsSaves == Spec => RestartKeepsSaves
<1>1. ASSUME TypeOK, Waiting, MainInv, [Next]_vars, ~up, up', writable
      PROVE  center' \in {saved, attempted}
  <2>1. ~(\E a \in Admins : \E steps \in Seq(Steps) : \E c \in Configs : Begin(a, steps, c))
    BY <1>1 DEF Begin
  <2>2. \A a \in Admins : ~(SetStore(a) \/ SaveStore(a) \/ Get(a) \/ Pools(a) \/ Accept(a) \/ Refuse(a))
    BY <1>1 DEF SetStore, SaveStore, Get, Pools, Accept, Refuse, Fail, At
  <2>3. ~(WriteRevision \/ RevisionFails \/ WriteIndex \/ WriteMain \/ Reload \/ Crash)
    BY <1>1 DEF WriteRevision, RevisionFails, WriteIndex, WriteMain, Reload, Crash, Waiting, At
  <2>4. ~(UNCHANGED vars)
    BY <1>1, Zenon DEF vars
  <2>5. Restart
    BY <1>1, <2>1, <2>2, <2>3, <2>4, NextCases
  <2> QED
    BY <1>1, <2>5 DEF Restart, Loadable, MainInv
<1>2. TypeOK /\ Waiting /\ MainInv /\ [Next]_vars
      => [~up /\ up' /\ writable => center' \in {saved, attempted}]_vars
  BY <1>1
<1> QED
  BY <1>2, TypeCorrect, MainAlways, PTL DEF Spec, RestartKeepsSaves
-----------------------------------------------------------------------------
(* The audit trail. *)

(* Every set of numbers has a least one. *)
LEMMA LeastOf ==
  ASSUME NEW S, S \subseteq Nat, S # {}
  PROVE  \E m \in S : \A k \in S : m <= k
<1>1. PICK m \in S : \A k \in S : <<k, m>> \notin OpToRel(<, Nat)
  BY NatLessThanWellFounded, WFMin
<1>2. ASSUME NEW k \in S, k < m PROVE FALSE
  <2>1. <<k, m>> \in OpToRel(<, Nat)
    BY <1>2 DEF OpToRel
  <2> QED
    BY <2>1, <1>1
<1>3. \A k \in S : m <= k
  BY <1>2
<1> QED
  BY <1>3

(* Whatever is logged, as many entries are kept as may be.                   *)
LEMMA NewestKept ==
  ASSUME NEW n \in Nat, NEW es \in SUBSET (1..n), Cardinality(es) <= Cap
  PROVE  /\ Newest(es \cup {n + 1}) \subseteq 1..n + 1
         /\ Cardinality(Newest(es \cup {n + 1})) <= Cap
<1> DEFINE new == es \cup {n + 1}
<1>1. IsFiniteSet(es) /\ Cardinality(es) \in Nat
  <2>1. IsFiniteSet(1..n)
    BY FS_Interval
  <2>2. IsFiniteSet(es)
    BY <2>1, FS_Subset
  <2> QED
    BY <2>2, FS_CardinalityType
<1>2. /\ IsFiniteSet(new) /\ Cardinality(new) \in Nat
      /\ Cardinality(new) <= Cardinality(es) + 1
  <2>1. /\ IsFiniteSet(new)
        /\ Cardinality(new) = IF n + 1 \in es THEN Cardinality(es) ELSE Cardinality(es) + 1
    BY <1>1, FS_AddElement
  <2> HIDE DEF new
  <2> QED
    BY <1>1, <2>1
<1>3. new \subseteq 1..n + 1 /\ new \subseteq Nat /\ new # {}
  OBVIOUS
<1> HIDE DEF new
<1>4. Min(new) \in new
  <2>1. \E m \in new : \A k \in new : m <= k
    BY <1>3, LeastOf
  <2> QED
    BY <2>1 DEF Min
<1>5. Cap \in Nat
  BY TrailAssumption
<1>6. CASE Cardinality(new) > Cap
  <2>1. Newest(new) = new \ {Min(new)}
    BY <1>6 DEF Newest
  <2>2. Cardinality(Newest(new)) = Cardinality(new) - 1
    BY <1>2, <1>4, <2>1, FS_RemoveElement
  <2>3. Cardinality(Newest(new)) <= Cap
    BY <1>1, <1>2, <1>5, <2>2
  <2>4. Newest(new) \subseteq 1..n + 1
    BY <1>3, <2>1
  <2> QED
    BY <2>3, <2>4 DEF new
<1>7. CASE ~(Cardinality(new) > Cap)
  <2>1. Newest(new) = new
    BY <1>7 DEF Newest
  <2>2. Newest(new) \subseteq 1..n + 1 /\ Cardinality(Newest(new)) <= Cap
    BY <1>2, <1>3, <1>5, <1>7, <2>1
  <2> QED
    BY <2>2 DEF new
<1> QED
  BY <1>6, <1>7

LEMMA TrailTypeInit == TrailInit => TrailTypeOK
<1> SUFFICES ASSUME TrailInit PROVE TrailTypeOK
  OBVIOUS
<1>1. {} \in Trails /\ 0 \in 0..Cap /\ 0 \in 0..MaxEntries
  BY FS_EmptySet, TrailAssumption DEF Trails
<1> QED
  BY <1>1 DEF TrailInit, TrailTypeOK, Resting

LEMMA EmptyTrail ==
  ASSUME TrailTypeOK
  PROVE  {} \in Trails /\ Resting \in [stage : {"idle", "start", "open", "write"}, data : Trails]
BY FS_EmptySet, TrailAssumption DEF Trails, Resting

LEMMA LogType == TrailTypeOK /\ LogAction => TrailTypeOK'
<1> SUFFICES ASSUME TrailTypeOK, LogAction PROVE TrailTypeOK'
  OBVIOUS
<1>1. logged \in Nat /\ logged' = logged + 1 /\ logged' \in 0..MaxEntries
  BY TrailAssumption DEF TrailTypeOK, LogAction
<1>2. ASSUME NEW es \in Trails PROVE es \in Trails'
  BY <1>1 DEF Trails
<1>3. entries' \in Trails'
  <2>1. entries \in SUBSET (1..logged) /\ Cardinality(entries) <= Cap
    BY DEF TrailTypeOK, Trails
  <2>2. entries' \subseteq 1..logged' /\ Cardinality(entries') <= Cap
    BY <1>1, <2>1, NewestKept DEF LogAction
  <2> QED
    BY <2>2 DEF Trails
<1>4. saver' \in [Savers -> [stage : {"idle", "start", "open", "write"}, data : Trails']]
  <2>1. PICK s \in Savers : saver' = [saver EXCEPT ![s].stage = "start"]
    BY DEF LogAction
  <2>2. ASSUME NEW u \in Savers
        PROVE  saver'[u] \in [stage : {"idle", "start", "open", "write"}, data : Trails']
    <3>1. saver[u] \in [stage : {"idle", "start", "open", "write"}, data : Trails]
      BY DEF TrailTypeOK
    <3>2. /\ saver'[u].stage \in {"idle", "start", "open", "write"}
          /\ saver'[u].data = saver[u].data
          /\ saver'[u] = [stage |-> saver'[u].stage, data |-> saver'[u].data]
      BY <2>1, <3>1 DEF TrailTypeOK
    <3>3. saver[u].data \in Trails'
      BY <1>2, <3>1
    <3> QED
      BY <3>2, <3>3
  <2>3. saver' = [u \in Savers |-> saver'[u]]
    BY <2>1 DEF TrailTypeOK
  <2> QED
    BY <2>2, <2>3
<1>5. trailFile' \in Trails' \cup {Torn} /\ extent' \in 0..Cap
  BY <1>2 DEF TrailTypeOK, LogAction
<1> QED
  BY <1>1, <1>3, <1>4, <1>5 DEF TrailTypeOK

LEMMA TrailTypeNext ==
  ASSUME TrailTypeOK, SaverNext \/ TrailCrash \/ LoadTrail
  PROVE  TrailTypeOK'
<1> DEFINE Stages == {"idle", "start", "open", "write"}
<1>t. /\ logged \in 0..MaxEntries /\ entries \in Trails /\ trailFile \in Trails \cup {Torn}
      /\ extent \in 0..Cap /\ saver \in [Savers -> [stage : Stages, data : Trails]]
      /\ {} \in Trails /\ Resting \in [stage : Stages, data : Trails]
  BY EmptyTrail DEF TrailTypeOK
<1>u. ASSUME logged' = logged PROVE Trails' = Trails
  BY <1>u DEF Trails
<1>1. ASSUME NEW s \in Savers, TakeEntries(s) PROVE TrailTypeOK'
  BY <1>1, <1>t, <1>u DEF TakeEntries, TrailTypeOK
<1>2. ASSUME NEW s \in Savers, OpenTrail(s) PROVE TrailTypeOK'
  <2>1. [saver[s] EXCEPT !.stage = "write"] \in [stage : Stages, data : Trails]
    BY <1>t
  <2>2. saver' = [saver EXCEPT ![s] = [saver[s] EXCEPT !.stage = "write"]]
    BY <1>2 DEF OpenTrail
  <2>3. 0 \in 0..Cap
    BY TrailAssumption
  <2> HIDE DEF Stages
  <2>4. saver' \in [Savers -> [stage : Stages, data : Trails]]
    BY <1>t, <2>1, <2>2
  <2> QED
    BY <1>2, <1>t, <1>u, <2>3, <2>4 DEF OpenTrail, TrailTypeOK, Stages
<1>3. ASSUME NEW s \in Savers, WriteTrail(s) PROVE TrailTypeOK'
  <2>1. saver[s].data \in Trails
    BY <1>t
  <2>2. Cardinality(saver[s].data) \in 0..Cap
    <3>1. saver[s].data \subseteq 1..logged /\ Cardinality(saver[s].data) <= Cap
      BY <2>1 DEF Trails
    <3>2. IsFiniteSet(saver[s].data)
      BY <1>t, <3>1, FS_Interval, FS_Subset
    <3> QED
      BY <3>1, <3>2, FS_CardinalityType, TrailAssumption
  <2>3. trailFile' \in Trails \cup {Torn} /\ extent' \in 0..Cap
    BY <1>3, <1>t, <2>1, <2>2 DEF WriteTrail
  <2>4. saver' \in [Savers -> [stage : Stages, data : Trails]] /\ UNCHANGED <<entries, logged>>
    BY <1>3, <1>t DEF WriteTrail
  <2> QED
    BY <1>t, <1>u, <2>3, <2>4 DEF TrailTypeOK
<1>4. CASE TrailCrash
  BY <1>4, <1>t, <1>u DEF TrailCrash, TrailTypeOK
<1>5. CASE LoadTrail
  BY <1>5, <1>t, <1>u DEF LoadTrail, TrailTypeOK
<1> QED
  BY <1>1, <1>2, <1>3, <1>4, <1>5 DEF SaverNext
-----------------------------------------------------------------------------
(* The accounts. *)

(* The loop of DeleteUser: what it copies are accounts of the other names,   *)
(* all of them, and it copies nothing else.                                  *)
LEMMA WithoutCopies ==
  ASSUME NEW us \in Seq(Account), NEW n
  PROVE  LET new == Without(us, n)
         IN  /\ new \in Seq(Account) /\ Len(new) <= Len(us)
             /\ \A k \in DOMAIN new : \E j \in DOMAIN us : us[j] = new[k] /\ us[j].name # n
             /\ \A j \in DOMAIN us : us[j].name # n => \E k \in DOMAIN new : new[k] = us[j]
<1> DEFINE Turn(g, i) == IF i = 0 THEN <<>>
                         ELSE IF us[i].name # n THEN Append(g[i - 1], us[i]) ELSE g[i - 1]
           Copying(g, l) == g = [i \in 0..l |-> Turn(g, i)]
           f == CHOOSE g : Copying(g, Len(us))
           Copied(i, new) ==
             /\ new \in Seq(Account) /\ Len(new) <= i
             /\ \A k \in DOMAIN new : \E j \in 1..i : us[j] = new[k] /\ us[j].name # n
             /\ \A j \in 1..i : us[j].name # n => \E k \in DOMAIN new : new[k] = us[j]
<1>0. Len(us) \in Nat /\ DOMAIN us = 1..Len(us) /\ \A i \in 1..Len(us) : us[i] \in Account
  OBVIOUS
<1>1. Without(us, n) = f[Len(us)]
  BY Zenon DEF Without
<1> DEFINE Bad == {l \in Nat : l <= Len(us) /\ ~\E g : Copying(g, l)}
<1>2. Bad = {}
  <2> SUFFICES ASSUME Bad # {} PROVE FALSE
    OBVIOUS
  <2>1. PICK m \in Bad : \A k \in Bad : m <= k
    <3>1. Bad \subseteq Nat
      OBVIOUS
    <3> HIDE DEF Bad
    <3> QED
      BY <3>1, LeastOf
  <2>2. m # 0
    <3> DEFINE e == [i \in 0..0 |-> <<>>]
    <3>1. e = [i \in 0..0 |-> Turn(e, i)]
      OBVIOUS
    <3> QED
      BY <3>1
  <2>3. PICK g : Copying(g, m - 1)
    <3>1. m \in Nat /\ m - 1 \in Nat /\ m - 1 <= Len(us) /\ ~(m <= m - 1)
      BY <2>2, <1>0
    <3>2. m - 1 \notin Bad
      BY <2>1, <3>1
    <3> QED
      BY <3>1, <3>2
  <2> DEFINE h == [i \in 0..m |-> IF i = m THEN Turn(g, m) ELSE g[i]]
  <2>4. \A i \in 0..m : h[i] = Turn(h, i)
    <3> SUFFICES ASSUME NEW i \in 0..m PROVE h[i] = Turn(h, i)
      OBVIOUS
    <3>1. CASE i = m
      <4>1. h[i - 1] = g[i - 1]
        BY <2>2, <3>1
      <4> QED
        BY <2>2, <3>1, <4>1
    <3>2. CASE i # m
      <4>1. i \in 0..m - 1 /\ h[i] = g[i]
        BY <3>2
      <4>2. g[i] = Turn(g, i)
        BY <2>3, <4>1
      <4>3. i # 0 => h[i - 1] = g[i - 1]
        BY <4>1
      <4> QED
        BY <4>1, <4>2, <4>3
    <3> QED
      BY <3>1, <3>2
  <2>5. Copying(h, m)
    <3>1. h = [i \in 0..m |-> h[i]]
      OBVIOUS
    <3> HIDE DEF h
    <3> QED
      BY <2>4, <3>1
  <2>6. \E x : Copying(x, m)
    <3> HIDE DEF h, Copying
    <3> QED
      BY <2>5
  <2> QED
    BY <2>1, <2>6
<1>3. Copying(f, Len(us))
  <2>1. \E g : Copying(g, Len(us))
    <3>1. Len(us) \in Nat /\ Len(us) <= Len(us)
      BY <1>0
    <3> HIDE DEF Copying
    <3> QED
      BY <1>2, <3>1
  <2> HIDE DEF Copying
  <2> QED
    BY <2>1
<1>4. \A i \in 0..Len(us) : f[i] = Turn(f, i)
  <2> HIDE DEF f
  <2> QED
    BY <1>3
<1> HIDE DEF f
<1> DEFINE Wrong == {i \in 0..Len(us) : ~Copied(i, f[i])}
<1>5. Wrong = {}
  <2> SUFFICES ASSUME Wrong # {} PROVE FALSE
    OBVIOUS
  <2>1. PICK m \in Wrong : \A k \in Wrong : m <= k
    <3>1. Wrong \subseteq Nat
      OBVIOUS
    <3> HIDE DEF Wrong
    <3> QED
      BY <3>1, LeastOf
  <2>2. f[m] = Turn(f, m) /\ m \in 0..Len(us)
    BY <1>4, <2>1
  <2>3. m # 0
    <3>1. Copied(0, <<>>)
      OBVIOUS
    <3>2. m = 0 => f[m] = <<>>
      BY <2>2
    <3> HIDE DEF Copied
    <3> QED
      BY <2>1, <3>1, <3>2
  <2>4. Copied(m - 1, f[m - 1])
    <3>1. m - 1 \in 0..Len(us) /\ ~(m <= m - 1)
      BY <1>0, <2>2, <2>3
    <3>2. m - 1 \notin Wrong
      BY <2>1, <3>1
    <3> HIDE DEF Copied
    <3> QED
      BY <3>1, <3>2
  <2> DEFINE old == f[m - 1]
  <2>5. m \in 1..Len(us) /\ us[m] \in Account
    BY <1>0, <2>2, <2>3
  <2>6. CASE us[m].name # n
    <3>1. f[m] = Append(old, us[m])
      BY <2>2, <2>3, <2>6
    <3>2. old \in Seq(Account) /\ Len(old) <= m - 1 /\ Len(old) \in Nat
      BY <2>4
    <3> HIDE DEF old
    <3>3. /\ f[m] \in Seq(Account) /\ Len(f[m]) = Len(old) + 1
          /\ DOMAIN f[m] = 1..Len(old) + 1 /\ DOMAIN old = 1..Len(old)
          /\ \A k \in 1..Len(old) : f[m][k] = old[k]
          /\ f[m][Len(old) + 1] = us[m]
      BY <2>5, <3>1, <3>2
    <3>4. Len(f[m]) <= m
      BY <2>5, <3>2, <3>3
    <3>5. ASSUME NEW k \in DOMAIN f[m]
          PROVE  \E j \in 1..m : us[j] = f[m][k] /\ us[j].name # n
      <4>1. CASE k = Len(old) + 1
        BY <2>5, <2>6, <3>3, <4>1
      <4>2. CASE k # Len(old) + 1
        <5>1. k \in DOMAIN old /\ f[m][k] = old[k]
          BY <3>2, <3>3, <3>5, <4>2
        <5>2. PICK j \in 1..m - 1 : us[j] = old[k] /\ us[j].name # n
          BY <2>4, <5>1 DEF old
        <5> QED
          BY <2>5, <5>1, <5>2
      <4> QED
        BY <4>1, <4>2
    <3>6. ASSUME NEW j \in 1..m, us[j].name # n
          PROVE  \E k \in DOMAIN f[m] : f[m][k] = us[j]
      <4>1. CASE j = m
        <5>1. Len(old) + 1 \in DOMAIN f[m] /\ f[m][Len(old) + 1] = us[j]
          BY <3>2, <3>3, <4>1
        <5> QED
          BY <5>1
      <4>2. CASE j # m
        <5>1. j \in 1..m - 1
          BY <2>5, <4>2
        <5>2. PICK k \in DOMAIN old : old[k] = us[j]
          BY <2>4, <3>6, <5>1 DEF old
        <5>3. k \in DOMAIN f[m] /\ f[m][k] = us[j]
          BY <3>2, <3>3, <5>2
        <5> QED
          BY <5>3
      <4> QED
        BY <4>1, <4>2
    <3>7. Copied(m, f[m])
      BY <3>3, <3>4, <3>5, <3>6
    <3> QED
      BY <2>1, <3>7
  <2>7. CASE ~(us[m].name # n)
    <3>1. f[m] = old
      BY <2>2, <2>3, <2>7
    <3>2. old \in Seq(Account) /\ Len(old) <= m - 1 /\ Len(old) \in Nat
      BY <2>4
    <3>3. \A k \in DOMAIN old : \E j \in 1..m - 1 : us[j] = old[k] /\ us[j].name # n
      BY <2>4
    <3>4. \A j \in 1..m - 1 : us[j].name # n => \E k \in DOMAIN old : old[k] = us[j]
      BY <2>4
    <3> HIDE DEF old
    <3>5. Len(old) <= m
      BY <2>5, <3>2
    <3>6. \A k \in DOMAIN old : \E j \in 1..m : us[j] = old[k] /\ us[j].name # n
      BY <2>5, <3>3
    <3>7. \A j \in 1..m : us[j].name # n => \E k \in DOMAIN old : old[k] = us[j]
      BY <2>5, <2>7, <3>4
    <3>8. Copied(m, old)
      BY <3>2, <3>5, <3>6, <3>7
    <3> HIDE DEF Copied
    <3> QED
      BY <2>1, <3>1, <3>8
  <2> QED
    BY <2>6, <2>7
<1>6. Copied(Len(us), f[Len(us)])
  BY <1>0, <1>5
<1> HIDE DEF Copied
<1>7. Copied(Len(us), Without(us, n))
  BY <1>1, <1>6
<1> QED
  BY <1>0, <1>7 DEF Copied

(* A process that does not run handles nothing. *)
DeadIdle == ~running => \A h \in Handlers : act[h] = NoAct

HasUser(us, n) == \E i \in DOMAIN us : us[i].name = n /\ us[i].role = "user"

(* What a request does to the accounts: those of other names stay users or   *)
(* what they were.                                                           *)
Changed(new, n) ==
  /\ new \in Seq(Account) /\ Len(new) <= MaxUsers
  /\ \A m \in Names : m # n => (HasUser(new, m) <=> HasUser(users, m))

LEMMA FirstExists ==
  ASSUME users \in Seq(Account), NEW n \in Names, Exists(n)
  PROVE  FirstOf(n) \in DOMAIN users /\ users[FirstOf(n)].name = n
<1>1. Of(users, n) \subseteq Nat /\ Of(users, n) # {}
  BY DEF Of, Exists
<1>2. \E m \in Of(users, n) : \A k \in Of(users, n) : m <= k
  BY <1>1, LeastOf
<1>3. FirstOf(n) \in Of(users, n)
  BY <1>2 DEF FirstOf, Min
<1> QED
  BY <1>3 DEF Of

LEMMA AddChanges ==
  ASSUME AccountsTypeOK, NEW h \in Handlers, NEW n \in Names, NEW role \in Roles,
         NEW audit \in BOOLEAN, Add(h, n, role, audit)
  PROVE  \E new : Change(h, new, n, role, audit) /\ Changed(new, n)
<1> DEFINE u == [name |-> n, role |-> role, session |-> FALSE]
           new == Append(users, u)
<1>1. users \in Seq(Account) /\ Len(users) < MaxUsers /\ Change(h, new, n, role, audit)
  BY DEF AccountsTypeOK, Add
<1>2. u \in Account /\ u.name = n
  BY DEF Account
<1> HIDE DEF u
<1>3. /\ new \in Seq(Account) /\ Len(new) = Len(users) + 1 /\ Len(users) \in Nat
      /\ DOMAIN new = 1..Len(users) + 1 /\ DOMAIN users = 1..Len(users)
      /\ \A i \in 1..Len(users) : new[i] = users[i]
      /\ new[Len(users) + 1] = u
  BY <1>1, <1>2
<1>4. Len(new) <= MaxUsers
  BY <1>1, <1>3, AccountsAssumption
<1> HIDE DEF new
<1>5. \A m \in Names : m # n => (HasUser(new, m) <=> HasUser(users, m))
  <2> SUFFICES ASSUME NEW m \in Names, m # n PROVE HasUser(new, m) <=> HasUser(users, m)
    OBVIOUS
  <2>1. HasUser(users, m) => HasUser(new, m)
    BY <1>3 DEF HasUser
  <2>2. ASSUME HasUser(new, m) PROVE HasUser(users, m)
    <3>1. PICK i \in DOMAIN new : new[i].name = m /\ new[i].role = "user"
      BY <2>2 DEF HasUser
    <3>2. i # Len(users) + 1
      BY <1>2, <1>3, <3>1
    <3>3. i \in DOMAIN users
      BY <1>3, <3>2
    <3> QED
      BY <1>3, <3>1, <3>3 DEF HasUser
  <2> QED
    BY <2>1, <2>2
<1>6. Changed(new, n)
  BY <1>3, <1>4, <1>5 DEF Changed
<1> QED
  BY <1>1, <1>6

LEMMA UpdateChanges ==
  ASSUME AccountsTypeOK, NEW h \in Handlers, NEW n \in Names, NEW role \in Roles,
         UpdateUser(h, n, role)
  PROVE  \E new : Change(h, new, n, role, TRUE) /\ Changed(new, n)
<1> DEFINE i0 == FirstOf(n)
           u == [name |-> n, role |-> role, session |-> users[i0].session]
           new == [users EXCEPT ![i0] = u]
<1>1. users \in Seq(Account) /\ Len(users) <= MaxUsers
  BY DEF AccountsTypeOK
<1>2. i0 \in DOMAIN users /\ users[i0].name = n /\ users[i0] \in Account
  BY <1>1, FirstExists DEF UpdateUser
<1>3. u \in Account /\ u.name = n
  BY <1>2 DEF Account
<1>4. [users[i0] EXCEPT !.role = role] = u
  BY <1>2 DEF Account
<1>5. Change(h, new, n, role, TRUE)
  BY <1>4 DEF UpdateUser
<1> HIDE DEF u, i0
<1>6. /\ new \in Seq(Account) /\ Len(new) = Len(users) /\ DOMAIN new = DOMAIN users
      /\ new[i0] = u /\ \A i \in DOMAIN users : i # i0 => new[i] = users[i]
  BY <1>1, <1>2, <1>3
<1> HIDE DEF new
<1>7. \A m \in Names : m # n => (HasUser(new, m) <=> HasUser(users, m))
  BY <1>2, <1>3, <1>6 DEF HasUser
<1>8. Changed(new, n)
  BY <1>1, <1>6, <1>7 DEF Changed
<1> QED
  BY <1>5, <1>8

LEMMA DeleteChanges ==
  ASSUME AccountsTypeOK, NEW h \in Handlers, NEW n \in Names, DeleteUser(h, n)
  PROVE  \E new : Change(h, new, n, "none", TRUE) /\ Changed(new, n)
<1> DEFINE new == Without(users, n)
<1>1. users \in Seq(Account) /\ Len(users) <= MaxUsers /\ MaxUsers \in Nat
  BY AccountsAssumption DEF AccountsTypeOK
<1>2. Change(h, new, n, "none", TRUE)
  BY DEF DeleteUser
<1>3. /\ new \in Seq(Account) /\ Len(new) <= Len(users)
      /\ \A k \in DOMAIN new : \E j \in DOMAIN users : users[j] = new[k] /\ users[j].name # n
      /\ \A j \in DOMAIN users : users[j].name # n => \E k \in DOMAIN new : new[k] = users[j]
  BY <1>1, WithoutCopies
<1> HIDE DEF new
<1>4. Len(new) <= MaxUsers
  BY <1>1, <1>3
<1>5. ASSUME NEW m \in Names, m # n PROVE HasUser(new, m) <=> HasUser(users, m)
  <2>1. ASSUME HasUser(users, m) PROVE HasUser(new, m)
    <3>1. PICK j \in DOMAIN users : users[j].name = m /\ users[j].role = "user"
      BY <2>1 DEF HasUser
    <3>2. PICK k \in DOMAIN new : new[k] = users[j]
      BY <1>3, <1>5, <3>1
    <3> QED
      BY <3>1, <3>2 DEF HasUser
  <2>2. ASSUME HasUser(new, m) PROVE HasUser(users, m)
    <3>1. PICK k \in DOMAIN new : new[k].name = m /\ new[k].role = "user"
      BY <2>2 DEF HasUser
    <3>2. PICK j \in DOMAIN users : users[j] = new[k]
      BY <1>3, <3>1
    <3> QED
      BY <3>1, <3>2 DEF HasUser
  <2> QED
    BY <2>1, <2>2
<1>6. Changed(new, n)
  BY <1>3, <1>4, <1>5 DEF Changed
<1> QED
  BY <1>2, <1>6

LEMMA LoginChanges ==
  ASSUME AccountsTypeOK, NEW h \in Handlers, NEW n \in Names, handleLogin(h, n)
  PROVE  \E new : Change(h, new, Nobody, "none", FALSE) /\ Changed(new, Nobody)
<1> DEFINE i0 == FirstOf(n)
           new == [users EXCEPT ![i0].session = TRUE]
<1>1. users \in Seq(Account) /\ Len(users) <= MaxUsers
  BY DEF AccountsTypeOK
<1>2. i0 \in DOMAIN users /\ users[i0] \in Account
  BY <1>1, FirstExists DEF handleLogin
<1>3. Change(h, new, Nobody, "none", FALSE)
  BY DEF handleLogin
<1> HIDE DEF i0
<1>4. \A v \in Account : [v EXCEPT !.session = TRUE] \in Account
  BY DEF Account
<1>5. \A v \in Account : LET w == [v EXCEPT !.session = TRUE]
                         IN  w.name = v.name /\ w.role = v.role
  BY DEF Account
<1>6. /\ new \in Seq(Account) /\ Len(new) = Len(users) /\ DOMAIN new = DOMAIN users
      /\ new[i0] = [users[i0] EXCEPT !.session = TRUE]
      /\ \A i \in DOMAIN users : i # i0 => new[i] = users[i]
  BY <1>1, <1>2, <1>4
<1>7. new[i0].name = users[i0].name /\ new[i0].role = users[i0].role
  BY <1>2, <1>5, <1>6
<1> HIDE DEF new
<1>8. ASSUME NEW m \in Names PROVE HasUser(new, m) <=> HasUser(users, m)
  BY <1>2, <1>6, <1>7 DEF HasUser
<1>9. Changed(new, Nobody)
  BY <1>1, <1>6, <1>8 DEF Changed
<1> QED
  BY <1>3, <1>9

(* The requests that change the data, in one. *)
Changing(h) ==
  \E n \in Names \cup {Nobody}, role \in Roles \cup {"none"}, audit \in BOOLEAN :
    \E new : Change(h, new, n, role, audit) /\ Changed(new, n)

LEMMA AccountsCases ==
  ASSUME AccountsTypeOK, [AccountsNext]_accountVars
  PROVE  \/ \E h \in Handlers : Changing(h)
         \/ \E h \in Handlers :
              OpenStorage(h) \/ WriteStorage(h) \/ SaveFails(h) \/ Reply(h)
         \/ Die
         \/ \E admin \in Names : Start(admin)
         \/ SaverNext /\ UNCHANGED <<running, users, dbFile, act, acts, deaths, promised, failed, kept>>
         \/ UNCHANGED accountVars
<1>1. ASSUME NEW h \in Handlers, NEW n \in Names, NEW role \in Roles,
             handleRegister(h, n) \/ CreateUser(h, n, role)
      PROVE  Changing(h)
  <2>1. Add(h, n, "user", FALSE) \/ Add(h, n, role, TRUE)
    BY <1>1 DEF handleRegister, CreateUser
  <2>2. "user" \in Roles /\ TRUE \in BOOLEAN /\ FALSE \in BOOLEAN
    BY DEF Roles
  <2> QED
    BY <2>1, <2>2, AddChanges DEF Changing
<1>2. ASSUME NEW h \in Handlers, NEW n \in Names, NEW role \in Roles, UpdateUser(h, n, role)
      PROVE  Changing(h)
  BY <1>2, UpdateChanges DEF Changing
<1>3. ASSUME NEW h \in Handlers, NEW n \in Names, DeleteUser(h, n) PROVE Changing(h)
  BY <1>3, DeleteChanges DEF Changing
<1>4. ASSUME NEW h \in Handlers, NEW n \in Names, handleLogin(h, n) PROVE Changing(h)
  BY <1>4, LoginChanges DEF Changing
<1>5. ASSUME NEW h \in Handlers, SaveOther(h) PROVE Changing(h)
  <2>1. Changed(users, Nobody)
    BY DEF Changed, AccountsTypeOK
  <2> QED
    BY <1>5, <2>1 DEF SaveOther, Changing
<1>6. "user" \in Roles
  BY DEF Roles
<1> QED
  BY <1>1, <1>2, <1>3, <1>4, <1>5, <1>6 DEF AccountsNext

LEMMA FirstType ==
  ASSUME NEW admin \in Names
  PROVE  /\ First(admin) \in Seq(Account) /\ Len(First(admin)) = 1
         /\ \A n : ~HasUser(First(admin), n)
<1>1. [name |-> admin, role |-> "super_admin", session |-> FALSE] \in Account
  BY DEF Account, Roles
<1>2. First(admin) \in Seq(Account) /\ Len(First(admin)) = 1
  BY <1>1 DEF First
<1>3. \A i \in DOMAIN First(admin) : First(admin)[i].role = "super_admin"
  BY DEF First
<1> QED
  BY <1>2, <1>3 DEF HasUser

(* The start changes names, and no user's.                                   *)
LEMMA SyncedKeeps ==
  ASSUME NEW us \in Seq(Account), NEW admin \in Names
  PROVE  /\ Synced(us, admin) \in Seq(Account) /\ Len(Synced(us, admin)) = Len(us)
         /\ \A n \in Names : HasUser(Synced(us, admin), n) <=> HasUser(us, n)
<1> DEFINE new == Synced(us, admin)
<1>1. \A v \in Account : [v EXCEPT !.name = admin] \in Account
  BY DEF Account
<1>2. \A v \in Account : LET w == [v EXCEPT !.name = admin]
                         IN  w.name = admin /\ w.role = v.role
  BY DEF Account
<1>3. /\ DOMAIN new = DOMAIN us /\ DOMAIN us = 1..Len(us) /\ Len(us) \in Nat
      /\ \A i \in DOMAIN us :
           /\ us[i] \in Account
           /\ new[i] = IF us[i].name = admin \/ us[i].role = "super_admin"
                       THEN [us[i] EXCEPT !.name = admin] ELSE us[i]
  BY DEF Synced
<1>4. new = [i \in 1..Len(us) |-> new[i]]
  BY DEF Synced
<1> HIDE DEF new
<1>5. \A i \in DOMAIN us :
        /\ new[i] \in Account /\ new[i].role = us[i].role
        /\ new[i].role = "user" => new[i].name = us[i].name
  <2> SUFFICES ASSUME NEW i \in DOMAIN us
               PROVE  /\ new[i] \in Account /\ new[i].role = us[i].role
                      /\ new[i].role = "user" => new[i].name = us[i].name
    OBVIOUS
  <2>1. CASE us[i].name = admin \/ us[i].role = "super_admin"
    <3>1. us[i] \in Account /\ new[i] = [us[i] EXCEPT !.name = admin]
      BY <1>3, <2>1
    <3>2. new[i] \in Account /\ new[i].name = admin /\ new[i].role = us[i].role
      BY <1>1, <1>2, <3>1
    <3> QED
      BY <2>1, <3>2
  <2>2. CASE ~(us[i].name = admin \/ us[i].role = "super_admin")
    BY <1>3, <2>2
  <2> QED
    BY <2>1, <2>2
<1>6. new \in Seq(Account) /\ Len(new) = Len(us)
  BY <1>3, <1>4, <1>5
<1>7. \A n \in Names : HasUser(new, n) <=> HasUser(us, n)
  BY <1>3, <1>5 DEF HasUser
<1> QED
  BY <1>6, <1>7 DEF new

LEMMA NoActType == NoAct \in Acts /\ NoAct.step = "idle" /\ NoAct.name = Nobody
<1>1. <<>> \in Seq(Account)
  OBVIOUS
<1> QED
  BY <1>1 DEF NoAct, Acts

LEMMA AccountsTypeInit == AccountsInit => AccountsTypeOK /\ DeadIdle
<1> SUFFICES ASSUME AccountsInit PROVE AccountsTypeOK /\ DeadIdle
  OBVIOUS
<1>1. TrailTypeOK
  BY TrailTypeInit DEF AccountsInit
<1>2. users \in Seq(Account) /\ Len(users) <= MaxUsers
  <2>1. users \in Seq(Account) /\ Len(users) = 1 /\ MaxUsers >= 1
    BY FirstType, AccountsAssumption DEF AccountsInit
  <2> QED
    BY <2>1, AccountsAssumption
<1>3. act \in [Handlers -> Acts] /\ \A h \in Handlers : act[h].step # "write"
  BY NoActType DEF AccountsInit
<1>4. acts \in 0..MaxActs /\ deaths \in 0..MaxDeaths
  BY AccountsAssumption DEF AccountsInit
<1>5. promised \in [Names -> Roles \cup {"none"}]
  BY DEF AccountsInit
<1> QED
  BY <1>1, <1>2, <1>3, <1>4, <1>5 DEF AccountsInit, AccountsTypeOK, DeadIdle

(* What a step of a handler makes of what it does. *)
LEMMA ActChanges ==
  ASSUME AccountsTypeOK, NEW h \in Handlers
  PROVE  /\ OpenStorage(h) => /\ act' \in [Handlers -> Acts]
                              /\ act'[h].step = "write" /\ act'[h].name = act[h].name
                              /\ act'[h].text = users
         /\ WriteStorage(h) \/ SaveFails(h) =>
              act' \in [Handlers -> Acts] /\ act'[h].step = "answer" /\ act'[h].name = act[h].name
         /\ Reply(h) => act' \in [Handlers -> Acts] /\ act'[h] = NoAct
         /\ OpenStorage(h) \/ WriteStorage(h) \/ SaveFails(h) \/ Reply(h) =>
              \A g \in Handlers \ {h} : act'[g] = act[g]
<1>1. act \in [Handlers -> Acts] /\ act[h] \in Acts /\ users \in Seq(Account)
  BY DEF AccountsTypeOK
<1>2. ASSUME NEW v \in Acts, NEW s \in {"write", "answer"}
      PROVE  [v EXCEPT !.step = s] \in Acts
  BY DEF Acts
<1>3. ASSUME NEW v \in Acts, NEW s \in {"write", "answer"}
      PROVE  LET w == [v EXCEPT !.step = s] IN w.step = s /\ w.name = v.name
  BY DEF Acts
<1>4. ASSUME NEW v \in Acts, NEW t \in Seq(Account)
      PROVE  [v EXCEPT !.text = t] \in Acts
  BY DEF Acts
<1>5. ASSUME NEW v \in Acts, NEW t \in Seq(Account)
      PROVE  LET w == [v EXCEPT !.text = t]
             IN  w.step = v.step /\ w.name = v.name /\ w.text = t
  BY DEF Acts
<1> DEFINE Step(s) == [act[h] EXCEPT !.step = s]
           Text(s, t) == [Step(s) EXCEPT !.text = t]
<1>6. OpenStorage(h) => act' = [act EXCEPT ![h] = Text("write", users)]
  BY <1>1 DEF OpenStorage
<1>7. WriteStorage(h) => act' = [act EXCEPT ![h] = Text("answer", <<>>)]
  BY <1>1 DEF WriteStorage
<1>8. SaveFails(h) => act' = [act EXCEPT ![h] = Step("answer")]
  BY <1>1 DEF SaveFails
<1>9. Reply(h) => act' = [act EXCEPT ![h] = NoAct]
  BY DEF Reply
<1>10. \A s \in {"write", "answer"} :
         Step(s) \in Acts /\ Step(s).step = s /\ Step(s).name = act[h].name
  BY <1>1, <1>2, <1>3
<1> HIDE DEF Step
<1>11. \A s \in {"write", "answer"}, t \in Seq(Account) :
         /\ Text(s, t) \in Acts /\ Text(s, t).step = s /\ Text(s, t).name = act[h].name
         /\ Text(s, t).text = t
  BY <1>4, <1>5, <1>10
<1> HIDE DEF Text
<1>12. \A v \in Acts : act' = [act EXCEPT ![h] = v] =>
          /\ act' \in [Handlers -> Acts] /\ act'[h] = v
          /\ \A g \in Handlers \ {h} : act'[g] = act[g]
  BY <1>1
<1>13. <<>> \in Seq(Account)
  OBVIOUS
<1>t. Text("answer", <<>>).step = "answer" /\ Text("answer", <<>>).name = act[h].name
  BY <1>11, <1>13
<1>14. /\ Text("write", users) \in Acts /\ Text("answer", <<>>) \in Acts
       /\ Step("answer") \in Acts /\ NoAct \in Acts
  BY <1>1, <1>10, <1>11, <1>13, NoActType
<1> DEFINE Moved(v) == /\ act' \in [Handlers -> Acts] /\ act'[h] = v
                       /\ \A g \in Handlers \ {h} : act'[g] = act[g]
<1>15. ASSUME OpenStorage(h) PROVE Moved(Text("write", users))
  BY <1>6, <1>12, <1>14, <1>15
<1>16. ASSUME WriteStorage(h) PROVE Moved(Text("answer", <<>>))
  BY <1>7, <1>12, <1>14, <1>16
<1>17. ASSUME SaveFails(h) PROVE Moved(Step("answer"))
  BY <1>8, <1>12, <1>14, <1>17
<1>18. ASSUME Reply(h) PROVE Moved(NoAct)
  BY <1>9, <1>12, <1>14, <1>18
<1>19. OpenStorage(h) => /\ act'[h].step = "write" /\ act'[h].name = act[h].name
                         /\ act'[h].text = users
  BY <1>1, <1>11, <1>15
<1>20. WriteStorage(h) => act'[h].step = "answer" /\ act'[h].name = act[h].name
  BY <1>16, <1>t
<1>21. SaveFails(h) => act'[h].step = "answer" /\ act'[h].name = act[h].name
  BY <1>10, <1>17
<1> QED
  BY <1>15, <1>16, <1>17, <1>18, <1>19, <1>20, <1>21, Zenon

LEMMA AccountsTypeNext ==
  AccountsTypeOK /\ DeadIdle /\ [AccountsNext]_accountVars => AccountsTypeOK' /\ DeadIdle'
<1> SUFFICES ASSUME AccountsTypeOK, DeadIdle, [AccountsNext]_accountVars
             PROVE  AccountsTypeOK' /\ DeadIdle'
  OBVIOUS
<1>0. /\ act \in [Handlers -> Acts] /\ users \in Seq(Account) /\ Len(users) <= MaxUsers
      /\ acts \in 0..MaxActs /\ deaths \in 0..MaxDeaths /\ MaxActs \in Nat /\ MaxDeaths \in Nat
      /\ promised \in [Names -> Roles \cup {"none"}] /\ TrailTypeOK
      /\ dbFile # Torn => dbFile \in Seq(Account) /\ Len(dbFile) <= MaxUsers
      /\ kept \in BOOLEAN /\ failed \in BOOLEAN /\ running \in BOOLEAN
  BY AccountsAssumption DEF AccountsTypeOK
<1>t. ASSUME UNCHANGED trailVars PROVE TrailTypeOK'
  BY <1>0, <1>t DEF trailVars, TrailTypeOK, Trails
<1>1. ASSUME NEW h \in Handlers, Changing(h) PROVE AccountsTypeOK' /\ DeadIdle'
  <2>0. PICK n \in Names \cup {Nobody}, role \in Roles \cup {"none"}, audit \in BOOLEAN :
          \E new : Change(h, new, n, role, audit) /\ Changed(new, n)
    BY <1>1 DEF Changing
  <2>1. PICK new : Change(h, new, n, role, audit) /\ Changed(new, n)
    BY <2>0
  <2> DEFINE v == [step |-> "save", name |-> n, role |-> role, audit |-> audit, text |-> <<>>]
  <2>2. v \in Acts /\ v.step = "save"
    <3>1. <<>> \in Seq(Account)
      OBVIOUS
    <3> QED
      BY <3>1 DEF Acts
  <2>3. act' = [act EXCEPT ![h] = v]
    BY <2>1 DEF Change
  <2> HIDE DEF v
  <2>4. act' \in [Handlers -> Acts] /\ \A g \in Handlers : act'[g].step # "write"
    BY <1>0, <2>1, <2>2, <2>3 DEF Change, Unread
  <2>5. users' \in Seq(Account) /\ Len(users') <= MaxUsers
    BY <2>1 DEF Change, Changed
  <2>6. promised' \in [Names -> Roles \cup {"none"}]
    BY <1>0, <2>1 DEF Change
  <2>7. TrailTypeOK'
    BY <1>t, <2>1 DEF Change
  <2>8. acts' \in 0..MaxActs
    BY <1>0, <2>1 DEF Change
  <2>9. running /\ UNCHANGED <<running, dbFile, deaths, failed, kept>>
    BY <2>1 DEF Change
  <2> QED
    BY <1>0, <2>4, <2>5, <2>6, <2>7, <2>8, <2>9 DEF AccountsTypeOK, DeadIdle
<1>2. ASSUME NEW h \in Handlers, OpenStorage(h) \/ WriteStorage(h) \/ SaveFails(h)
      PROVE  AccountsTypeOK' /\ DeadIdle'
  <2>1. act' \in [Handlers -> Acts] /\ users' = users
        /\ \A g \in Handlers : act'[g].step = "write" => act'[g].text = users
    BY <1>2, ActChanges DEF OpenStorage, WriteStorage, SaveFails, AccountsTypeOK
  <2>2. dbFile' # Torn => dbFile' \in Seq(Account) /\ Len(dbFile') <= MaxUsers
    <3>1. CASE WriteStorage(h)
      <4>1. dbFile' = users /\ users \in Seq(Account) /\ Len(users) <= MaxUsers
        BY <1>0, <3>1 DEF WriteStorage, AccountsTypeOK
      <4> QED
        BY <4>1
    <3>2. CASE OpenStorage(h) \/ SaveFails(h)
      <4>1. dbFile' = Torn \/ dbFile' = dbFile
        BY <3>2 DEF OpenStorage, SaveFails
      <4> QED
        BY <1>0, <4>1 DEF AccountsTypeOK
    <3> QED
      BY <1>2, <3>1, <3>2
  <2>3. TrailTypeOK' /\ failed' \in BOOLEAN
    BY <1>0, <1>2, <1>t DEF OpenStorage, WriteStorage, SaveFails
  <2>4. running
    BY <1>2, NoActType DEF DeadIdle, OpenStorage, WriteStorage, SaveFails
  <2>5. UNCHANGED <<running, users, acts, deaths, promised, kept>>
    BY <1>2 DEF OpenStorage, WriteStorage, SaveFails
  <2> QED
    BY <1>0, <2>1, <2>2, <2>3, <2>4, <2>5 DEF AccountsTypeOK, DeadIdle
<1>3. ASSUME NEW h \in Handlers, Reply(h) PROVE AccountsTypeOK' /\ DeadIdle'
  <2>1. act' \in [Handlers -> Acts] /\ users' = users
        /\ \A g \in Handlers : act'[g].step = "write" => act'[g].text = users
    BY <1>3, ActChanges, NoActType DEF Reply, AccountsTypeOK
  <2>2. TrailTypeOK'
    BY <1>0, <1>3, <1>t, LogType DEF Reply
  <2>3. promised' \in [Names -> Roles \cup {"none"}]
    BY <1>0, <1>3 DEF Reply, Roles
  <2>4. running
    BY <1>3, NoActType DEF DeadIdle, Reply
  <2> QED
    BY <1>0, <1>3, <2>1, <2>2, <2>3, <2>4 DEF Reply, AccountsTypeOK, DeadIdle
<1>4. CASE Die
  <2>1. users' \in Seq(Account) /\ Len(users') <= MaxUsers
    BY <1>4, AccountsAssumption DEF Die
  <2>2. act' \in [Handlers -> Acts] /\ \A g \in Handlers : act'[g] = NoAct
    BY <1>4, NoActType DEF Die
  <2>3. TrailTypeOK'
    BY <1>0, <1>4, TrailTypeNext DEF Die
  <2>4. kept' \in BOOLEAN
    BY <1>4, Zenon DEF Die
  <2>5. deaths' \in 0..MaxDeaths
    BY <1>0, <1>4 DEF Die
  <2>6. running' \in BOOLEAN /\ UNCHANGED <<dbFile, acts, promised, failed>>
    BY <1>4 DEF Die
  <2> QED
    BY <1>0, <2>1, <2>2, <2>3, <2>4, <2>5, <2>6, NoActType DEF AccountsTypeOK, DeadIdle
<1>5. ASSUME NEW admin \in Names, Start(admin) PROVE AccountsTypeOK' /\ DeadIdle'
  <2>1. users' \in Seq(Account) /\ Len(users') <= MaxUsers
    <3>1. First(admin) \in Seq(Account) /\ Len(First(admin)) = 1 /\ 1 <= MaxUsers
      BY FirstType, AccountsAssumption
    <3>2. CASE dbFile = Torn \/ dbFile = <<>>
      BY <1>5, <3>1, <3>2 DEF Start
    <3>3. CASE ~(dbFile = Torn \/ dbFile = <<>>)
      BY <1>0, <1>5, <3>3, SyncedKeeps DEF Start
    <3> QED
      BY <3>2, <3>3
  <2>2. \A g \in Handlers : act[g].step # "write"
    BY <1>5, NoActType DEF Start, DeadIdle
  <2>3. TrailTypeOK'
    BY <1>0, <1>5, TrailTypeNext DEF Start
  <2> QED
    BY <1>0, <1>5, <2>1, <2>2, <2>3 DEF Start, AccountsTypeOK, DeadIdle
<1>6. ASSUME TrailTypeOK',
             UNCHANGED <<running, users, dbFile, act, acts, deaths, promised, failed, kept>>
      PROVE  AccountsTypeOK' /\ DeadIdle'
  BY <1>6 DEF AccountsTypeOK, DeadIdle
<1>7. CASE SaverNext /\ UNCHANGED <<running, users, dbFile, act, acts, deaths, promised, failed, kept>>
  BY <1>0, <1>6, <1>7, TrailTypeNext
<1>8. CASE UNCHANGED accountVars
  BY <1>6, <1>8, <1>t DEF accountVars
<1> QED
  BY <1>1, <1>2, <1>3, <1>4, <1>5, <1>7, <1>8, AccountsCases
-----------------------------------------------------------------------------
(* Whether an account of a user survives a start now. *)
Saved(n) == dbFile # Torn /\ HasUser(dbFile, n)

(* A request has changed the account and has yet to save it.                 *)
Pending(n) == \E g \in Handlers : act[g].step = "save" /\ act[g].name = n

(* What has been answered is in memory, or, when the process is dead, in the *)
(* file, which has every account that no request is about.                   *)
AccInv ==
  \A n \in Names :
    /\ promised[n] # "none" =>
         /\ promised[n] = "user"
         /\ \A g \in Handlers : act[g].name # n
         /\ kept => IF running THEN HasUser(users, n) ELSE Saved(n)
    /\ running /\ kept /\ ~failed /\ Unread /\ ~Pending(n) /\ HasUser(users, n) => Saved(n)

LEMMA AccInvInit == AccountsInit => AccInv
<1> SUFFICES ASSUME AccountsInit, NEW n \in Names
             PROVE  promised[n] = "none" /\ ~HasUser(users, n)
  BY DEF AccInv
<1> QED
  BY FirstType, AccountsAssumption DEF AccountsInit

LEMMA AccInvNext ==
  AccountsTypeOK /\ DeadIdle /\ AccInv /\ [AccountsNext]_accountVars => AccInv'
<1> SUFFICES ASSUME AccountsTypeOK, DeadIdle, AccInv, [AccountsNext]_accountVars
             PROVE  AccInv'
  OBVIOUS
<1>0. /\ act \in [Handlers -> Acts] /\ users \in Seq(Account)
      /\ promised \in [Names -> Roles \cup {"none"}] /\ Nobody \notin Names
      /\ dbFile # Torn => dbFile \in Seq(Account)
      /\ kept \in BOOLEAN /\ failed \in BOOLEAN /\ running \in BOOLEAN
  BY AccountsAssumption DEF AccountsTypeOK
<1>1. ASSUME NEW h \in Handlers, Changing(h) PROVE AccInv'
  <2>0. PICK n \in Names \cup {Nobody}, role \in Roles \cup {"none"}, audit \in BOOLEAN :
          \E new : Change(h, new, n, role, audit) /\ Changed(new, n)
    BY <1>1 DEF Changing
  <2>1. PICK new : Change(h, new, n, role, audit) /\ Changed(new, n)
    BY <2>0
  <2>2. /\ act'[h].step = "save" /\ act'[h].name = n /\ act[h].step = "idle"
        /\ \A g \in Handlers \ {h} : act'[g] = act[g]
    BY <1>0, <2>1 DEF Change
  <2>3. /\ users' = new /\ Unread /\ running
        /\ UNCHANGED <<running, dbFile, failed, kept>>
        /\ n \in Names => promised'[n] = "none"
        /\ \A m \in Names : m # n => promised'[m] = promised[m]
    BY <1>0, <2>1 DEF Change
  <2> SUFFICES ASSUME NEW m \in Names
               PROVE  /\ promised'[m] # "none" =>
                           /\ promised'[m] = "user"
                           /\ \A g \in Handlers : act'[g].name # m
                           /\ kept => HasUser(users', m)
                      /\ kept /\ ~failed /\ ~Pending(m)' /\ HasUser(users', m) => Saved(m)'
    BY <2>3 DEF AccInv
  <2>4. CASE m = n
    BY <2>2, <2>3, <2>4 DEF Pending
  <2>5. CASE m # n
    <3>1. promised'[m] = promised[m] /\ (HasUser(users', m) <=> HasUser(users, m))
      BY <2>1, <2>3, <2>5 DEF Changed
    <3>2. \A g \in Handlers : act'[g].name = m => act[g].name = m
      BY <2>2, <2>5
    <3>3. Pending(m) => Pending(m)'
      BY <2>2 DEF Pending
    <3>4. Saved(m)' <=> Saved(m)
      BY <2>3 DEF Saved, HasUser
    <3> QED
      BY <2>3, <3>1, <3>2, <3>3, <3>4 DEF AccInv
  <2> QED
    BY <2>4, <2>5
<1>2. ASSUME NEW h \in Handlers, OpenStorage(h) \/ WriteStorage(h) \/ SaveFails(h)
      PROVE  AccInv'
  <2>1. /\ \A g \in Handlers : act'[g].name = act[g].name
        /\ OpenStorage(h) => act'[h].step = "write"
        /\ UNCHANGED <<running, users, promised, kept>>
    BY <1>2, ActChanges DEF OpenStorage, WriteStorage, SaveFails
  <2>2. running
    BY <1>2, NoActType DEF DeadIdle, OpenStorage, WriteStorage, SaveFails
  <2>3. OpenStorage(h) => ~Unread'
    BY <2>1 DEF Unread
  <2>4. SaveFails(h) => failed'
    BY DEF SaveFails
  <2>5. WriteStorage(h) => dbFile' = users /\ dbFile' # Torn
    BY <1>0, TornAssumption DEF WriteStorage, AccountsTypeOK
  <2> SUFFICES ASSUME NEW m \in Names
               PROVE  /\ promised[m] # "none" =>
                           /\ promised[m] = "user"
                           /\ \A g \in Handlers : act'[g].name # m
                           /\ kept => HasUser(users, m)
                      /\ ~failed' /\ Unread' /\ HasUser(users, m) => Saved(m)'
    BY <2>1, <2>2 DEF AccInv
  <2>6. ~failed' /\ Unread' /\ HasUser(users, m) => Saved(m)'
    BY <1>2, <2>3, <2>4, <2>5 DEF Saved, HasUser
  <2> QED
    BY <2>1, <2>2, <2>6 DEF AccInv
<1>3. ASSUME NEW h \in Handlers, Reply(h) PROVE AccInv'
  <2> DEFINE n == act[h].name
             new == /\ n # Nobody /\ \A g \in Handlers \ {h} : act[g].name # n
                    /\ Exists(n) /\ users[FirstOf(n)].role = "user"
  <2>1. /\ act'[h] = NoAct /\ act[h].step = "answer"
        /\ \A g \in Handlers \ {h} : act'[g] = act[g]
        /\ UNCHANGED <<running, users, dbFile, failed, kept>>
    BY <1>3, ActChanges DEF Reply
  <2>2. running
    BY <2>1, NoActType DEF DeadIdle
  <2>3. \A m \in Names : promised'[m] = promised[m] \/ (m = n /\ new /\ promised'[m] = "user")
    BY <1>0, <1>3 DEF Reply
  <2>4. Unread' => Unread
    BY <2>1 DEF Unread
  <2>5. \A m \in Names : /\ Pending(m) => Pending(m)'
                         /\ Saved(m)' <=> Saved(m)
    BY <2>1 DEF Pending, Saved, HasUser
  <2>6. \A g \in Handlers, m \in Names : act'[g].name = m => g # h /\ act[g].name = m
    BY <1>0, <2>1, NoActType
  <2>7. ASSUME new, n \in Names PROVE HasUser(users, n)
    BY <1>0, <2>7, FirstExists DEF HasUser
  <2> SUFFICES ASSUME NEW m \in Names
               PROVE  /\ promised'[m] # "none" =>
                           /\ promised'[m] = "user"
                           /\ \A g \in Handlers : act'[g].name # m
                           /\ kept => HasUser(users, m)
                      /\ kept /\ ~failed /\ Unread' /\ ~Pending(m)' /\ HasUser(users, m)
                           => Saved(m)'
    BY <2>1, <2>2 DEF AccInv
  <2>8. kept /\ ~failed /\ Unread' /\ ~Pending(m)' /\ HasUser(users, m) => Saved(m)'
    BY <2>2, <2>4, <2>5 DEF AccInv
  <2>9. CASE promised'[m] = promised[m]
    BY <2>2, <2>6, <2>8, <2>9 DEF AccInv
  <2>10. CASE m = n /\ new /\ promised'[m] = "user"
    BY <2>6, <2>7, <2>8, <2>10
  <2> QED
    BY <2>3, <2>9, <2>10
<1>4. CASE Die
  <2>1. /\ running /\ ~running' /\ promised' = promised /\ dbFile' = dbFile
    BY <1>4 DEF Die
  <2>2. kept' => kept /\ Unread /\ ~failed
    BY <1>4 DEF Die
  <2>3. \A g \in Handlers, m \in Names : act'[g].name # m
    BY <1>0, <1>4, NoActType DEF Die
  <2>4. \A m \in Names : Saved(m)' <=> Saved(m)
    BY <2>1 DEF Saved, HasUser
  <2>5. ASSUME NEW m \in Names, promised[m] # "none" PROVE ~Pending(m)
    BY <2>5 DEF AccInv, Pending
  <2> QED
    BY <2>1, <2>2, <2>3, <2>4, <2>5 DEF AccInv
<1>5. ASSUME NEW admin \in Names, Start(admin) PROVE AccInv'
  <2>1. ~running /\ running' /\ UNCHANGED <<dbFile, act, promised, failed, kept>>
    BY <1>5 DEF Start
  <2>2. ASSUME NEW m \in Names PROVE HasUser(users', m) <=> Saved(m)
    <3>1. CASE dbFile = Torn \/ dbFile = <<>>
      <4>1. users' = First(admin)
        BY <1>5, <3>1 DEF Start
      <4>2. ~Saved(m)
        BY <3>1 DEF Saved, HasUser
      <4> QED
        BY <4>1, <4>2, FirstType
    <3>2. CASE ~(dbFile = Torn \/ dbFile = <<>>)
      <4>1. users' = Synced(dbFile, admin) /\ dbFile \in Seq(Account)
        BY <1>0, <1>5, <3>2 DEF Start
      <4> QED
        BY <3>2, <4>1, SyncedKeeps DEF Saved
    <3> QED
      BY <3>1, <3>2
  <2>3. \A m \in Names : Saved(m)' <=> Saved(m)
    BY <2>1 DEF Saved, HasUser
  <2> QED
    BY <2>1, <2>2, <2>3 DEF AccInv
<1>6. ASSUME UNCHANGED <<running, users, dbFile, act, acts, deaths, promised, failed, kept>>
      PROVE  AccInv'
  BY <1>6 DEF AccInv, Saved, Pending, HasUser, Unread
<1> QED
  BY <1>1, <1>2, <1>3, <1>4, <1>5, <1>6, AccountsCases DEF accountVars

(* An account whose handler has answered is there, with the role it was      *)
(* given, however requests, failures of a save and deaths of the process     *)
(* interleave.                                                               *)
THEOREM AccountsAreKept == AccountsSpec => []AccountsKept
<1>1. AccInv => AccountsKept
  BY DEF AccInv, AccountsKept, HasUser
<1> QED
  BY <1>1, AccountsTypeInit, AccInvInit, AccountsTypeNext, AccInvNext, PTL DEF AccountsSpec
-----------------------------------------------------------------------------
(* Configurations posted between nodes. *)
LEMMA SyncTypeInit == SyncInit => SyncTypeOK
<1> SUFFICES ASSUME SyncInit PROVE SyncTypeOK
  OBVIOUS
<1>1. config \in [Nodes -> NodeConfigs]
  <2>1. PICK body \in [Nodes -> Bodies], own \in BOOLEAN :
          config = [n \in Nodes |-> Installed(n, body[n], own)]
    BY DEF SyncInit
  <2>2. \A n \in Nodes : Installed(n, body[n], own) \in NodeConfigs
    BY DEF Installed, NodeConfigs
  <2> QED
    BY <2>1, <2>2
<1>2. edit \in [Nodes -> [stage : {"none", "write", "share"}, shared : BOOLEAN,
                         cfg : NodeConfigs]]
  BY <1>1 DEF SyncInit, NoEdit
<1>3. /\ jobs = {} /\ posts = {} /\ syncs = 0 /\ last = NoNode /\ alone = FALSE
      /\ 0 \in 0..MaxSaves
  BY SyncAssumption DEF SyncInit
<1> QED
  BY <1>1, <1>2, <1>3 DEF SyncTypeOK

(* What is posted is what the sender has, to nodes. *)
LEMMA PostedType ==
  ASSUME SyncTypeOK, NEW n \in Nodes, NEW c \in NodeConfigs, NEW no,
         NEW p \in Posted(n, c, no)
  PROVE  p.to \in Nodes /\ p.port \in Ports /\ p.cfg = c
<1>1. config[n].join_peers \subseteq Nodes
  BY DEF SyncTypeOK, NodeConfigs
<1> QED
  BY <1>1 DEF Posted, Peers

(* A node that is not the one the configuration claims gets a post. *)
LEMMA PostedReaches ==
  ASSUME SyncTypeOK, NEW n \in Nodes, NEW c, NEW no,
         NEW m \in Nodes, m # config[n].advertise_ip
  PROVE  \E p \in Posted(n, c, no) : p.to = m
<1>1. PICK q \in Ports : TRUE
  BY SyncAssumption
<1>2. [to |-> m, port |-> q, cfg |-> c, no |-> no] \in Posted(n, c, no)
  BY <1>1 DEF Posted, Peers
<1> QED
  BY <1>2

LEMMA KeptType ==
  ASSUME NEW new \in NodeConfigs, NEW old \in NodeConfigs
  PROVE  Kept(new, old) \in NodeConfigs
BY DEF Kept, NodeConfigs

LEMMA SyncTypeNext == SyncTypeOK /\ [SyncNext]_syncVars => SyncTypeOK'
<1> SUFFICES ASSUME SyncTypeOK, [SyncNext]_syncVars PROVE SyncTypeOK'
  OBVIOUS
<1> DEFINE Edits == [stage : {"none", "write", "share"}, shared : BOOLEAN, cfg : NodeConfigs]
<1>t. /\ config \in [Nodes -> NodeConfigs] /\ edit \in [Nodes -> Edits]
      /\ \A j \in jobs : j.from \in Nodes /\ j.cfg \in NodeConfigs /\ j.no \in 0..syncs
      /\ \A p \in posts : p.to \in Nodes /\ p.port \in Ports /\ p.cfg \in NodeConfigs
      /\ syncs \in 0..MaxSaves /\ last \in Nodes \cup {NoNode} /\ alone \in BOOLEAN
  BY DEF SyncTypeOK
<1>n. \A c \in NodeConfigs : NoEdit(c) \in Edits
  BY DEF NoEdit
<1>s. \A n \in Nodes \cup {NoNode} :
        Share(n) => /\ syncs' \in 0..MaxSaves /\ syncs' = syncs + 1
                    /\ last' \in Nodes \cup {NoNode}
  BY <1>t, SyncAssumption DEF Share
<1>b. NothingUnderWay \in BOOLEAN
  BY Zenon DEF NothingUnderWay
<1>j. ASSUME syncs' \in 0..MaxSaves, syncs' >= syncs
      PROVE  \A j \in jobs : j.no \in 0..syncs'
  BY <1>t, <1>j
<1>1. ASSUME NEW n \in Nodes, NEW b \in Bodies, NEW shared \in BOOLEAN, BeginEdit(n, b, shared)
      PROVE  SyncTypeOK'
  <2>1. [config[n] EXCEPT !.body = b] \in NodeConfigs
    BY <1>t DEF NodeConfigs
  <2>2. edit' \in [Nodes -> Edits]
    BY <1>1, <1>t, <2>1 DEF BeginEdit
  <2>3. /\ syncs' \in 0..MaxSaves /\ syncs' = syncs + 1
        /\ last' \in Nodes \cup {NoNode} /\ alone' \in BOOLEAN
    BY <1>1, <1>s, <1>b DEF BeginEdit, Share
  <2>4. \A j \in jobs : j.no \in 0..syncs'
    BY <1>t, <1>j, <2>3
  <2> QED
    BY <1>1, <1>t, <2>2, <2>3, <2>4 DEF BeginEdit, SyncTypeOK
<1>2. ASSUME NEW n \in Nodes, WriteEdit(n) PROVE SyncTypeOK'
  <2>1. edit[n] \in Edits /\ config[n] \in NodeConfigs
    BY <1>t
  <2>2. Kept(edit[n].cfg, config[n]) \in NodeConfigs
    BY <2>1, KeptType
  <2>3. config' = [config EXCEPT ![n] = Kept(edit[n].cfg, config[n])]
    BY <1>2 DEF WriteEdit
  <2>4. config' \in [Nodes -> NodeConfigs]
    BY <1>t, <2>2, <2>3
  <2>5. NoEdit(config'[n]) \in Edits /\ [edit[n] EXCEPT !.stage = "share"] \in Edits
    BY <2>1, <2>4, <1>n
  <2>6. edit' \in [Nodes -> Edits]
    BY <1>2, <1>t, <2>5 DEF WriteEdit
  <2> QED
    BY <1>2, <1>t, <2>4, <2>6 DEF WriteEdit, SyncTypeOK
<1>3. ASSUME NEW n \in Nodes, ShareEdit(n) PROVE SyncTypeOK'
  <2> DEFINE job == [from |-> n, cfg |-> config[n], no |-> syncs]
  <2>1. edit' \in [Nodes -> Edits] /\ UNCHANGED <<config, posts, syncs, last, alone>>
    BY <1>3, <1>t, <1>n DEF ShareEdit
  <2>2. jobs' = jobs \cup {job}
    BY <1>3 DEF ShareEdit
  <2>3. job.from \in Nodes /\ job.cfg \in NodeConfigs /\ job.no \in 0..syncs
    BY <1>t
  <2> QED
    BY <1>t, <2>1, <2>2, <2>3 DEF SyncTypeOK
<1>4. ASSUME NEW j \in jobs, Broadcast(j) PROVE SyncTypeOK'
  <2>1. j.from \in Nodes /\ j.cfg \in NodeConfigs
    BY <1>t
  <2>2. \A p \in posts' : p.to \in Nodes /\ p.port \in Ports /\ p.cfg \in NodeConfigs
    BY <1>4, <1>t, <2>1, PostedType DEF Broadcast
  <2> QED
    BY <1>4, <1>t, <2>2 DEF Broadcast, SyncTypeOK
<1>5. ASSUME NEW n \in Nodes, ForceSync(n) PROVE SyncTypeOK'
  <2>1. config[n] \in NodeConfigs
    BY <1>t
  <2>2. \A p \in posts' : p.to \in Nodes /\ p.port \in Ports /\ p.cfg \in NodeConfigs
    BY <1>5, <1>t, <2>1, PostedType DEF ForceSync
  <2>3. /\ syncs' \in 0..MaxSaves /\ syncs' = syncs + 1
        /\ last' \in Nodes \cup {NoNode} /\ alone' \in BOOLEAN
    BY <1>5, <1>s, <1>b DEF ForceSync, Share
  <2>4. \A j \in jobs : j.no \in 0..syncs'
    BY <1>t, <1>j, <2>3
  <2> QED
    BY <1>5, <1>t, <2>2, <2>3, <2>4 DEF ForceSync, SyncTypeOK
<1>6. ASSUME NEW p \in posts, Receive(p) PROVE SyncTypeOK'
  <2>1. p.to \in Nodes /\ p.cfg \in NodeConfigs /\ NoEdit(p.cfg) \in Edits
    BY <1>t, <1>n
  <2>2. config' \in [Nodes -> NodeConfigs] /\ edit' \in [Nodes -> Edits]
    BY <1>6, <1>t, <2>1 DEF Receive
  <2> QED
    BY <1>6, <1>t, <2>2 DEF Receive, SyncTypeOK
<1>7. ASSUME NEW p \in posts, Lose(p) PROVE SyncTypeOK'
  BY <1>7, <1>t DEF Lose, SyncTypeOK
<1>8. CASE UNCHANGED syncVars
  BY <1>8, <1>t DEF syncVars, SyncTypeOK
<1> QED
  BY <1>1, <1>2, <1>3, <1>4, <1>5, <1>6, <1>7, <1>8 DEF SyncNext

(* A share that began while nothing was under way and has lost nothing is    *)
(* all that goes on: the save, the broadcast to come, or its posts, of which *)
(* every node that is not yet there has one before it.                       *)
Edited(n) ==
  /\ edit[n].stage \in {"write", "share"} /\ edit[n].shared
  /\ jobs = {} /\ posts = {} /\ \A m \in Nodes \ {n} : edit[m].stage = "none"

Queued(n) ==
  /\ \A m \in Nodes : edit[m].stage = "none"
  /\ posts = {} /\ \E no \in 0..syncs : jobs = {[from |-> n, cfg |-> config[n], no |-> no]}

Spreading(n) ==
  /\ \A m \in Nodes : edit[m].stage = "none"
  /\ jobs = {} /\ \A p \in posts : p.cfg = config[n]
  /\ \A m \in Nodes : m # config[n].advertise_ip =>
       config[m] = config[n] \/ \E p \in posts : p.to = m

SoleShare(n) == Edited(n) \/ Queued(n) \/ Spreading(n)

SyncInv == SyncTypeOK /\ (last # NoNode /\ alone => SoleShare(last))

(* Posting to all peers begins the spreading. *)
LEMMA PostedSpreads ==
  ASSUME SyncTypeOK, NEW n \in Nodes, NEW no,
         \A m \in Nodes : edit'[m].stage = "none",
         jobs' = {}, config' = config, posts' = Posted(n, config[n], no)
  PROVE  Spreading(n)'
<1>1. config[n] \in NodeConfigs
  BY DEF SyncTypeOK
<1>2. \A p \in posts' : p.cfg = config[n]
  BY <1>1, PostedType
<1>3. \A m \in Nodes : m # config[n].advertise_ip => \E p \in posts' : p.to = m
  BY PostedReaches
<1> QED
  BY <1>2, <1>3 DEF Spreading

LEMMA SyncInvNext == SyncInv /\ [SyncNext]_syncVars => SyncInv'
<1> SUFFICES ASSUME SyncInv, [SyncNext]_syncVars, last' # NoNode, alone'
             PROVE  SoleShare(last)'
  BY SyncTypeNext DEF SyncInv
<1>t. SyncTypeOK
  BY DEF SyncInv
<1>y. /\ \A n \in Nodes : config[n] \in NodeConfigs
      /\ edit \in [Nodes -> [stage : {"none", "write", "share"}, shared : BOOLEAN,
                            cfg : NodeConfigs]]
      /\ last \in Nodes \cup {NoNode}
  BY <1>t DEF SyncTypeOK
<1>h. ASSUME UNCHANGED <<last, alone>> PROVE last \in Nodes /\ SoleShare(last)
  BY <1>h, <1>y DEF SyncInv
<1>1. ASSUME NEW n \in Nodes, NEW b \in Bodies, NEW shared \in BOOLEAN, BeginEdit(n, b, shared)
      PROVE  SoleShare(last)'
  <2>1. shared /\ last' = n /\ NothingUnderWay
    BY <1>1 DEF BeginEdit, Share
  <2>2. edit'[n].stage = "write" /\ edit'[n].shared
    BY <1>1, <1>y, <2>1 DEF BeginEdit
  <2>3. /\ jobs' = {} /\ posts' = {} /\ \A m \in Nodes \ {n} : edit'[m].stage = "none"
    BY <1>1, <1>y, <2>1 DEF BeginEdit, NothingUnderWay
  <2> QED
    BY <2>1, <2>2, <2>3 DEF SoleShare, Edited
<1>2. ASSUME NEW n \in Nodes, WriteEdit(n) PROVE SoleShare(last)'
  <2>1. last' = last /\ UNCHANGED <<jobs, posts>> /\ last \in Nodes /\ SoleShare(last)
    BY <1>2, <1>h DEF WriteEdit
  <2>2. n = last /\ Edited(last)
    BY <1>2, <2>1 DEF WriteEdit, SoleShare, Edited, Queued, Spreading
  <2>3. edit' = [edit EXCEPT ![n] = [edit[n] EXCEPT !.stage = "share"]]
    BY <1>2, <2>2 DEF WriteEdit, Edited
  <2>4. /\ edit'[n].stage = "share" /\ edit'[n].shared
        /\ \A m \in Nodes \ {n} : edit'[m] = edit[m]
    <3>1. edit[n] \in [stage : {"none", "write", "share"}, shared : BOOLEAN, cfg : NodeConfigs]
      BY <1>y
    <3> QED
      BY <1>y, <2>2, <2>3, <3>1 DEF Edited
  <2> QED
    BY <2>1, <2>2, <2>4 DEF SoleShare, Edited
<1>3. ASSUME NEW n \in Nodes, ShareEdit(n) PROVE SoleShare(last)'
  <2>1. last' = last /\ UNCHANGED <<config, posts, syncs>> /\ last \in Nodes /\ SoleShare(last)
    BY <1>3, <1>h DEF ShareEdit
  <2>2. n = last /\ Edited(last)
    BY <1>3, <2>1 DEF ShareEdit, SoleShare, Edited, Queued, Spreading
  <2>3. jobs' = {[from |-> n, cfg |-> config'[n], no |-> syncs]} /\ posts' = {}
    BY <1>3, <2>1, <2>2 DEF ShareEdit, Edited
  <2>4. \A m \in Nodes : edit'[m].stage = "none"
    BY <1>3, <1>y, <2>2 DEF ShareEdit, Edited, NoEdit
  <2>5. syncs \in 0..syncs'
    BY <1>t, <2>1 DEF SyncTypeOK
  <2> QED
    BY <2>1, <2>2, <2>3, <2>4, <2>5 DEF SoleShare, Queued
<1>4. ASSUME NEW j \in jobs, Broadcast(j) PROVE SoleShare(last)'
  <2>1. last' = last /\ UNCHANGED <<config, edit>> /\ last \in Nodes /\ SoleShare(last)
    BY <1>4, <1>h DEF Broadcast
  <2>2. Queued(last)
    BY <2>1 DEF SoleShare, Edited, Spreading
  <2>3. PICK no \in 0..syncs : jobs = {[from |-> last, cfg |-> config[last], no |-> no]}
    BY <2>2 DEF Queued
  <2>4. j.from = last /\ j.cfg = config[last] /\ j.no = no
    BY <2>3
  <2>5. jobs' = {} /\ posts' = Posted(last, config[last], no)
    BY <1>4, <2>2, <2>3, <2>4 DEF Broadcast, Queued
  <2>6. \A m \in Nodes : edit'[m].stage = "none"
    BY <2>1, <2>2 DEF Queued
  <2> QED
    BY <1>t, <2>1, <2>5, <2>6, PostedSpreads DEF SoleShare
<1>5. ASSUME NEW n \in Nodes, ForceSync(n) PROVE SoleShare(last)'
  <2>1. last' = n /\ NothingUnderWay /\ UNCHANGED <<config, edit, jobs>>
    BY <1>5 DEF ForceSync, Share
  <2>2. posts' = Posted(n, config[n], syncs') /\ jobs' = {}
    BY <1>5, <2>1 DEF ForceSync, NothingUnderWay
  <2>3. \A m \in Nodes : edit'[m].stage = "none"
    BY <2>1 DEF NothingUnderWay
  <2> QED
    BY <1>t, <2>1, <2>2, <2>3, PostedSpreads DEF SoleShare
<1>6. ASSUME NEW p \in posts, Receive(p) PROVE SoleShare(last)'
  <2>1. last' = last /\ jobs' = jobs /\ last \in Nodes /\ SoleShare(last)
    BY <1>6, <1>h DEF Receive
  <2>2. Spreading(last)
    BY <2>1 DEF SoleShare, Edited, Queued
  <2>3. p.to \in Nodes /\ p.cfg = config[last]
    BY <1>t, <2>2 DEF Spreading, SyncTypeOK
  <2>4. config' = [config EXCEPT ![p.to] = config[last]] /\ posts' = posts \ {p}
    BY <1>6, <2>3 DEF Receive
  <2>5. config'[last] = config[last] /\ config'[p.to] = config[last]
    BY <1>t, <2>1, <2>3, <2>4 DEF SyncTypeOK
  <2>6. \A m \in Nodes : m # p.to => config'[m] = config[m]
    BY <1>t, <2>4 DEF SyncTypeOK
  <2>7. \A m \in Nodes : edit'[m].stage = "none"
    BY <1>6, <1>y, <2>2, <2>3 DEF Receive, NoEdit, Spreading
  <2>8. \A m \in Nodes : m # config'[last].advertise_ip =>
          config'[m] = config'[last] \/ \E q \in posts' : q.to = m
    BY <2>2, <2>4, <2>5, <2>6 DEF Spreading
  <2>9. jobs' = {} /\ \A q \in posts' : q.cfg = config'[last]
    BY <2>1, <2>2, <2>4, <2>5 DEF Spreading
  <2> QED
    BY <2>1, <2>7, <2>8, <2>9 DEF SoleShare, Spreading
<1>7. ASSUME NEW p \in posts, Lose(p) PROVE FALSE
  BY <1>7 DEF Lose
<1>8. CASE UNCHANGED syncVars
  <2>1. UNCHANGED <<config, edit, jobs, posts, syncs, last>> /\ SoleShare(last)
    BY <1>8, <1>h DEF syncVars
  <2> QED
    BY <2>1 DEF SoleShare, Edited, Queued, Spreading
<1> QED
  BY <1>1, <1>2, <1>3, <1>4, <1>5, <1>6, <1>7, <1>8 DEF SyncNext

(* A node that shares its configuration while nothing else is under way      *)
(* brings every node to it but the one that the configuration claims to be,  *)
(* for any number of nodes, whatever was overwritten, lost or kept back      *)
(* before.                                                                   *)
THEOREM ShareReachesAll == SyncSpec => []SharedReachesAll
<1>1. SyncInit => SyncInv
  BY SyncTypeInit DEF SyncInit, SyncInv
<1>2. SyncInv => SharedReachesAll
  BY DEF SyncInv, SoleShare, Edited, Queued, Spreading, SharedReachesAll, NothingUnderWay,
         SyncTypeOK
<1> QED
  BY <1>1, <1>2, SyncInvNext, PTL DEF SyncSpec
-----------------------------------------------------------------------------
(* The three parts of the dashboard together. *)

(* Every variable of the dashboards keeps its type, whatever requests,       *)
(* saves, deaths and posts come, and in whatever order.                      *)
THEOREM DashboardTypeCorrect == DashboardSpec => []DashboardTypeOK
<1> DEFINE DashInv == TypeOK /\ Waiting /\ AccountsTypeOK /\ DeadIdle /\ SyncTypeOK
<1>1. DashboardInit => DashInv
  BY TypeInit, WaitingInit, AccountsTypeInit, SyncTypeInit DEF DashboardInit
<1>2. DashInv /\ [DashboardNext]_<<part, vars, accountVars, syncVars>> => DashInv'
  <2> SUFFICES ASSUME DashInv, [DashboardNext]_<<part, vars, accountVars, syncVars>>
               PROVE  DashInv'
    OBVIOUS
  <2>1. [Next]_vars /\ [AccountsNext]_accountVars /\ [SyncNext]_syncVars
    BY Zenon DEF DashboardNext, Configuring, Accounting, Syncing
  <2> QED
    BY <2>1, TypeNext, WaitingNext, AccountsTypeNext, SyncTypeNext
<1>3. DashInv => DashboardTypeOK
  BY DEF DashboardTypeOK
<1> QED
  BY <1>1, <1>2, <1>3, PTL DEF DashboardSpec
=============================================================================
