------------------------------- MODULE Accounts -------------------------------
(***************************************************************************)
(* The accounts of the dashboard (api/storage.go and the handlers of       *)
(* api/dashboard.go that change them) and the audit trail that the         *)
(* handlers write to.  A handler changes the data under the storage's      *)
(* mutex, saves it in a second step, whose error it ignores, and then      *)
(* answers; other handlers come in between, and the process may die at any *)
(* moment.                                                                 *)
(*                                                                         *)
(* Names are compared without regard to case: a name here stands for all   *)
(* its spellings.  Prices, documents and domains are saved with the        *)
(* accounts; of their handlers only the save is modelled (SaveOther).      *)
(***************************************************************************)
EXTENDS AuditTrail, Sequences

CONSTANTS
  Handlers,    \* requests handled at the same time
  Names,       \* user names
  Primary,     \* the name "admin"
  Nobody,
  MaxUsers,    \* bound: accounts
  MaxActs,     \* bound: requests
  MaxDeaths    \* bound: crashes

ASSUME AccountsAssumption ==
  /\ Primary \in Names /\ Nobody \notin Names
  /\ MaxUsers \in Nat \ {0} /\ MaxActs \in Nat /\ MaxDeaths \in Nat

Roles == {"super_admin", "user"}
Account == [name : Names, role : Roles, session : BOOLEAN]

(* What cannot be read is no list of accounts. *)
ASSUME TornAssumption == Torn \notin Seq(Account)

VARIABLES
  running,    \* whether the process runs
  users,      \* Storage.Data.Users
  dbFile,     \* the users of data/mango_db.json, or Torn
  act,        \* of a handler: [step, name, role, text], text the data it writes
  acts, deaths,
  promised,   \* history: the role of an account whose handler has answered
  failed,     \* history: the last save has failed
  kept        \* history: no crash has cut the file off or followed a failed save

accountVars == <<running, users, dbFile, act, acts, deaths, promised, failed, kept,
                 trailVars>>

NoAct == [step |-> "idle", name |-> Nobody, role |-> "none", audit |-> FALSE, text |-> <<>>]

Acts == [step : {"idle", "save", "write", "answer"}, name : Names \cup {Nobody},
         role : Roles \cup {"none"}, audit : BOOLEAN, text : Seq(Account)]

AccountsTypeOK ==
  /\ TrailTypeOK
  /\ running \in BOOLEAN /\ kept \in BOOLEAN /\ failed \in BOOLEAN
  /\ users \in Seq(Account) /\ Len(users) <= MaxUsers
  /\ dbFile # Torn => dbFile \in Seq(Account) /\ Len(dbFile) <= MaxUsers
  /\ act \in [Handlers -> Acts]
  /\ \A h \in Handlers : act[h].step = "write" => act[h].text = users
  /\ acts \in 0..MaxActs /\ deaths \in 0..MaxDeaths
  /\ promised \in [Names -> Roles \cup {"none"}]

First(admin) == <<[name |-> admin, role |-> "super_admin", session |-> FALSE]>>

AccountsInit ==
  /\ TrailInit
  /\ running = TRUE /\ users = First(Primary) /\ dbFile = Torn
  /\ act = [h \in Handlers |-> NoAct]
  /\ acts = 0 /\ deaths = 0
  /\ promised = [n \in Names |-> "none"] /\ failed = FALSE /\ kept = TRUE
-----------------------------------------------------------------------------
Of(us, n)  == {i \in DOMAIN us : us[i].name = n}
Exists(n)  == Of(users, n) # {}
FirstOf(n) == Min(Of(users, n))

(* Mutant of Unread: the data may change while it is being written. *)
UnreadOrNot == TRUE

(* The mutex is for one writer, or for the saves that read.                  *)
Unread == \A h \in Handlers : act[h].step # "write"

(* A handler changes the data; its save is still to come.  role is what its  *)
(* account has then, if that is for an answer to promise.                    *)
Change(h, new, n, role, audit) ==
  /\ running /\ act[h].step = "idle" /\ Unread
  /\ acts < MaxActs /\ acts' = acts + 1
  /\ users' = new
  /\ act' = [act EXCEPT ![h] = [step |-> "save", name |-> n, role |-> role,
                                audit |-> audit, text |-> <<>>]]
  /\ promised' = IF n = Nobody THEN promised ELSE [promised EXCEPT ![n] = "none"]
  /\ UNCHANGED <<running, dbFile, deaths, failed, kept, trailVars>>

Add(h, n, role, audit) ==
  /\ ~Exists(n) /\ Len(users) < MaxUsers
  /\ Change(h, Append(users, [name |-> n, role |-> role, session |-> FALSE]), n, role, audit)

handleRegister(h, n) == Add(h, n, "user", FALSE)

CreateUser(h, n, role) == Add(h, n, role, TRUE)

UpdateUser(h, n, role) ==
  /\ Exists(n)
  /\ Change(h, [users EXCEPT ![FirstOf(n)].role = role], n, role, TRUE)

(* The loop that copies the accounts of the other names. *)
Without(us, n) ==
  LET copied[i \in 0..Len(us)] ==
        IF i = 0 THEN <<>>
        ELSE IF us[i].name # n THEN Append(copied[i - 1], us[i]) ELSE copied[i - 1]
  IN  copied[Len(us)]

(* Every account of the name.  Only the spelling "admin" is refused: spelt   *)
(* otherwise the name deletes the primary account as well.                   *)
DeleteUser(h, n) ==
  /\ Exists(n)
  /\ Change(h, Without(users, n), n, "none", TRUE)

handleLogin(h, n) ==
  /\ Exists(n)
  /\ Change(h, [users EXCEPT ![FirstOf(n)].session = TRUE], Nobody, "none", FALSE)

SaveOther(h) == Change(h, users, Nobody, "none", FALSE)
-----------------------------------------------------------------------------
(* Save holds the mutex, with other saves, from here until it has written;   *)
(* opening the file cuts it off.                                             *)
OpenStorage(h) ==
  /\ act[h].step = "save"
  /\ act' = [act EXCEPT ![h].step = "write", ![h].text = users]
  /\ dbFile' = Torn
  /\ UNCHANGED <<running, users, acts, deaths, promised, failed, kept, trailVars>>

WriteStorage(h) ==
  /\ act[h].step = "write"
  /\ dbFile' = act[h].text /\ failed' = FALSE
  /\ act' = [act EXCEPT ![h].step = "answer", ![h].text = <<>>]
  /\ UNCHANGED <<running, users, acts, deaths, promised, kept, trailVars>>

(* The file cannot be opened. *)
SaveFails(h) ==
  /\ act[h].step = "save"
  /\ failed' = TRUE
  /\ act' = [act EXCEPT ![h].step = "answer"]
  /\ UNCHANGED <<running, users, dbFile, acts, deaths, promised, kept, trailVars>>

(* The handler answers; nobody else has changed the account since, or has    *)
(* yet to answer for that.                                                   *)
Reply(h) ==
  LET n == act[h].name
      current == n # Nobody /\ \A g \in Handlers \ {h} : act[g].name # n
  IN  /\ act[h].step = "answer"
      /\ IF act[h].audit THEN LogAction ELSE UNCHANGED trailVars
      /\ act' = [act EXCEPT ![h] = NoAct]
      /\ promised' = IF /\ current /\ Exists(n)
                        /\ act[h].role = "user" /\ users[FirstOf(n)].role = "user"
                     THEN [promised EXCEPT ![n] = "user"] ELSE promised
      /\ UNCHANGED <<running, users, dbFile, acts, deaths, failed, kept>>
-----------------------------------------------------------------------------
Die ==
  /\ running /\ deaths < MaxDeaths /\ deaths' = deaths + 1
  /\ running' = FALSE
  /\ users' = <<>> /\ act' = [h \in Handlers |-> NoAct]
  /\ kept' = (kept /\ Unread /\ ~failed)
  /\ TrailCrash
  /\ UNCHANGED <<dbFile, acts, promised, failed>>

(* load: whoever has the administrator's name of the configuration, and every *)
(* super administrator, gets that name; without accounts there is one.       *)
Synced(us, admin) ==
  [i \in DOMAIN us |-> IF us[i].name = admin \/ us[i].role = "super_admin"
                       THEN [us[i] EXCEPT !.name = admin] ELSE us[i]]

Start(admin) ==
  /\ ~running /\ running' = TRUE
  /\ users' = IF dbFile = Torn \/ dbFile = <<>> THEN First(admin) ELSE Synced(dbFile, admin)
  /\ LoadTrail
  /\ UNCHANGED <<dbFile, act, acts, deaths, promised, failed, kept>>

AccountsNext ==
  \/ \E h \in Handlers :
       \/ \E n \in Names :
            \/ handleRegister(h, n) \/ DeleteUser(h, n) \/ handleLogin(h, n)
            \/ \E role \in Roles : CreateUser(h, n, role) \/ UpdateUser(h, n, role)
       \/ SaveOther(h)
       \/ OpenStorage(h) \/ WriteStorage(h) \/ SaveFails(h) \/ Reply(h)
  \/ Die
  \/ \E admin \in Names : Start(admin)
  \/ SaverNext /\ UNCHANGED <<running, users, dbFile, act, acts, deaths, promised, failed, kept>>

AccountsSpec == AccountsInit /\ [][AccountsNext]_accountVars
-----------------------------------------------------------------------------
(* An account whose handler has answered is there, with the role it was      *)
(* given, until the next request about it, however many requests change and  *)
(* save other accounts meanwhile and however often the process dies and      *)
(* starts with another administrator, provided that no crash cuts the file   *)
(* off or follows a save that has failed.                                    *)
AccountsKept ==
  running /\ kept =>
    \A n \in Names : promised[n] # "none" =>
      \E i \in DOMAIN users : users[i].name = n /\ users[i].role = promised[n]
===============================================================================
