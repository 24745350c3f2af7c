------------------------------ MODULE AuditTrail ------------------------------
(***************************************************************************)
(* The audit trail of the dashboard (api/audit.go): entries in memory, the *)
(* newest of which are kept, and the goroutines that write them to a file, *)
(* one for each entry, beside each other.                                  *)
(*                                                                         *)
(* An entry is its number.  os.WriteFile truncates the file and then       *)
(* writes from its beginning, each goroutine through a descriptor of its   *)
(* own: over a longer text that another has written meanwhile it leaves    *)
(* the end of that text.                                                   *)
(***************************************************************************)
EXTENDS Integers, FiniteSets, FiniteSetsExt

CONSTANTS
  Savers,     \* bound: goroutines that write at the same time
  Cap,        \* entries kept, 5000
  Torn,       \* the text of a file that cannot be read
  MaxEntries  \* bound: entries

ASSUME TrailAssumption ==
  /\ Cap \in Nat \ {0} /\ MaxEntries \in Nat
  /\ \A es \in SUBSET (1..MaxEntries) : Torn # es

VARIABLES
  entries,    \* al.entries
  trailFile,  \* data/audit_logs.json
  extent,     \* how long it is, in entries
  saver,      \* of a goroutine: [stage, data]
  logged      \* how many entries there have been

trailVars == <<entries, trailFile, extent, saver, logged>>

Resting == [stage |-> "idle", data |-> {}]

Trails == {es \in SUBSET (1..logged) : Cardinality(es) <= Cap}

TrailTypeOK ==
  /\ logged \in 0..MaxEntries
  /\ entries \in Trails /\ trailFile \in Trails \cup {Torn} /\ extent \in 0..Cap
  /\ saver \in [Savers -> [stage : {"idle", "start", "open", "write"}, data : Trails]]

TrailInit ==
  /\ entries = {} /\ trailFile = {} /\ extent = 0 /\ logged = 0
  /\ saver = [s \in Savers |-> Resting]
-----------------------------------------------------------------------------
Newest(es) == IF Cardinality(es) > Cap THEN es \ {Min(es)} ELSE es

(* LogAction puts an entry in front and starts a goroutine.                  *)
LogAction ==
  /\ logged < MaxEntries /\ logged' = logged + 1
  /\ entries' = Newest(entries \cup {logged + 1})
  /\ \E s \in Savers : /\ saver[s].stage = "idle"
                       /\ saver' = [saver EXCEPT ![s].stage = "start"]
  /\ UNCHANGED <<trailFile, extent>>

(* saveAsync reads the entries under the lock ... *)
TakeEntries(s) ==
  /\ saver[s].stage = "start"
  /\ saver' = [saver EXCEPT ![s] = [stage |-> "open", data |-> entries]]
  /\ UNCHANGED <<entries, trailFile, extent, logged>>

(* ... and writes them without it. *)
OpenTrail(s) ==
  /\ saver[s].stage = "open"
  /\ saver' = [saver EXCEPT ![s].stage = "write"]
  /\ trailFile' = Torn /\ extent' = 0
  /\ UNCHANGED <<entries, logged>>

(* Texts of equally many entries may be of any length.                       *)
WriteTrail(s) ==
  LET mine == saver[s].data
      size == Cardinality(mine)
  IN  /\ saver[s].stage = "write"
      /\ saver' = [saver EXCEPT ![s] = Resting]
      /\ \/ size >= extent /\ trailFile' = mine /\ extent' = size
         \/ size <= extent /\ mine # trailFile /\ trailFile' = Torn /\ UNCHANGED extent
      /\ UNCHANGED <<entries, logged>>

TrailCrash ==
  /\ entries' = {} /\ saver' = [s \in Savers |-> Resting]
  /\ UNCHANGED <<trailFile, extent, logged>>

(* load: a file that cannot be read is an empty trail. *)
LoadTrail ==
  /\ entries' = IF trailFile = Torn THEN {} ELSE trailFile
  /\ UNCHANGED <<trailFile, extent, saver, logged>>

SaverNext == \E s \in Savers : TakeEntries(s) \/ OpenTrail(s) \/ WriteTrail(s)
-----------------------------------------------------------------------------
(* audit.go:28 says "AuditLogger manages persistent audit logs": once the    *)
(* goroutines have finished, the file has every entry that memory has, and   *)
(* a restart finds it.                                                       *)
TrailPersistent ==
  (\A s \in Savers : saver[s].stage = "idle") /\ entries # {} =>
    trailFile # Torn /\ entries \subseteq trailFile
===============================================================================
