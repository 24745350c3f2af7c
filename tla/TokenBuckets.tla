----------------------------- MODULE TokenBuckets -----------------------------
(***************************************************************************)
(* The limiter of request rates per address (perf/pool.go): a bucket made  *)
(* by the first request of an address, and the reload that gives new rates *)
(* to the limiter and to the buckets there are, one shard at a time.       *)
(*                                                                         *)
(* A shard is modelled with one address.  How tokens are earned and spent  *)
(* is what PenaltyBuckets models; here it is only whether the bucket is    *)
(* empty, which any rate may bring about.                                  *)
(***************************************************************************)
EXTENDS Integers

CONSTANTS
  Callers,    \* goroutines that call Allow
  Nobody,     \* holds no lock
  Rates,      \* rates and bursts of the configurations; 0 leaves the old one
  MaxSets     \* bound: calls of SetRate

ASSUME BucketAssumption ==
  /\ Nobody \notin Callers /\ Rates \subseteq Nat /\ Rates \ {0} # {}
  /\ MaxSets \in Nat

VARIABLES
  rate, capacity,   \* of the limiter
  tb,               \* the bucket in the shard, NoBucket for none
  lock,             \* who holds the shard for writing, Nobody for none
  pc,               \* of a caller: idle, create, store
  got,              \* the rates a caller that creates a bucket has read
  setting,          \* the rate SetRate has yet to give to the shard, or NoRate
  sets

bucketVars == <<rate, capacity, tb, lock, pc, got, setting, sets>>

NoRate   == -1
NoBucket == [rate |-> NoRate, capacity |-> NoRate, empty |-> FALSE]
Exists   == tb # NoBucket

BucketTypeOK ==
  /\ rate \in Rates \ {0} /\ capacity \in Rates \ {0}
  /\ tb \in {NoBucket} \cup [rate : Rates \ {0}, capacity : Rates \ {0}, empty : BOOLEAN]
  /\ lock \in Callers \cup {Nobody}
  /\ pc \in [Callers -> {"idle", "create", "store"}]
  /\ got \in [Callers -> [rate : Rates \ {0}, capacity : Rates \ {0}]]
  /\ \A c \in Callers : pc[c] = "store" <=> lock = c
  /\ setting \in Rates \cup {NoRate}
  /\ sets \in 0..MaxSets

BucketInit ==
  /\ rate \in Rates \ {0} /\ capacity \in Rates \ {0}
  /\ tb = NoBucket /\ lock = Nobody
  /\ pc = [c \in Callers |-> "idle"]
  /\ got = [c \in Callers |-> [rate |-> rate, capacity |-> capacity]]
  /\ setting = NoRate /\ sets = 0
-----------------------------------------------------------------------------
(* AllowN: a token is taken, if there is one; the last may empty the bucket. *)
Take(b) == {b, [b EXCEPT !.empty = TRUE], [b EXCEPT !.empty = FALSE]}

(* Allow finds the bucket under the read lock, or none. *)
AllowLook(c) ==
  /\ pc[c] = "idle" /\ lock = Nobody
  /\ \/ Exists /\ tb' \in Take(tb) /\ UNCHANGED pc
     \/ ~Exists /\ pc' = [pc EXCEPT ![c] = "create"] /\ UNCHANGED tb
  /\ UNCHANGED <<rate, capacity, lock, got, setting, sets>>

(* Under the write lock it looks again, and reads the limiter's rates only   *)
(* then.                                                                     *)
AllowCreate(c) ==
  /\ pc[c] = "create" /\ lock = Nobody
  /\ \/ /\ Exists
        /\ tb' \in Take(tb) /\ pc' = [pc EXCEPT ![c] = "idle"]
        /\ UNCHANGED <<lock, got>>
     \/ /\ ~Exists
        /\ lock' = c /\ pc' = [pc EXCEPT ![c] = "store"]
        /\ got' = [got EXCEPT ![c] = [rate |-> rate, capacity |-> capacity]]
        /\ UNCHANGED tb
  /\ UNCHANGED <<rate, capacity, setting, sets>>

AllowStore(c) ==
  /\ pc[c] = "store"
  /\ tb' = [rate |-> got[c].rate, capacity |-> got[c].capacity, empty |-> FALSE]
  /\ lock' = Nobody /\ pc' = [pc EXCEPT ![c] = "idle"]
  /\ UNCHANGED <<rate, capacity, got, setting, sets>>

(* SetRate of a reload: the limiter first ... *)
SetRate(rps, burst) ==
  /\ setting = NoRate /\ sets < MaxSets /\ sets' = sets + 1
  /\ rate' = IF rps > 0 THEN rps ELSE rate
  /\ capacity' = IF burst > 0 THEN burst ELSE capacity
  /\ setting' = rps
  /\ UNCHANGED <<tb, lock, pc, got>>

(* ... then the buckets of a shard, which keep their capacity. *)
SetShard ==
  /\ setting # NoRate /\ lock = Nobody
  /\ setting' = NoRate
  /\ tb' = IF Exists /\ setting > 0 THEN [tb EXCEPT !.rate = setting] ELSE tb
  /\ UNCHANGED <<rate, capacity, lock, pc, got, sets>>

(* cleanupLoop drops what nobody has used for ten minutes. *)
CleanupShard ==
  /\ Exists /\ lock = Nobody
  /\ tb' = NoBucket
  /\ UNCHANGED <<rate, capacity, lock, pc, got, setting, sets>>

BucketNext ==
  \/ \E c \in Callers : AllowLook(c) \/ AllowCreate(c) \/ AllowStore(c)
  \/ \E rps, burst \in Rates : SetRate(rps, burst)
  \/ SetShard \/ CleanupShard

BucketSpec == BucketInit /\ [][BucketNext]_bucketVars
-----------------------------------------------------------------------------
(* When SetRate has returned, no address is held to an older rate, although *)
(* requests create buckets while it runs: whoever reads the old rate holds  *)
(* the shard that SetRate has yet to update, and has stored by then.        *)
NewRateApplies == setting = NoRate /\ Exists => tb.rate = rate
===============================================================================
