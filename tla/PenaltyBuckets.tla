---------------------------- MODULE PenaltyBuckets ----------------------------
(***************************************************************************)
(* The rate limiter of the detection engine (detection/detection.go): one  *)
(* bucket of tokens for an address, a penalty for whoever empties it, and  *)
(* the reload and the cleanup that drop buckets which requests still hold. *)
(* The cleanup looks at a bucket and deletes its key in separate steps.    *)
(*                                                                         *)
(* Only one address is modelled, since no operation looks at two.  What a  *)
(* bucket earns between two uses is added at the second one, at the rate   *)
(* that holds then.                                                        *)
(***************************************************************************)
EXTENDS Integers

CONSTANTS
  Procs,         \* goroutines that ask for the address
  MaxBuckets,    \* bound: buckets that may be made
  Limits,        \* the rates and bursts of the configurations
  Lenience,      \* tokens and tokens per tick a quiet site adds: 5 and 2
  Penalty,       \* ticks in the penalty box, 10 s
  Repeated,      \* violations above which a breach is a ban, 3
  Spam,          \* violations above which a penalised address is banned, 50
  IdleTTL,       \* ticks after which an unused bucket is dropped, 5 min
  MaxTime,       \* bound: ticks
  MaxUpdates     \* bound: reloads

ASSUME PenaltyAssumption ==
  /\ MaxBuckets \in Nat \ {0}
  /\ Limits \subseteq [rate : Nat \ {0}, burst : Nat \ {0}]
  /\ Lenience \in [tokens : Nat, rate : Nat]
  /\ Penalty \in Nat \ {0} /\ Spam \in Nat /\ Repeated \in 0..Spam
  /\ IdleTTL \in Nat /\ Penalty <= IdleTTL
  /\ MaxTime \in Nat /\ MaxUpdates \in Nat

VARIABLES
  limits,      \* e.cfg.Protection.RateLimit
  counters,    \* the bucket of the address, 0 for none
  bucket,      \* the buckets made so far, those that were dropped included
  made,        \* how many they are
  phase,       \* of a request: idle, store, take
  read,        \* the limits a request has read
  held,        \* the bucket a request holds
  update,      \* of UpdateConfig: idle, clear
  swept,       \* the bucket CleanupSessions looks at, 0 for none
  doomed,      \* it found that bucket unused and is about to delete the key
  time,        \* ticks since the start
  banned,      \* the callers have banned the address for its violations
  passed,      \* history: requests let through by the bucket of the address,
               \* until the first reload
  straddled,   \* history: a request has read its limits before a reload
  raced,       \* history: cleanups that deleted a bucket in use again
  updates

limiter == <<limits, counters, bucket, made>>
request == <<phase, read, held>>
sweep == <<swept, doomed>>
penaltyPast == <<banned, passed, straddled, raced>>
penaltyVars == <<limiter, request, update, sweep, time, penaltyPast, updates>>

Ids == 1..MaxBuckets
Min2(a, b) == IF a < b THEN a ELSE b

Buckets == [max : Nat, rate : Nat, tokens : Nat, idle : Nat,
            penalty : 0..Penalty, violations : 0..Spam + 1]
NoLimits == [rate |-> 0, burst |-> 0]
Fresh(l) == [max |-> l.burst, rate |-> l.rate, tokens |-> l.burst, idle |-> 0,
             penalty |-> 0, violations |-> 0]

PenaltyTypeOK ==
  /\ limits \in Limits
  /\ counters \in 0..made /\ made \in Ids \cup {0}
  /\ bucket \in [Ids -> Buckets]
  /\ phase \in [Procs -> {"idle", "store", "take"}]
  /\ read \in [Procs -> Limits \cup {NoLimits}]
  /\ held \in [Procs -> Ids \cup {0}]
  /\ \A p \in Procs : phase[p] = "take" => held[p] \in 1..made
  /\ update \in {"idle", "clear"}
  /\ swept \in 0..made /\ doomed \in BOOLEAN
  /\ time \in 0..MaxTime
  /\ banned \in BOOLEAN /\ straddled \in BOOLEAN
  /\ passed \in Nat /\ raced \in Nat
  /\ updates \in 0..MaxUpdates

PenaltyInit ==
  /\ limits \in Limits
  /\ counters = 0 /\ made = 0
  /\ bucket = [i \in Ids |-> Fresh(NoLimits)]
  /\ phase = [p \in Procs |-> "idle"]
  /\ read = [p \in Procs |-> NoLimits] /\ held = [p \in Procs |-> 0]
  /\ update = "idle" /\ swept = 0 /\ doomed = FALSE /\ time = 0
  /\ banned = FALSE /\ passed = 0 /\ straddled = FALSE /\ raced = 0
  /\ updates = 0
-----------------------------------------------------------------------------
(* CheckRateLimit reads the configuration and looks for the bucket. *)
LoadBucket(p) ==
  /\ phase[p] = "idle"
  /\ \/ /\ counters # 0
        /\ phase' = [phase EXCEPT ![p] = "take"]
        /\ held' = [held EXCEPT ![p] = counters]
        /\ UNCHANGED read
     \/ /\ counters = 0
        /\ phase' = [phase EXCEPT ![p] = "store"]
        /\ read' = [read EXCEPT ![p] = limits]
        /\ UNCHANGED held
  /\ UNCHANGED <<limiter, update, sweep, time, penaltyPast, updates>>

(* LoadOrStore: the first to store wins. *)
StoreBucket(p) ==
  /\ phase[p] = "store"
  /\ phase' = [phase EXCEPT ![p] = "take"]
  /\ read' = [read EXCEPT ![p] = NoLimits]
  /\ IF counters # 0
     THEN /\ held' = [held EXCEPT ![p] = counters]
          /\ UNCHANGED <<counters, bucket, made>>
     ELSE /\ made + 1 \in Ids
          /\ made' = made + 1 /\ counters' = made + 1
          /\ bucket' = [bucket EXCEPT ![made + 1] = Fresh(read[p])]
          /\ held' = [held EXCEPT ![p] = made + 1]
  /\ UNCHANGED <<limits, update, sweep, time, penaltyPast, updates>>

(* What a bucket holds when it is used; a quiet site is lenient. *)
Refilled(b, lenient) ==
  LET extra == IF lenient THEN Lenience ELSE [tokens |-> 0, rate |-> 0]
  IN  Min2(b.tokens + b.idle * (b.rate + extra.rate), b.max + extra.tokens)

Violated(b) == Min2(b.violations + 1, Spam + 1)

(* A request during the penalty only counts as a violation. *)
Penalised(b) == [b EXCEPT !.violations = Violated(b)]

Breached(b) ==
  [b EXCEPT !.tokens = 0, !.idle = 0, !.penalty = Penalty, !.violations = Violated(b)]

Spent(b, tokens) == [b EXCEPT !.tokens = tokens - 1, !.idle = 0]

Used(b, tokens) ==
  IF b.penalty > 0 THEN Penalised(b)
  ELSE IF tokens = 0 THEN Breached(b) ELSE Spent(b, tokens)

LetsPass(b, tokens) == b.penalty = 0 /\ tokens >= 1

BanRequired(b, tokens) ==
  /\ ~LetsPass(b, tokens)
  /\ Violated(b) > IF b.penalty > 0 THEN Spam ELSE Repeated

(* The rest of CheckRateLimit, under the bucket's lock, with what the caller *)
(* does about its status (pipeline.go and server.go ban the address).        *)
TakeToken(p) ==
  LET b == bucket[held[p]] IN
  /\ phase[p] = "take"
  /\ phase' = [phase EXCEPT ![p] = "idle"] /\ held' = [held EXCEPT ![p] = 0]
  /\ \E lenient \in BOOLEAN :
       LET tokens == Refilled(b, lenient)
           one    == IF LetsPass(b, tokens) THEN 1 ELSE 0
       IN  /\ bucket' = [bucket EXCEPT ![held[p]] = Used(b, tokens)]
           /\ banned' = (banned \/ BanRequired(b, tokens))
           /\ passed' = IF held[p] = counters /\ updates = 0 THEN passed + one ELSE passed
  /\ UNCHANGED <<limits, counters, made, read, update, sweep, time, straddled, raced, updates>>
-----------------------------------------------------------------------------
(* Mutant of UpdateConfig: the buckets stay. *)
UpdateInPlace(new) ==
  /\ update = "idle" /\ updates < MaxUpdates /\ new # limits
  /\ limits' = new /\ updates' = updates + 1
  /\ straddled' = (straddled \/ \E p \in Procs : phase[p] # "idle")
  /\ UNCHANGED <<counters, bucket, made, request, update, sweep, time, banned, passed, raced>>

(* UpdateConfig exchanges the configuration, then drops the buckets. *)
UpdateConfig(new) ==
  /\ update = "idle" /\ updates < MaxUpdates /\ new # limits
  /\ limits' = new /\ update' = "clear" /\ updates' = updates + 1
  /\ straddled' = (straddled \/ \E p \in Procs : phase[p] # "idle")
  /\ UNCHANGED <<counters, bucket, made, request, sweep, time, banned, passed, raced>>

ClearBuckets ==
  /\ update = "clear"
  /\ update' = "idle" /\ counters' = 0
  /\ UNCHANGED <<limits, bucket, made, request, sweep, time, penaltyPast, updates>>

(* Mutant of Expired: whoever is no longer punished starts afresh. *)
ExpiredEarly(b) == b.penalty = 0

Expired(b) == b.idle > IdleTTL

(* CleanupSessions ranges over the buckets; it comes to that of the address, *)
RangeBucket ==
  /\ swept = 0 /\ counters # 0
  /\ swept' = counters
  /\ UNCHANGED <<limiter, request, update, doomed, time, penaltyPast, updates>>

(* reads LastRefill without the bucket's lock (whichever words of the time   *)
(* it sees, time.Since looks at one of them only)                            *)
CheckIdle ==
  /\ swept # 0 /\ ~doomed
  /\ IF Expired(bucket[swept])
     THEN doomed' = TRUE /\ UNCHANGED swept
     ELSE swept' = 0 /\ UNCHANGED doomed
  /\ UNCHANGED <<limiter, request, update, time, penaltyPast, updates>>

(* and deletes the key, with whatever bucket it has by then.                 *)
DropIdle ==
  /\ doomed
  /\ counters' = 0 /\ swept' = 0 /\ doomed' = FALSE
  /\ raced' = IF counters # 0 /\ ~Expired(bucket[counters]) THEN raced + 1 ELSE raced
  /\ UNCHANGED <<limits, bucket, made, request, update, time, banned, passed, straddled, updates>>

PenaltyTick ==
  /\ time < MaxTime /\ time' = time + 1
  /\ bucket' = [i \in Ids |->
       IF i > made THEN bucket[i]
       ELSE [bucket[i] EXCEPT !.idle = @ + 1, !.penalty = IF @ = 0 THEN 0 ELSE @ - 1]]
  /\ UNCHANGED <<limits, counters, made, request, update, sweep, penaltyPast, updates>>

(* The bounds: nothing is modelled after the last tick or bucket. *)
PenaltyHorizon ==
  /\ time = MaxTime \/ made + 1 \notin Ids
  /\ UNCHANGED penaltyVars

PenaltyNext ==
  \/ \E p \in Procs : LoadBucket(p) \/ StoreBucket(p) \/ TakeToken(p)
  \/ \E new \in Limits : UpdateConfig(new)
  \/ ClearBuckets \/ RangeBucket \/ CheckIdle \/ DropIdle \/ PenaltyTick \/ PenaltyHorizon

PenaltySpec == PenaltyInit /\ [][PenaltyNext]_penaltyVars
-----------------------------------------------------------------------------
(* Until the limits are reloaded, an address gets through no more than its  *)
(* burst and what its rate has earned since the start, at the most lenient, *)
(* as long as a burst is earned before a bucket is idle for long enough:    *)
(* the cleanup that drops a bucket, and with it what was spent and the      *)
(* penalty, gives nothing away, but for one burst each time a request has   *)
(* used the bucket between the cleanup's look at it and the deletion.       *)
(* Requests that hold a dropped bucket are apart.                           *)
NoMoreThanEarned ==
  /\ updates = 0
  /\ IdleTTL * limits.rate >= limits.burst
  => passed <= limits.burst + raced * limits.burst
               + Lenience.tokens + time * (limits.rate + Lenience.rate)

(* After a reload every address is held to the new limits at once, unless   *)
(* one of its requests was being judged during the reload: that request may *)
(* put a bucket of the old limits back (the code means to exclude it).      *)
NewLimitsApply ==
  update = "idle" /\ ~straddled /\ counters # 0
  => bucket[counters].max = limits.burst /\ bucket[counters].rate = limits.rate
===============================================================================
