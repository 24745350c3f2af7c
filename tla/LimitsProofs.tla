----------------------------- MODULE LimitsProofs -----------------------------
(* Theorems about the limiters of an address, for any number of connections, *)
(* requests, buckets and reloads.  The limiters share no variable: each      *)
(* theorem is about the specification of the one, or of the two, it names.   *)
EXTENDS MCLimits, FiniteSetTheorems, TLAPS

(***************************************************************************)
(* The windows of an IPState, for every limit, every resolution of the     *)
(* clock and every bound.                                                  *)
(***************************************************************************)
LEMMA WindowsTypeInit == WindowInit => WindowTypeOK
<1> SUFFICES ASSUME WindowInit PROVE WindowTypeOK
  OBVIOUS
<1>1. trailed \in BOOLEAN
  BY DEF WindowInit
<1> QED
  BY <1>1, WindowsAssumption DEF WindowInit, WindowTypeOK

LEMMA WindowsTypeNext == WindowTypeOK /\ [WindowNext]_windowVars => WindowTypeOK'
<1> SUFFICES ASSUME WindowTypeOK, [WindowNext]_windowVars PROVE WindowTypeOK'
  OBVIOUS
<1> USE WindowsAssumption
<1>1. ASSUME NEW kind \in Kinds, Event(kind)
      PROVE  /\ events' \in 0..MaxEvents /\ kinds' \subseteq Kinds
             /\ UNCHANGED <<sec, sub, fastSec, trailed>>
  BY <1>1 DEF Event, WindowTypeOK, clock
<1>2. CASE CheckConnRate
  <2>1. /\ events' \in 0..MaxEvents /\ kinds' \subseteq Kinds
        /\ UNCHANGED <<sec, sub, fastSec, trailed>>
    BY <1>2, <1>1 DEF CheckConnRate, Kinds
  <2>2. cps' \in Nat /\ lastSec' \in Int /\ lastSub' \in 0..SubTicks - 1
    BY <1>2 DEF CheckConnRate, WindowTypeOK, reset
  <2>3. conns' \in [0..SubTicks - 1 -> Nat]
    BY <1>2 DEF CheckConnRate, WindowTypeOK
  <2> QED
    BY <1>2, <2>1, <2>2, <2>3 DEF CheckConnRate, WindowTypeOK
<1>3. CASE LimitRequest
  <2>1. /\ events' \in 0..MaxEvents /\ kinds' \subseteq Kinds
        /\ UNCHANGED <<sec, sub, fastSec, trailed>>
    BY <1>3, <1>1 DEF LimitRequest, Kinds
  <2> QED
    BY <1>3, <2>1 DEF LimitRequest, StartSecond, WindowTypeOK, reset
<1>4. CASE ChallengePage
  <2>1. /\ events' \in 0..MaxEvents /\ kinds' \subseteq Kinds
        /\ UNCHANGED <<sec, sub, fastSec, trailed>>
    BY <1>4, <1>1 DEF ChallengePage, Kinds
  <2> QED
    BY <1>4, <2>1 DEF ChallengePage, StartSecond, WindowTypeOK, reset
<1>5. CASE Refresh
  BY <1>5 DEF Refresh, NewFastSecond, WindowTypeOK, reset, counts, used
<1>6. CASE WindowTick
  <2>1. conns' \in [0..SubTicks - 1 -> Nat]
    BY <1>6 DEF WindowTick, WindowTypeOK
  <2>2. trailed' \in BOOLEAN
    BY <1>6 DEF WindowTick, WindowTypeOK
  <2>3. /\ sec' \in 0..MaxSec /\ sub' \in 0..SubTicks - 1
        /\ fastSec' \in {sec' - 1, sec'} /\ reqs' \in Nat /\ pages' \in Nat
    <3>1. CASE sub < SubTicks - 1 /\ sub' = sub + 1 /\ UNCHANGED <<sec, fastSec, reqs, pages>>
      BY <3>1 DEF WindowTypeOK
    <3>2. CASE sub' = 0 /\ sec < MaxSec /\ sec' = sec + 1 /\ NewFastSecond(sec + 1)
      BY <3>2 DEF NewFastSecond, WindowTypeOK
    <3>3. CASE /\ sub' = 0 /\ sec < MaxSec /\ sec' = sec + 1 /\ fastSec = sec
               /\ UNCHANGED <<fastSec, reqs, pages>>
      BY <3>3 DEF WindowTypeOK
    <3> QED
      BY <1>6, <3>1, <3>2, <3>3, Zenon DEF WindowTick
  <2>4. UNCHANGED <<lastSec, lastSub, cps, hits, chHits, kinds>>
    BY <1>6 DEF WindowTick, reset, counts
  <2>5. events' \in 0..MaxEvents
    BY <1>6 DEF WindowTick
  <2> QED
    BY <2>1, <2>2, <2>3, <2>4, <2>5 DEF WindowTypeOK
<1>7. CASE UNCHANGED windowVars
  BY <1>7 DEF windowVars, clock, reset, counts, past, used, WindowTypeOK
<1> QED
  BY <1>2, <1>3, <1>4, <1>5, <1>6, <1>7 DEF WindowNext, WindowHorizon

(* The windows' variables always have their types. *)
THEOREM WindowsTypeCorrect == WindowSpec => []WindowTypeOK
BY WindowsTypeInit, WindowsTypeNext, PTL DEF WindowSpec
-----------------------------------------------------------------------------
(* The two clocks agree, or only the handlers of the cached one have run.   *)
OneClock == ~trailed \/ "connection" \notin kinds

(* A clock that has never trailed shows the right second.                   *)
ClockOK == ~trailed => fastSec = sec

(* Once something was counted in the current second, the shared instant     *)
(* lies in that second: no handler will start the window again.             *)
InSecond == OneClock /\ (reqs > 0 \/ pages > 0) => lastSec = fastSec

FloodInv == WindowTypeOK /\ ClockOK /\ InSecond /\ NoFloodMissed

LEMMA FloodNext == FloodInv /\ [WindowNext]_windowVars => FloodInv'
<1> SUFFICES ASSUME FloodInv, [WindowNext]_windowVars
             PROVE  ClockOK' /\ InSecond' /\ NoFloodMissed'
  BY WindowsTypeNext DEF FloodInv
<1> USE DEF FloodInv, ClockOK, InSecond, NoFloodMissed, OneClock
<1>0. ASSUME NEW kind, Event(kind)
      PROVE  /\ UNCHANGED <<sec, sub, fastSec, trailed>>
             /\ kinds' = kinds \cup {kind}
  BY <1>0 DEF Event, clock
<1>1. CASE CheckConnRate
  <2>1. UNCHANGED <<fastSec, sec, trailed, reqs, pages, hits, chHits>> /\ "connection" \in kinds'
    BY <1>0, <1>1 DEF CheckConnRate
  <2>2. lastSec' = sec \/ lastSec' = lastSec
    BY <1>1 DEF CheckConnRate, reset
  <2>3. kinds \subseteq kinds'
    BY <1>0, <1>1 DEF CheckConnRate
  <2> QED
    BY <2>1, <2>2, <2>3
<1>2. CASE LimitRequest
  BY <1>2, <1>0 DEF LimitRequest, NewSecond, StartSecond, WindowTypeOK, reset
<1>3. CASE ChallengePage
  BY <1>3, <1>0 DEF ChallengePage, NewSecond, StartSecond, WindowTypeOK, reset
<1>4. CASE Refresh
  BY <1>4 DEF Refresh, NewFastSecond, WindowTypeOK, counts, used
<1>5. CASE WindowTick
  BY <1>5 DEF WindowTick, NewFastSecond, WindowTypeOK, reset, counts
<1>6. CASE UNCHANGED windowVars
  BY <1>6 DEF windowVars, clock, reset, counts, past, used
<1> QED
  BY <1>1, <1>2, <1>3, <1>4, <1>5, <1>6 DEF WindowNext, WindowHorizon

(* Although three handlers with two clocks restart one window, no request   *)
(* and no page of the current second goes uncounted, provided that the two  *)
(* clocks agree or that only the handlers of the cached clock are at work.  *)
THEOREM FloodsAreSeen == WindowSpec => []NoFloodMissed
<1>1. WindowInit => FloodInv
  BY WindowsTypeInit DEF WindowInit, FloodInv, ClockOK, InSecond, NoFloodMissed
<1>2. FloodInv => NoFloodMissed
  BY DEF FloodInv
<1> QED
  BY <1>1, <1>2, FloodNext, PTL DEF WindowSpec
-----------------------------------------------------------------------------
(***************************************************************************)
(* Connections.                                                            *)
(***************************************************************************)
(* The connections are finitely many, and one is counted only once its       *)
(* acceptance has been.                                                      *)
CountInv ==
  /\ ConnTypeOK /\ IsFiniteSet(counted)
  /\ \A c \in counted : stage[c] \notin {"none", "accepted"}
  /\ NeverOvercounted

LEMMA CountInit == ConnInit => CountInv
<1> SUFFICES ASSUME ConnInit PROVE CountInv
  OBVIOUS
<1> USE ConnAssumption DEF ConnInit
<1>1. ConnTypeOK
  <2>1. exempt \in BOOLEAN /\ connBanned \in BOOLEAN
    OBVIOUS
  <2> QED
    BY <2>1 DEF ConnTypeOK
<1>2. IsFiniteSet(counted) /\ Cardinality(counted) = 0
  BY FS_EmptySet
<1> QED
  BY <1>1, <1>2 DEF CountInv, NeverOvercounted

LEMMA CountNext == CountInv /\ [ConnNext]_connVars => CountInv'
<1> SUFFICES ASSUME CountInv, [ConnNext]_connVars PROVE CountInv'
  OBVIOUS
<1> USE ConnAssumption DEF CountInv, ConnTypeOK, NeverOvercounted, At
<1>1. Cardinality(counted) \in Nat
  BY FS_CardinalityType
<1>2. ASSUME NEW c \in Conns, Accept(c) PROVE CountInv'
  BY <1>2 DEF Accept
<1>3. ASSUME NEW c \in Conns, IncrementConnCount(c) PROVE CountInv'
  <2>1. c \notin counted
    BY <1>3 DEF IncrementConnCount
  <2>2. /\ IsFiniteSet(counted')
        /\ Cardinality(counted') = Cardinality(counted) + 1
    BY <1>3, <2>1, FS_AddElement DEF IncrementConnCount
  <2> QED
    BY <1>1, <1>3, <2>2 DEF IncrementConnCount
<1>4. ASSUME NEW c \in Conns, ConnClosed(c) PROVE CountInv'
  <2>1. CASE exempt
    BY <1>4, <2>1 DEF ConnClosed
  <2>2. CASE ~exempt
    <3> DEFINE rest == counted \ {c}
    <3>1. /\ IsFiniteSet(rest)
          /\ Cardinality(rest) = IF c \in counted THEN Cardinality(counted) - 1
                                                 ELSE Cardinality(counted)
      BY FS_RemoveElement
    <3>2. counted' = rest
      BY <1>4, <2>2 DEF ConnClosed
    <3>3. /\ IsFiniteSet(counted')
          /\ Cardinality(counted') >= Cardinality(counted) - 1
      BY <1>1, <3>1, <3>2
    <3>4. Cardinality(counted') \in Nat
      BY <3>3, FS_CardinalityType
    <3> QED
      BY <1>1, <1>4, <2>2, <3>3, <3>4 DEF ConnClosed
  <2> QED
    BY <2>1, <2>2
<1>5. ASSUME NEW c \in Conns, Clamp(c) PROVE CountInv'
  BY <1>1, <1>5 DEF Clamp
<1>6. ASSUME NEW c \in Conns, JudgeConnCount(c) PROVE CountInv'
  BY <1>6 DEF JudgeConnCount
<1>7. CASE ForgetState
  BY <1>1, <1>7 DEF ForgetState
<1>8. CASE ReloadExempt
  BY <1>8 DEF ReloadExempt
<1>9. CASE UNCHANGED connVars
  BY <1>9 DEF connVars
<1> QED
  BY <1>2, <1>3, <1>4, <1>5, <1>6, <1>7, <1>8, <1>9 DEF ConnNext, ConnsUsed

(* An address has at least as many counted connections as its counter says, *)
(* until a reload exempts it or no longer does: nobody is refused or banned  *)
(* for connections that are gone.                                            *)
THEOREM NobodyOvercounted == ConnSpec => []NeverOvercounted
<1>1. CountInv => NeverOvercounted
  BY DEF CountInv
<1> QED
  BY CountInit, CountNext, <1>1, PTL DEF ConnSpec
-----------------------------------------------------------------------------
(***************************************************************************)
(* Token buckets.                                                          *)
(***************************************************************************)
(* A locked shard has no bucket.  A SetRate that brings a rate has given it  *)
(* to the limiter; while there is none, the bucket has the limiter's rate,   *)
(* and so has whoever is about to store one.                                 *)
RateInv ==
  /\ BucketTypeOK
  /\ lock # Nobody => ~Exists
  /\ setting > 0 => rate = setting
  /\ setting <= 0 => /\ Exists => tb.rate = rate
                     /\ lock # Nobody => got[lock].rate = rate

LEMMA RateInit == BucketInit => RateInv
<1> SUFFICES ASSUME BucketInit PROVE RateInv
  OBVIOUS
<1> USE BucketAssumption DEF BucketInit, NoRate
<1>1. got \in [Callers -> [rate : Rates \ {0}, capacity : Rates \ {0}]]
  OBVIOUS
<1>2. BucketTypeOK
  BY <1>1 DEF BucketTypeOK
<1> QED
  BY <1>2 DEF RateInv, Exists

LEMMA RateNext == RateInv /\ [BucketNext]_bucketVars => RateInv'
<1> SUFFICES ASSUME RateInv, [BucketNext]_bucketVars PROVE RateInv'
  OBVIOUS
<1> USE BucketAssumption DEF RateInv, BucketTypeOK, Exists
<1>1. ASSUME Exists, tb' \in Take(tb)
      PROVE  tb' \in [rate : Rates \ {0}, capacity : Rates \ {0}, empty : BOOLEAN]
             /\ tb'.rate = tb.rate
  BY <1>1 DEF Take
<1>2. ASSUME NEW c \in Callers, AllowLook(c) PROVE RateInv'
  BY <1>1, <1>2 DEF AllowLook
<1>3. ASSUME NEW c \in Callers, AllowCreate(c) PROVE RateInv'
  <2>1. CASE Exists
    BY <1>1, <1>3, <2>1 DEF AllowCreate
  <2>2. CASE ~Exists
    BY <1>3, <2>2 DEF AllowCreate
  <2> QED
    BY <2>1, <2>2
<1>4. ASSUME NEW c \in Callers, AllowStore(c) PROVE RateInv'
  BY <1>4 DEF AllowStore
<1>5. ASSUME NEW rps \in Rates, NEW burst \in Rates, SetRate(rps, burst) PROVE RateInv'
  BY <1>5 DEF SetRate, NoRate
<1>6. CASE SetShard
  BY <1>6 DEF SetShard, NoRate
<1>7. CASE CleanupShard
  BY <1>7 DEF CleanupShard
<1>8. CASE UNCHANGED bucketVars
  BY <1>8 DEF bucketVars
<1> QED
  BY <1>2, <1>3, <1>4, <1>5, <1>6, <1>7, <1>8 DEF BucketNext
-----------------------------------------------------------------------------
(***************************************************************************)
(* Penalty buckets.                                                        *)
(***************************************************************************)
(* A request that is about to store a bucket has read the current limits,   *)
(* unless a reload has come in between.                                      *)
LimitsInv ==
  /\ PenaltyTypeOK
  /\ ~straddled => \A p \in Procs : phase[p] = "store" => read[p] = limits
  /\ NewLimitsApply

(* Using a bucket leaves its size and its rate alone.                        *)
LEMMA UsedBucket ==
  ASSUME NEW b \in Buckets, NEW lenient \in BOOLEAN,
         NEW c, c = Used(b, Refilled(b, lenient))
  PROVE  c \in Buckets /\ c.max = b.max /\ c.rate = b.rate
<1> DEFINE extra  == IF lenient THEN Lenience ELSE [tokens |-> 0, rate |-> 0]
           tokens == Refilled(b, lenient)
<1>1. /\ b.max \in Nat /\ b.rate \in Nat /\ b.tokens \in Nat /\ b.idle \in Nat
      /\ b.penalty \in 0..Penalty /\ b.violations \in 0..Spam + 1
  BY DEF Buckets
<1>2. extra.tokens \in Nat /\ extra.rate \in Nat
  BY PenaltyAssumption
<1>3. b.idle * (b.rate + extra.rate) \in Nat
  BY <1>1, <1>2
<1>4. tokens \in Nat
  BY <1>1, <1>2, <1>3 DEF Refilled, Min2
<1>5. Violated(b) \in 0..Spam + 1
  BY <1>1, PenaltyAssumption DEF Violated, Min2
<1>6. CASE c = Penalised(b)
  <2>1. c \in Buckets
    BY <1>5, <1>6, Zenon DEF Penalised, Buckets
  <2> QED
    BY <1>6, <2>1 DEF Penalised, Buckets
<1>7. CASE c = Breached(b)
  <2>1. 0 \in Nat /\ Penalty \in 0..Penalty
    BY PenaltyAssumption
  <2>2. c \in Buckets
    BY <1>5, <1>7, <2>1, Zenon DEF Breached, Buckets
  <2> QED
    BY <1>7, <2>2 DEF Breached, Buckets
<1>8. CASE tokens # 0 /\ c = Spent(b, tokens)
  <2>1. tokens - 1 \in Nat /\ 0 \in Nat
    BY <1>4, <1>8
  <2> HIDE DEF tokens
  <2>2. c \in Buckets
    BY <1>8, <2>1, Zenon DEF Spent, Buckets
  <2> QED
    BY <1>8, <2>2 DEF Spent, Buckets
<1> QED
  BY <1>6, <1>7, <1>8 DEF Used

LEMMA FreshBucket ==
  ASSUME NEW l \in Limits \cup {NoLimits}
  PROVE  Fresh(l) \in Buckets /\ Fresh(l).max = l.burst /\ Fresh(l).rate = l.rate
<1>1. l \in [rate : Nat, burst : Nat]
  <2>1. NoLimits \in [rate : Nat, burst : Nat]
    BY DEF NoLimits
  <2>2. ASSUME NEW k \in Limits PROVE k \in [rate : Nat, burst : Nat]
    BY PenaltyAssumption
  <2> QED
    BY <2>1, <2>2
<1>2. l.rate \in Nat /\ l.burst \in Nat /\ 0 \in Nat /\ 0 \in 0..Penalty /\ 0 \in 0..Spam + 1
  BY <1>1, PenaltyAssumption
<1>3. Fresh(l) \in Buckets
  BY <1>2, Zenon DEF Fresh, Buckets
<1> QED
  BY <1>3 DEF Fresh

LEMMA AgedBucket ==
  ASSUME NEW b \in Buckets, NEW c,
         c = [b EXCEPT !.idle = @ + 1, !.penalty = IF @ = 0 THEN 0 ELSE @ - 1]
  PROVE  c \in Buckets /\ c.max = b.max /\ c.rate = b.rate
<1>1. b.idle + 1 \in Nat /\ (IF b.penalty = 0 THEN 0 ELSE b.penalty - 1) \in 0..Penalty
  <2>1. b.idle \in Nat /\ b.penalty \in 0..Penalty
    BY DEF Buckets
  <2> QED
    BY <2>1, PenaltyAssumption
<1>2. c \in Buckets
  BY <1>1, Zenon DEF Buckets
<1> QED
  BY <1>2 DEF Buckets

LEMMA LimitsInit == PenaltyInit => LimitsInv
<1> SUFFICES ASSUME PenaltyInit PROVE LimitsInv
  OBVIOUS
<1>1. Fresh(NoLimits) \in Buckets
  BY FreshBucket
<1>2. MaxBuckets \in Nat \ {0} /\ MaxTime \in Nat /\ MaxUpdates \in Nat
  BY PenaltyAssumption
<1>3. PenaltyTypeOK
  <2>1. /\ bucket \in [Ids -> Buckets]
        /\ read \in [Procs -> Limits \cup {NoLimits}] /\ held \in [Procs -> Ids \cup {0}]
    BY <1>1 DEF PenaltyInit
  <2>2. /\ limits \in Limits /\ counters \in 0..made /\ made \in Ids \cup {0}
        /\ phase \in [Procs -> {"idle", "store", "take"}]
        /\ \A p \in Procs : phase[p] # "take"
    BY DEF PenaltyInit
  <2>3. /\ update \in {"idle", "clear"} /\ time \in 0..MaxTime
        /\ passed \in Nat /\ raced \in Nat /\ updates \in 0..MaxUpdates
        /\ swept \in 0..made
    BY <1>2 DEF PenaltyInit
  <2>4. banned \in BOOLEAN /\ straddled \in BOOLEAN /\ doomed \in BOOLEAN
    BY Zenon DEF PenaltyInit
  <2> QED
    BY <2>1, <2>2, <2>3, <2>4 DEF PenaltyTypeOK
<1> QED
  BY <1>3 DEF PenaltyInit, LimitsInv, NewLimitsApply

LEMMA LimitsNext == LimitsInv /\ [PenaltyNext]_penaltyVars => LimitsInv'
<1> SUFFICES ASSUME LimitsInv, [PenaltyNext]_penaltyVars PROVE LimitsInv'
  OBVIOUS
<1>0. MaxBuckets \in Nat \ {0} /\ MaxTime \in Nat /\ MaxUpdates \in Nat
  BY PenaltyAssumption
<1> USE <1>0 DEF LimitsInv, PenaltyTypeOK, NewLimitsApply, Ids,
                 limiter, request, sweep, penaltyPast, penaltyVars
<1>1. ASSUME NEW p \in Procs, LoadBucket(p) PROVE LimitsInv'
  BY <1>1 DEF LoadBucket
<1>2. ASSUME NEW p \in Procs, StoreBucket(p) PROVE LimitsInv'
  <2>1. CASE counters # 0
    BY <1>2, <2>1 DEF StoreBucket
  <2>2. CASE counters = 0
    <3>1. /\ Fresh(read[p]) \in Buckets
          /\ Fresh(read[p]).max = read[p].burst /\ Fresh(read[p]).rate = read[p].rate
      BY FreshBucket
    <3>2. /\ made + 1 \in Ids /\ made' = made + 1 /\ counters' = made + 1
          /\ phase' = [phase EXCEPT ![p] = "take"] /\ held' = [held EXCEPT ![p] = made + 1]
          /\ read' = [read EXCEPT ![p] = NoLimits]
          /\ bucket' = [bucket EXCEPT ![made + 1] = Fresh(read[p])]
          /\ UNCHANGED <<limits, update, sweep, time, penaltyPast, updates>>
      BY <1>2, <2>2 DEF StoreBucket
    <3>3. /\ bucket' \in [Ids -> Buckets] /\ made' \in Ids
          /\ counters' \in 0..made' /\ swept' \in 0..made'
      BY <3>1, <3>2
    <3>4. /\ phase' \in [Procs -> {"idle", "store", "take"}]
          /\ read' \in [Procs -> Limits \cup {NoLimits}] /\ held' \in [Procs -> Ids \cup {0}]
      BY <3>2
    <3>5. \A q \in Procs : phase'[q] = "take" => held'[q] \in 1..made'
      BY <3>2
    <3>6. PenaltyTypeOK'
      BY <3>2, <3>3, <3>4, <3>5
    <3>7. ~straddled' => \A q \in Procs : phase'[q] = "store" => read'[q] = limits'
      BY <3>2
    <3>8. ~straddled => read[p] = limits
      BY <1>2 DEF StoreBucket
    <3> QED
      BY <3>1, <3>2, <3>6, <3>7, <3>8
  <2> QED
    BY <2>1, <2>2
<1>3. ASSUME NEW p \in Procs, TakeToken(p) PROVE LimitsInv'
  <2>1. PICK lenient \in BOOLEAN :
          LET tokens == Refilled(bucket[held[p]], lenient)
              one    == IF LetsPass(bucket[held[p]], tokens) THEN 1 ELSE 0
          IN  /\ bucket' = [bucket EXCEPT ![held[p]] = Used(bucket[held[p]], tokens)]
              /\ banned' = (banned \/ BanRequired(bucket[held[p]], tokens))
              /\ passed' = IF held[p] = counters /\ updates = 0 THEN passed + one ELSE passed
    BY <1>3 DEF TakeToken
  <2>2. held[p] \in Ids /\ bucket[held[p]] \in Buckets
    BY <1>3 DEF TakeToken
  <2> DEFINE u == Used(bucket[held[p]], Refilled(bucket[held[p]], lenient))
  <2>3. u \in Buckets /\ u.max = bucket[held[p]].max /\ u.rate = bucket[held[p]].rate
    BY <2>2, UsedBucket
  <2>4. bucket' = [bucket EXCEPT ![held[p]] = u]
    BY <2>1
  <2>5. banned' \in BOOLEAN
    BY <2>1 DEF BanRequired
  <2>6. passed' \in Nat
    BY <2>1
  <2>7. /\ phase' = [phase EXCEPT ![p] = "idle"] /\ held' = [held EXCEPT ![p] = 0]
        /\ UNCHANGED <<limits, counters, made, read, update, sweep, time, straddled, raced, updates>>
    BY <1>3 DEF TakeToken
  <2> HIDE DEF u
  <2> QED
    BY <2>2, <2>3, <2>4, <2>5, <2>6, <2>7
<1>4. ASSUME NEW new \in Limits, UpdateConfig(new) PROVE LimitsInv'
  <2>1. straddled' \in BOOLEAN
    BY <1>4 DEF UpdateConfig
  <2>2. ~straddled' => ~straddled /\ \A p \in Procs : phase[p] = "idle"
    BY <1>4 DEF UpdateConfig
  <2>3. /\ limits' = new /\ update' = "clear" /\ updates' \in 0..MaxUpdates
        /\ UNCHANGED <<counters, bucket, made, request, sweep, time, banned, passed, raced>>
    BY <1>4 DEF UpdateConfig
  <2> QED
    BY <2>1, <2>2, <2>3
<1>5. CASE ClearBuckets
  BY <1>5 DEF ClearBuckets
<1>6. CASE RangeBucket
  BY <1>6 DEF RangeBucket
<1>7. CASE CheckIdle
  <2>1. swept' \in 0..made
    BY <1>7 DEF CheckIdle
  <2>2. doomed' \in BOOLEAN
    BY <1>7, Zenon DEF CheckIdle
  <2>3. UNCHANGED <<limiter, request, update, time, penaltyPast, updates>>
    BY <1>7, Zenon DEF CheckIdle
  <2> QED
    BY <2>1, <2>2, <2>3
<1>8. CASE DropIdle
  <2>1. /\ counters' = 0 /\ swept' = 0 /\ doomed' = FALSE
        /\ UNCHANGED <<limits, bucket, made, request, update, time, banned, passed,
                      straddled, updates>>
    BY <1>8, Zenon DEF DropIdle
  <2>2. raced' \in {raced, raced + 1}
    BY <1>8, Zenon DEF DropIdle
  <2>3. raced' \in Nat /\ counters' \in 0..made' /\ swept' \in 0..made'
    BY <2>1, <2>2
  <2>4. doomed' \in BOOLEAN /\ banned' \in BOOLEAN /\ straddled' \in BOOLEAN
    BY <2>1, Zenon
  <2> QED
    BY <2>1, <2>3, <2>4
<1>9. CASE PenaltyTick
  <2>1. \A i \in Ids : /\ bucket'[i] \in Buckets
                       /\ bucket'[i].max = bucket[i].max /\ bucket'[i].rate = bucket[i].rate
    BY <1>9, AgedBucket DEF PenaltyTick
  <2>2. bucket' \in [Ids -> Buckets]
    BY <1>9, <2>1 DEF PenaltyTick
  <2>3. time < MaxTime /\ time' = time + 1
    BY <1>9, Zenon DEF PenaltyTick
  <2>4. time' \in 0..MaxTime
    BY <2>3
  <2>5. UNCHANGED <<limits, counters, made, request, update, sweep, penaltyPast, updates>>
    BY <1>9, Zenon DEF PenaltyTick
  <2> QED
    BY <2>1, <2>2, <2>4, <2>5
<1>10. CASE UNCHANGED penaltyVars
  BY <1>10
<1> QED
  BY <1>1, <1>2, <1>3, <1>4, <1>5, <1>6, <1>7, <1>8, <1>9, <1>10
     DEF PenaltyNext, PenaltyHorizon
-----------------------------------------------------------------------------
(* The limiters' variables always have their types.                          *)
THEOREM LimitsTypeCorrect ==
  WindowSpec /\ PenaltySpec /\ BucketSpec /\ ConnSpec => []TypeOK
<1>1. CountInv => ConnTypeOK
  BY DEF CountInv
<1>2. RateInv => BucketTypeOK
  BY DEF RateInv
<1>3. LimitsInv => PenaltyTypeOK
  BY DEF LimitsInv
<1>4. WindowTypeOK /\ PenaltyTypeOK /\ BucketTypeOK /\ ConnTypeOK => TypeOK
  BY DEF TypeOK
<1> QED
  BY CountInit, CountNext, RateInit, RateNext, LimitsInit, LimitsNext,
     WindowsTypeCorrect, <1>1, <1>2, <1>3, <1>4, PTL
     DEF ConnSpec, BucketSpec, PenaltySpec

(* After a reload, addresses are held to the new limits and rates: a request *)
(* that was being judged meanwhile may put a penalty bucket of the old ones  *)
(* back, but no token bucket.                                                *)
THEOREM LimitsReload == PenaltySpec /\ BucketSpec => []ReloadsApply
<1>1. LimitsInv /\ RateInv => ReloadsApply
  BY DEF LimitsInv, RateInv, ReloadsApply, NewRateApplies, NoRate
<1> QED
  BY RateInit, RateNext, LimitsInit, LimitsNext, <1>1, PTL DEF BucketSpec, PenaltySpec
-----------------------------------------------------------------------------
(***************************************************************************)
(* What the limits let through.                                            *)
(***************************************************************************)
(* What was let through, what the bucket holds and what it has earned since  *)
(* its last use are within what was ever earned, with what the cleanups gave *)
(* away; an address without a bucket has earned a whole one.                 *)
Most == limits.rate + Lenience.rate
GivenAway == raced * limits.burst + Lenience.tokens

EarnedInv ==
  /\ LimitsInv
  /\ updates = 0 =>
       /\ update = "idle" /\ ~straddled
       /\ IdleTTL * limits.rate >= limits.burst =>
            IF counters = 0 THEN passed <= GivenAway + time * Most
            ELSE LET b == bucket[counters] IN
                 passed + b.tokens + b.idle * Most
                   <= limits.burst + GivenAway + time * Most

(* Multiplication by what is earned in a tick.                               *)
LEMMA Products ==
  ASSUME NEW a \in Nat, NEW k \in Nat
  PROVE  /\ a * k \in Nat /\ (a + 1) * k = a * k + k
         /\ \A l \in Nat : l <= k => a * l <= a * k
         /\ \A c \in Nat : a <= c => a * k <= c * k
<1>1. a * k \in Nat /\ (a + 1) * k = a * k + k
  OBVIOUS
<1>2. ASSUME NEW l \in Nat, l <= k PROVE a * l <= a * k
  <2>1. a * k = a * l + a * (k - l) /\ a * l \in Nat
    OBVIOUS
  <2>2. a * (k - l) \in Nat
    BY <1>2
  <2> QED
    BY <2>1, <2>2
<1>3. ASSUME NEW c \in Nat, a <= c PROVE a * k <= c * k
  <2>1. c * k = a * k + (c - a) * k
    OBVIOUS
  <2>2. (c - a) * k \in Nat
    BY <1>3
  <2> QED
    BY <1>1, <2>1, <2>2
<1> QED
  BY <1>1, <1>2, <1>3

(* One use of a bucket: what it lets through was held or earned.             *)
LEMMA UseEarned ==
  ASSUME NEW b \in Buckets, b.rate = limits.rate, limits \in Limits, NEW lenient \in BOOLEAN,
         NEW tokens, tokens = Refilled(b, lenient), NEW c, c = Used(b, tokens),
         NEW one, one = IF LetsPass(b, tokens) THEN 1 ELSE 0
  PROVE  /\ one \in 0..1
         /\ one + c.tokens + c.idle * Most <= b.tokens + b.idle * Most
<1>0. /\ b.tokens \in Nat /\ b.idle \in Nat /\ b.penalty \in Nat /\ b.max \in Nat
      /\ limits.rate \in Nat /\ Lenience.rate \in Nat /\ Lenience.tokens \in Nat
      /\ Most \in Nat /\ b.idle * Most \in Nat
  <2>1. /\ b.tokens \in Nat /\ b.idle \in Nat /\ b.penalty \in Nat /\ b.max \in Nat
        /\ limits.rate \in Nat /\ Lenience.rate \in Nat /\ Lenience.tokens \in Nat
    BY PenaltyAssumption DEF Buckets
  <2>2. Most \in Nat
    BY <2>1 DEF Most
  <2> QED
    BY <2>1, <2>2, Products
<1>1. tokens \in Nat /\ tokens <= b.tokens + b.idle * Most
  <2> DEFINE extra == IF lenient THEN Lenience ELSE [tokens |-> 0, rate |-> 0]
             earned == b.idle * (b.rate + extra.rate)
  <2>1. tokens = Min2(b.tokens + earned, b.max + extra.tokens)
    BY Zenon DEF Refilled
  <2>2. extra.tokens \in Nat /\ extra.rate \in Nat /\ b.rate + extra.rate <= Most
    BY <1>0, PenaltyAssumption DEF Most
  <2>3. earned \in Nat /\ earned <= b.idle * Most
    <3>1. b.rate + extra.rate \in Nat
      BY <1>0, <2>2
    <3> HIDE DEF extra
    <3> QED
      BY <1>0, <2>2, <3>1, Products
  <2> HIDE DEF extra, earned
  <2> QED
    BY <1>0, <2>1, <2>2, <2>3 DEF Min2
<1>2. CASE b.penalty > 0
  <2>1. c = Penalised(b) /\ one = 0
    BY <1>0, <1>2 DEF Used, LetsPass
  <2>2. c.tokens = b.tokens /\ c.idle = b.idle
    BY <2>1 DEF Penalised, Buckets
  <2> QED
    BY <1>0, <2>1, <2>2
<1>3. CASE ~(b.penalty > 0) /\ tokens = 0
  <2>1. c = Breached(b) /\ one = 0
    BY <1>0, <1>3 DEF Used, LetsPass
  <2>2. c.tokens = 0 /\ c.idle = 0
    BY <2>1 DEF Breached, Buckets
  <2>3. c.idle * Most = 0
    BY <1>0, <2>2
  <2> QED
    BY <1>0, <2>1, <2>2, <2>3
<1>4. CASE ~(b.penalty > 0) /\ tokens # 0
  <2>1. c = Spent(b, tokens) /\ one = 1
    BY <1>0, <1>1, <1>4 DEF Used, LetsPass
  <2>2. c.tokens = tokens - 1 /\ c.idle = 0
    BY <2>1 DEF Spent, Buckets
  <2>3. c.idle * Most = 0
    BY <1>0, <2>2
  <2> QED
    BY <1>0, <1>1, <2>1, <2>2, <2>3
<1> QED
  BY <1>2, <1>3, <1>4

(* What is earned: the invariant holds at the start.                         *)
LEMMA EarnedInit == PenaltyInit => EarnedInv
<1> SUFFICES ASSUME PenaltyInit PROVE EarnedInv
  OBVIOUS
<1>1. LimitsInv
  BY LimitsInit
<1>2. GivenAway \in Nat /\ Most \in Nat /\ 0 * Most = 0
  BY PenaltyAssumption DEF PenaltyInit, Most, GivenAway
<1> QED
  BY <1>1, <1>2 DEF PenaltyInit, EarnedInv

(* Requests, cleanups and the clock keep it until the limits are reloaded.   *)
LEMMA EarnedNext == EarnedInv /\ [PenaltyNext]_penaltyVars => EarnedInv'
<1> SUFFICES ASSUME EarnedInv, [PenaltyNext]_penaltyVars PROVE EarnedInv'
  OBVIOUS
<1>1. LimitsInv' /\ LimitsInv /\ PenaltyTypeOK
  BY LimitsNext DEF EarnedInv, LimitsInv
<1>2. updates \in Nat /\ (updates' = updates \/ updates' = updates + 1)
  <2>1. updates \in Nat
    BY <1>1, PenaltyAssumption DEF PenaltyTypeOK
  <2>2. PenaltyNext => updates' = updates \/ updates' = updates + 1
    BY DEF PenaltyNext, LoadBucket, StoreBucket, TakeToken, UpdateConfig, ClearBuckets,
           RangeBucket, CheckIdle, DropIdle, PenaltyTick, PenaltyHorizon, penaltyVars
  <2> QED
    BY <2>1, <2>2 DEF penaltyVars
<1> SUFFICES ASSUME updates' = 0
             PROVE  /\ update' = "idle" /\ ~straddled'
                    /\ (IdleTTL * limits.rate >= limits.burst)' =>
                         IF counters' = 0 THEN passed' <= GivenAway' + time' * Most'
                         ELSE LET b == bucket'[counters'] IN
                              passed' + b.tokens + b.idle * Most'
                                <= limits'.burst + GivenAway' + time' * Most'
  BY <1>1 DEF EarnedInv
<1>3. updates = 0 /\ update = "idle" /\ ~straddled
  BY <1>2 DEF EarnedInv
<1>4. ASSUME NEW new \in Limits, UpdateConfig(new) PROVE FALSE
  BY <1>2, <1>3, <1>4 DEF UpdateConfig
<1>5. ~ClearBuckets
  BY <1>3 DEF ClearBuckets
<1>6. limits' = limits /\ update' = "idle" /\ ~straddled' /\ Most' = Most
  <2>1. PenaltyNext => UNCHANGED <<limits, update, straddled>>
    BY <1>4, <1>5 DEF PenaltyNext, LoadBucket, StoreBucket, TakeToken, RangeBucket, CheckIdle,
                      DropIdle, PenaltyTick, PenaltyHorizon, penaltyVars, limiter, penaltyPast
  <2>2. UNCHANGED <<limits, update, straddled>>
    BY <2>1 DEF penaltyVars, limiter, penaltyPast
  <2> QED
    BY <1>3, <2>2 DEF Most
<1> SUFFICES ASSUME IdleTTL * limits.rate >= limits.burst
             PROVE  IF counters' = 0 THEN passed' <= GivenAway' + time' * Most
                    ELSE LET b == bucket'[counters'] IN
                         passed' + b.tokens + b.idle * Most
                           <= limits.burst + GivenAway' + time' * Most
  BY <1>6
<1>7. /\ counters = 0 => passed <= GivenAway + time * Most
      /\ counters # 0 => passed + bucket[counters].tokens + bucket[counters].idle * Most
                           <= limits.burst + GivenAway + time * Most
  BY <1>3 DEF EarnedInv
<1>8. /\ limits \in Limits /\ limits.rate \in Nat /\ limits.burst \in Nat /\ IdleTTL \in Nat
      /\ Lenience.tokens \in Nat /\ Lenience.rate \in Nat /\ Most \in Nat /\ limits.rate <= Most
      /\ time \in Nat /\ passed \in Nat /\ time * Most \in Nat
      /\ made \in Nat /\ counters \in 0..made /\ made <= MaxBuckets /\ bucket \in [Ids -> Buckets]
      /\ MaxBuckets \in Nat
  <2>1. /\ limits \in Limits /\ limits.rate \in Nat /\ limits.burst \in Nat /\ IdleTTL \in Nat
        /\ Lenience.tokens \in Nat /\ Lenience.rate \in Nat
        /\ time \in Nat /\ passed \in Nat /\ made \in Nat /\ made <= MaxBuckets
        /\ counters \in 0..made /\ bucket \in [Ids -> Buckets] /\ MaxBuckets \in Nat
    BY <1>1, PenaltyAssumption DEF PenaltyTypeOK, Ids
  <2>2. Most \in Nat /\ limits.rate <= Most
    BY <2>1 DEF Most
  <2> QED
    BY <2>1, <2>2, Products
<1>9. /\ GivenAway \in Nat
      /\ raced' = raced => GivenAway' = GivenAway
      /\ raced' = raced + 1 => GivenAway' = GivenAway + limits.burst
  <2>1. raced \in Nat
    BY <1>1 DEF PenaltyTypeOK
  <2>2. /\ raced * limits.burst \in Nat
        /\ (raced + 1) * limits.burst = raced * limits.burst + limits.burst
    BY <1>8, <2>1, Products
  <2>3. /\ GivenAway = raced * limits.burst + Lenience.tokens
        /\ GivenAway' = raced' * limits.burst + Lenience.tokens
    BY <1>6 DEF GivenAway
  <2>4. ASSUME raced' = raced + 1 PROVE GivenAway' = GivenAway + limits.burst
    <3>1. GivenAway' = (raced + 1) * limits.burst + Lenience.tokens
      BY <2>3, <2>4
    <3> QED
      BY <1>8, <2>2, <2>3, <3>1
  <2> QED
    BY <1>8, <2>2, <2>3, <2>4
<1>10. ASSUME counters # 0
      PROVE  LET b == bucket[counters] IN
             /\ b \in Buckets /\ b.tokens \in Nat /\ b.idle \in Nat /\ b.idle * Most \in Nat
             /\ counters \in Ids
  <2>1. counters \in Ids
    BY <1>8, <1>10 DEF Ids
  <2>2. bucket[counters] \in Buckets
    BY <1>8, <2>1
  <2>3. bucket[counters].tokens \in Nat /\ bucket[counters].idle \in Nat
    BY <2>2 DEF Buckets
  <2> QED
    BY <1>8, <2>1, <2>2, <2>3, Products
<1>11. CASE UNCHANGED <<counters, bucket, passed, raced, time>>
  BY <1>9, <1>7, <1>11
<1>12. ASSUME NEW p \in Procs, LoadBucket(p) PROVE UNCHANGED <<counters, bucket, passed, raced, time>>
  BY <1>12 DEF LoadBucket, limiter, penaltyPast
<1>13. ASSUME NEW p \in Procs, StoreBucket(p), counters = 0
       PROVE  IF counters' = 0 THEN passed' <= GivenAway' + time' * Most
              ELSE LET b == bucket'[counters'] IN
                   passed' + b.tokens + b.idle * Most
                     <= limits.burst + GivenAway' + time' * Most
  <2>1. /\ phase[p] = "store" /\ made + 1 \in Ids /\ counters' = made + 1
        /\ bucket' = [bucket EXCEPT ![made + 1] = Fresh(read[p])]
        /\ UNCHANGED <<passed, raced, time>>
    BY <1>13 DEF StoreBucket, penaltyPast
  <2>2. read[p] = limits
    BY <1>1, <1>3, <2>1 DEF LimitsInv
  <2>3. bucket'[made + 1].tokens = limits.burst /\ bucket'[made + 1].idle = 0 /\ 0 * Most = 0
    BY <1>8, <2>1, <2>2 DEF Fresh
  <2> QED
    BY <1>9, <1>7, <1>8, <1>13, <2>1, <2>3
<1>14. ASSUME NEW p \in Procs, StoreBucket(p), counters # 0
       PROVE  UNCHANGED <<counters, bucket, passed, raced, time>>
  BY <1>14 DEF StoreBucket, penaltyPast
<1>15. ASSUME NEW p \in Procs, TakeToken(p)
       PROVE  IF counters' = 0 THEN passed' <= GivenAway' + time' * Most
              ELSE LET b == bucket'[counters'] IN
                   passed' + b.tokens + b.idle * Most
                     <= limits.burst + GivenAway' + time' * Most
  <2> DEFINE b == bucket[held[p]]
  <2>1. /\ phase[p] = "take" /\ UNCHANGED <<counters, raced, time>>
        /\ \E lenient \in BOOLEAN :
             /\ bucket' = [bucket EXCEPT ![held[p]] = Used(b, Refilled(b, lenient))]
             /\ passed' = IF held[p] = counters /\ updates = 0
                          THEN passed + (IF LetsPass(b, Refilled(b, lenient)) THEN 1 ELSE 0)
                          ELSE passed
    BY <1>15 DEF TakeToken
  <2>2. PICK lenient \in BOOLEAN :
             /\ bucket' = [bucket EXCEPT ![held[p]] = Used(b, Refilled(b, lenient))]
             /\ passed' = IF held[p] = counters /\ updates = 0
                          THEN passed + (IF LetsPass(b, Refilled(b, lenient)) THEN 1 ELSE 0)
                          ELSE passed
    BY <2>1
  <2>3. held[p] \in Ids /\ held[p] # 0
    BY <1>1, <1>8, <2>1 DEF PenaltyTypeOK, Ids
  <2>4. CASE held[p] # counters
    <3>1. passed' = passed /\ (counters # 0 => bucket'[counters] = bucket[counters])
      BY <1>8, <1>10, <2>2, <2>4
    <3> QED
      BY <1>9, <1>7, <2>1, <3>1
  <2>5. CASE held[p] = counters
    <3> DEFINE tokens == Refilled(b, lenient)
               c == Used(b, tokens)
               one == IF LetsPass(b, tokens) THEN 1 ELSE 0
    <3>1. b \in Buckets /\ b.rate = limits.rate
      BY <1>1, <1>3, <1>10, <2>3, <2>5 DEF LimitsInv, NewLimitsApply
    <3>2. one \in 0..1 /\ one + c.tokens + c.idle * Most <= b.tokens + b.idle * Most
      BY <1>8, <3>1, UseEarned
    <3>3. c \in Buckets
      BY <3>1, UsedBucket
    <3>4. bucket'[counters] = c /\ passed' = passed + one /\ counters' = counters /\ time' = time
      BY <1>3, <1>8, <2>1, <2>2, <2>3, <2>5
    <3> HIDE DEF c, one, tokens
    <3>5. c.tokens \in Nat /\ c.idle \in Nat
      BY <3>3 DEF Buckets
    <3>6. c.idle * Most \in Nat
      BY <1>8, <3>5, Products
    <3> QED
      BY <1>9, <1>7, <1>8, <1>10, <2>1, <2>3, <2>5, <3>2, <3>4, <3>5, <3>6
  <2> QED
    BY <2>4, <2>5
<1>16. ASSUME DropIdle
       PROVE  IF counters' = 0 THEN passed' <= GivenAway' + time' * Most
              ELSE LET b == bucket'[counters'] IN
                   passed' + b.tokens + b.idle * Most
                     <= limits.burst + GivenAway' + time' * Most
  <2> DEFINE b == bucket[counters]
  <2>1. /\ counters' = 0 /\ UNCHANGED <<passed, time>>
        /\ raced' = IF counters # 0 /\ ~(b.idle > IdleTTL) THEN raced + 1 ELSE raced
    BY <1>16 DEF DropIdle, Expired
  <2>2. CASE counters = 0
    BY <1>9, <1>7, <1>8, <2>1, <2>2
  <2>3. CASE counters # 0 /\ b.idle > IdleTTL
    <3>1. IdleTTL * limits.rate <= b.idle * limits.rate
      BY <1>8, <1>10, <2>3, Products
    <3>2. b.idle * limits.rate <= b.idle * Most
      BY <1>8, <1>10, <2>3, Products
    <3>3. IdleTTL * limits.rate \in Nat /\ b.idle * limits.rate \in Nat
      BY <1>8, <1>10, <2>3, Products
    <3>4. b.idle * Most >= limits.burst
      BY <1>8, <1>10, <2>3, <3>1, <3>2, <3>3
    <3> QED
      BY <1>9, <1>7, <1>8, <1>10, <2>1, <2>3, <3>4
  <2>4. CASE counters # 0 /\ ~(b.idle > IdleTTL)
    BY <1>9, <1>7, <1>8, <1>10, <2>1, <2>4
  <2> QED
    BY <2>2, <2>3, <2>4
<1>17. ASSUME PenaltyTick
       PROVE  IF counters' = 0 THEN passed' <= GivenAway' + time' * Most
              ELSE LET b == bucket'[counters'] IN
                   passed' + b.tokens + b.idle * Most
                     <= limits.burst + GivenAway' + time' * Most
  <2>1. time' = time + 1 /\ UNCHANGED <<counters, passed, raced>>
    BY <1>17 DEF PenaltyTick, penaltyPast
  <2>2. (time + 1) * Most = time * Most + Most
    BY <1>8, Products
  <2>3. CASE counters = 0
    BY <1>9, <1>7, <1>8, <2>1, <2>2, <2>3
  <2>4. CASE counters # 0
    <3> DEFINE b == bucket[counters]
    <3>1. bucket'[counters] = [b EXCEPT !.idle = @ + 1, !.penalty = IF @ = 0 THEN 0 ELSE @ - 1]
      <4>1. \A i \in Ids : bucket'[i] =
              IF i > made THEN bucket[i]
              ELSE [bucket[i] EXCEPT !.idle = @ + 1, !.penalty = IF @ = 0 THEN 0 ELSE @ - 1]
        BY <1>17 DEF PenaltyTick
      <4>2. counters \in Ids /\ ~(counters > made)
        BY <1>8, <1>10, <2>4
      <4> QED
        BY <4>1, <4>2
    <3>2. bucket'[counters].tokens = b.tokens /\ bucket'[counters].idle = b.idle + 1
      BY <1>10, <2>4, <3>1 DEF Buckets
    <3>3. (b.idle + 1) * Most = b.idle * Most + Most
      BY <1>8, <1>10, <2>4, Products
    <3> QED
      BY <1>9, <1>7, <1>8, <1>10, <2>1, <2>2, <2>4, <3>2, <3>3
  <2> QED
    BY <2>3, <2>4
<1>18. PenaltyHorizon => UNCHANGED <<counters, bucket, passed, raced, time>>
  BY DEF PenaltyHorizon, penaltyVars, limiter, penaltyPast
<1>19. RangeBucket \/ CheckIdle => UNCHANGED <<counters, bucket, passed, raced, time>>
  BY DEF RangeBucket, CheckIdle, limiter, penaltyPast
<1>20. UNCHANGED penaltyVars => UNCHANGED <<counters, bucket, passed, raced, time>>
  BY DEF penaltyVars, limiter, penaltyPast
<1> QED
  BY <1>4, <1>5, <1>11, <1>12, <1>13, <1>14, <1>15, <1>16, <1>17, <1>18, <1>20, <1>19
     DEF PenaltyNext

(* NoMoreThanEarned in every reachable state: dropping idle buckets, with    *)
(* what was spent from them and the penalty, gives away at most one burst    *)
(* for each bucket that was used again between the look at it and the        *)
(* deletion, and nothing else.                                               *)
THEOREM NothingGivenAway == PenaltySpec => []NoMoreThanEarned
<1>1. ASSUME EarnedInv PROVE NoMoreThanEarned
  <2> SUFFICES ASSUME updates = 0, IdleTTL * limits.rate >= limits.burst
               PROVE  passed <= limits.burst + GivenAway + time * Most
    <3>1. limits.burst \in Nat /\ Lenience.tokens \in Nat /\ raced \in Nat
          /\ time * Most \in Int
      <4>1. limits \in Limits /\ time \in Nat /\ raced \in Nat
        BY <1>1, PenaltyAssumption DEF EarnedInv, LimitsInv, PenaltyTypeOK
      <4> QED
        BY <4>1, PenaltyAssumption DEF Most
    <3>2. raced * limits.burst \in Nat
      BY <3>1, Products
    <3> QED
      BY <3>1, <3>2 DEF NoMoreThanEarned, Most, GivenAway
  <2>1. /\ limits \in Limits /\ limits.burst \in Nat /\ Lenience.tokens \in Nat /\ Most \in Nat
        /\ time \in Nat /\ passed \in Nat /\ counters \in 0..made
        /\ made \in Ids \cup {0} /\ bucket \in [Ids -> Buckets] /\ raced \in Nat
    BY <1>1, PenaltyAssumption DEF EarnedInv, LimitsInv, PenaltyTypeOK, Most
  <2>2. time * Most \in Nat /\ GivenAway \in Nat
    BY <2>1, Products DEF GivenAway
  <2>3. CASE counters = 0
    BY <1>1, <2>1, <2>2, <2>3 DEF EarnedInv
  <2>4. CASE counters # 0
    <3>1. bucket[counters].tokens \in Nat /\ bucket[counters].idle \in Nat
      <4>1. counters \in Ids
        BY <2>1, <2>4, PenaltyAssumption DEF Ids
      <4>2. bucket[counters] \in Buckets
        BY <2>1, <4>1
      <4> QED
        BY <4>2 DEF Buckets
    <3>2. bucket[counters].idle * Most \in Nat
      BY <2>1, <3>1, Products
    <3> QED
      BY <1>1, <2>1, <2>2, <2>4, <3>1, <3>2 DEF EarnedInv
  <2> QED
    BY <2>3, <2>4
<1> QED
  BY <1>1, EarnedInit, EarnedNext, PTL DEF PenaltySpec
===============================================================================
