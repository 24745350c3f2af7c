------------------------------- MODULE MCLimits -------------------------------
(***************************************************************************)
(* The limiters of an address for TLC: the windows of its IPState, its     *)
(* penalty bucket, its token bucket, its connections.  They share no       *)
(* variable, so a behaviour of all is one of each; TLC looks at them one   *)
(* at a time, which makes the states a sum and not a product.              *)
(***************************************************************************)
EXTENDS IPWindows, PenaltyBuckets, TokenBuckets, ConnLimits, TLC

VARIABLE part

MCRates  == {[rate |-> 1, burst |-> 2], [rate |-> 2, burst |-> 1]}

(* More tokens, but no higher rate: what is earned in the time of the model  *)
(* would otherwise be more than what a cleanup gives away.                   *)
MCLenience == [tokens |-> 1, rate |-> 0]

(* What is not looked at starts in one way only. *)
Init ==
  /\ part \in {"window", "penalty", "bucket", "conn"}
  /\ WindowInit /\ PenaltyInit /\ BucketInit /\ ConnInit
  /\ part # "penalty" => limits = [rate |-> 1, burst |-> 2]
  /\ part # "bucket" => rate = 1 /\ capacity = 1
  /\ part # "conn" => ~exempt

Windows   == part = "window" /\ WindowNext /\ UNCHANGED <<penaltyVars, bucketVars, connVars>>
Penalties == part = "penalty" /\ PenaltyNext /\ UNCHANGED <<windowVars, bucketVars, connVars>>
RateBuckets == part = "bucket" /\ BucketNext /\ UNCHANGED <<windowVars, penaltyVars, connVars>>
Connections == part = "conn" /\ ConnNext /\ UNCHANGED <<windowVars, penaltyVars, bucketVars>>

Next == UNCHANGED part /\ (Windows \/ Penalties \/ RateBuckets \/ Connections)

Symmetry == Permutations(Procs) \cup Permutations(Conns)

vars == <<part, windowVars, penaltyVars, bucketVars, connVars>>
Spec == Init /\ [][Next]_vars

(* Every variable of the limiters keeps its type, a window starts with a     *)
(* second, and a shard is locked exactly by the request that is about to     *)
(* store a bucket in it.                                                     *)
TypeOK == WindowTypeOK /\ PenaltyTypeOK /\ BucketTypeOK /\ ConnTypeOK

(* Limits that a reload brings hold for whoever comes later: no bucket made  *)
(* for the old ones outlives the update of the penalty limiter, none keeps   *)
(* its old rate after SetRate.                                               *)
ReloadsApply == NewLimitsApply /\ NewRateApplies
===============================================================================
