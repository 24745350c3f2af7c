------------------------------ MODULE MCDelivery ------------------------------
(***************************************************************************)
(* What the shield hands on, for TLC: requests to backends, responses to   *)
(* the cache, events to the log and its viewers, alerts to the channels,   *)
(* bans to the edge.  The parts share no variable; TLC looks at them one   *)
(* at a time, which makes the states a sum and not a product.              *)
(***************************************************************************)
EXTENDS UpstreamPools, ResponseCache, TrafficLog, AlertQueue, EdgeBans

VARIABLE part

vars == <<part, poolVars, cacheVars, logVars, alertVars, edgeVars>>

Init ==
  /\ part \in {"pools", "cache", "log", "alerts", "edge"}
  /\ PoolInit /\ CacheInit /\ LogInit /\ AlertInit /\ EdgeInit

Pools    == part = "pools" /\ PoolNext
             /\ UNCHANGED <<part, cacheVars, logVars, alertVars, edgeVars>>
Cached   == part = "cache" /\ CacheNext
             /\ UNCHANGED <<part, poolVars, logVars, alertVars, edgeVars>>
Logged   == part = "log" /\ LogNext
             /\ UNCHANGED <<part, poolVars, cacheVars, alertVars, edgeVars>>
Alerted  == part = "alerts" /\ AlertNext
             /\ UNCHANGED <<part, poolVars, cacheVars, logVars, edgeVars>>
AtEdge   == part = "edge" /\ EdgeNext
             /\ UNCHANGED <<part, poolVars, cacheVars, logVars, alertVars>>

Next == Pools \/ Cached \/ Logged \/ Alerted \/ AtEdge

(* The goroutines run, and calls of the Cloudflare API that are made again   *)
(* and again succeed now and then.                                           *)
Fairness ==
  /\ WF_alertVars(RunJob)
  /\ \A a \in Alerts, c \in Channels : WF_alertVars(Poster(a, c))
  /\ SF_edgeVars(part = "edge" /\ FetchPage)
  /\ SF_edgeVars(part = "edge" /\ \E id \in RuleIds : DeleteRule(id, TRUE))
  /\ WF_edgeVars(part = "edge" /\ (NextPage \/ CleanAgain))
  /\ WF_edgeVars(EdgeRestart)
  /\ WF_edgeVars(EdgeAge)

Spec == Init /\ [][Next]_vars /\ Fairness

(* Every variable keeps its type. *)
TypeOK == PoolTypeOK /\ CacheTypeOK /\ LogTypeOK /\ AlertTypeOK /\ EdgeTypeOK
===============================================================================
