------------------------------ MODULE ConnLimits ------------------------------
(***************************************************************************)
(* Connections per address: the callback that net/http calls for each new  *)
(* and each finished connection (core/server.go), the counters it keeps in *)
(* the state of the address (core/pipeline.go), and the requests judged by *)
(* them meanwhile.                                                         *)
(*                                                                         *)
(* One address is modelled.  New connections are accepted by one goroutine *)
(* and finish in a goroutine each.                                         *)
(***************************************************************************)
EXTENDS Integers, FiniteSets

CONSTANTS
  Conns,      \* connections of the address
  MaxPerIP,   \* connection_limit.max_per_ip
  MaxTotal,   \* connections the listener accepts, at most 4000
  MaxExempts  \* bound: reloads that exempt the address or no longer do

ASSUME ConnAssumption ==
  MaxPerIP \in Nat \ {0} /\ MaxTotal \in Nat \ {0} /\ MaxExempts \in Nat

VARIABLES
  stage,        \* of a connection: none, accepted, open, refused, clamp, gone
  counted,      \* connections whose acceptance has been counted
  activeConns,  \* state.ActiveConns of the address
  active,       \* stats.ActiveConns
  exempt,       \* the address is whitelisted or a trusted proxy
  connBanned,   \* layer 1 has banned the address
  exempts

connVars == <<stage, counted, activeConns, active, exempt, connBanned, exempts>>

ConnTypeOK ==
  /\ stage \in [Conns -> {"none", "accepted", "open", "refused", "clamp", "gone"}]
  /\ counted \subseteq Conns
  /\ activeConns \in Int /\ active \in Int
  /\ exempt \in BOOLEAN /\ connBanned \in BOOLEAN
  /\ exempts \in 0..MaxExempts

ConnInit ==
  /\ stage = [c \in Conns |-> "none"]
  /\ counted = {} /\ activeConns = 0 /\ active = 0
  /\ exempt \in BOOLEAN /\ connBanned = FALSE
  /\ exempts = 0
-----------------------------------------------------------------------------
Live == {c \in Conns : stage[c] \notin {"none", "gone"}}
At(c, s) == stage' = [stage EXCEPT ![c] = s]

(* StateNew up to the counter: an exempt address is not looked at further;  *)
(* a banned one, or one with too many connections in a second, is refused   *)
(* before it is counted.  LimitListener has waited for a place.             *)
Accept(c) ==
  /\ stage[c] = "none" /\ \A d \in Conns : stage[d] # "accepted"
  /\ Cardinality(Live) < MaxTotal
  /\ active' = active + 1
  /\ \/ exempt /\ At(c, "open")
     \/ ~exempt /\ At(c, "refused")
     \/ ~exempt /\ At(c, "accepted")
  /\ UNCHANGED <<counted, activeConns, exempt, connBanned, exempts>>

(* IncrementConnCount and the limit. *)
IncrementConnCount(c) ==
  /\ stage[c] = "accepted"
  /\ activeConns' = activeConns + 1
  /\ counted' = counted \cup {c}
  /\ At(c, IF activeConns + 1 > MaxPerIP THEN "refused" ELSE "open")
  /\ UNCHANGED <<active, exempt, connBanned, exempts>>

(* Mutant of ConnClosed: a connection that was refused is not counted down. *)
ConnClosedOpen(c) ==
  /\ stage[c] \in {"open", "refused"}
  /\ active' = IF active > 0 THEN active - 1 ELSE active
  /\ counted' = counted \ {c}
  /\ IF exempt \/ stage[c] = "refused"
     THEN At(c, "gone") /\ UNCHANGED activeConns
     ELSE /\ activeConns' = activeConns - 1
          /\ At(c, IF activeConns - 1 < 0 THEN "clamp" ELSE "gone")
  /\ UNCHANGED <<exempt, connBanned, exempts>>

(* StateClosed, and StateHijacked of a WebSocket.  A refused connection ends *)
(* here as well, whether it was counted or not.                              *)
ConnClosed(c) ==
  /\ stage[c] \in {"open", "refused"}
  /\ active' = IF active > 0 THEN active - 1 ELSE active
  /\ IF exempt
     THEN At(c, "gone") /\ UNCHANGED <<activeConns, counted>>
     ELSE /\ activeConns' = activeConns - 1
          /\ counted' = counted \ {c}
          /\ At(c, IF activeConns - 1 < 0 THEN "clamp" ELSE "gone")
  /\ UNCHANGED <<exempt, connBanned, exempts>>

(* DecrementConnCount stores 0 over a negative counter, in a second step. *)
Clamp(c) ==
  /\ stage[c] = "clamp"
  /\ activeConns' = 0 /\ At(c, "gone")
  /\ UNCHANGED <<counted, active, exempt, connBanned, exempts>>

(* Layer 1 of the pipeline, for a request on an open connection. *)
JudgeConnCount(c) ==
  /\ stage[c] = "open" /\ ~exempt /\ activeConns > MaxPerIP
  /\ connBanned' = TRUE
  /\ UNCHANGED <<stage, counted, activeConns, active, exempt, exempts>>

(* IPStateMap.Cleanup forgets an address that has sent no request for long, *)
(* whether it has connections or not.                                       *)
ForgetState ==
  /\ activeConns # 0 /\ \A c \in Conns : stage[c] \notin {"accepted", "clamp"}
  /\ activeConns' = 0
  /\ UNCHANGED <<stage, counted, active, exempt, connBanned, exempts>>

ReloadExempt ==
  /\ exempts < MaxExempts /\ exempts' = exempts + 1
  /\ exempt' = ~exempt
  /\ UNCHANGED <<stage, counted, activeConns, active, connBanned>>

ConnsUsed == Live = {} /\ (\A c \in Conns : stage[c] = "gone") /\ UNCHANGED connVars

ConnNext ==
  \/ \E c \in Conns : Accept(c) \/ IncrementConnCount(c) \/ ConnClosed(c)
                        \/ Clamp(c) \/ JudgeConnCount(c)
  \/ ForgetState \/ ReloadExempt \/ ConnsUsed

ConnSpec == ConnInit /\ [][ConnNext]_connVars
-----------------------------------------------------------------------------
(* Nobody is refused, or banned by layer 1, for connections that are gone:  *)
(* until a reload exempts the address or no longer does, the counter never  *)
(* exceeds the connections of the address that were counted and have not    *)
(* ended, whatever was refused, forgotten or set back to 0 meanwhile.       *)
NeverOvercounted == exempts = 0 => activeConns <= Cardinality(counted)
===============================================================================
