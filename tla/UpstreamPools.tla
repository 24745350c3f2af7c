----------------------------- MODULE UpstreamPools -----------------------------
(***************************************************************************)
(* The backends of a domain (core/upstream.go) and the requests that are   *)
(* sent to them (core/proxy.go): round robin over the backends that the    *)
(* health checks have not found down, pools that a reload replaces under   *)
(* the requests and under the checks.                                      *)
(*                                                                         *)
(* The pool of one domain is modelled; the others are hosts whose requests *)
(* come here as well because their name contains the domain's or because   *)
(* it is the only one.  Weights are read from the configuration and not    *)
(* used.                                                                   *)
(***************************************************************************)
EXTENDS Integers, FiniteSets

CONSTANTS
  Senders,        \* goroutines with a request for the domain
  MaxBackends,    \* bound: backends of the domain
  DownAfter,      \* failed checks after which a backend is down, 3
  MaxPools        \* bound: times UpdateDomains replaces the pool

ASSUME PoolAssumption ==
  /\ MaxBackends \in Nat \ {0} /\ DownAfter \in Nat \ {0} /\ MaxPools \in Nat

VARIABLES
  size,        \* backends of the pool, 0 when the domain is not configured
  current,     \* pool.Current, counted from 1
  isAlive,     \* the backends that are not down
  failures,    \* failed checks in a row
  sender,      \* of a request: idle, the pool it has looked up (fresh or
               \* replaced meanwhile), or what it is doing with a backend
  probe,       \* the backend the health checks look at next, 0 for none
  probing,     \* the pool they have a snapshot of: fresh or replaced
  waited,      \* history: requests since a backend had its last one
  pools

poolVars == <<size, current, isAlive, failures, sender, probe, probing, waited, pools>>

Positions == 1..MaxBackends
Pool      == 1..size

PoolTypeOK ==
  /\ size \in 0..MaxBackends
  /\ current \in Positions /\ (size > 0 => current \in Pool)
  /\ isAlive \subseteq Positions
  /\ failures \in [Positions -> 0..DownAfter]
  /\ sender \in [Senders -> {"idle", "fresh", "replaced", "http", "websocket"}]
  /\ probe \in 0..MaxBackends
  /\ probing \in {"fresh", "replaced"}
  /\ (probing = "fresh" => probe <= size)
  /\ waited \in [Positions -> Nat]
  /\ pools \in 0..MaxPools

(* UpdateDomains: every backend of the new pool is taken to be alive. *)
NewPool(n) ==
  /\ size' = n /\ current' = 1
  /\ isAlive' = Positions /\ failures' = [b \in Positions |-> 0]
  /\ waited' = [b \in Positions |-> 0]

(* NewUpstreamManager; UpdateDomains gives it the backends. *)
PoolInit ==
  /\ size = 0 /\ current = 1
  /\ isAlive = Positions /\ failures = [b \in Positions |-> 0]
  /\ sender = [s \in Senders |-> "idle"]
  /\ probe = 0 /\ probing = "fresh"
  /\ waited = [b \in Positions |-> 0] /\ pools = 0
-----------------------------------------------------------------------------
(* GetNext finds the pool of the host; without backends, proxyRequest        *)
(* answers 503.                                                              *)
LookUpPool(s) ==
  /\ sender[s] = "idle"
  /\ sender' = IF size > 0 THEN [sender EXCEPT ![s] = "fresh"] ELSE sender
  /\ UNCHANGED <<size, current, isAlive, failures, probe, probing, waited, pools>>

(* The steps of round robin from one position to another. *)
Distance(from, to) == IF to >= from THEN to - from ELSE to - from + size
Succ(b)            == IF b = size THEN 1 ELSE b + 1

(* The first backend from Current that is alive; Current if none is. *)
IsNext(b) ==
  LET alive == isAlive \cap Pool IN
  IF alive = {} THEN b = current
  ELSE b \in alive /\ \A a \in alive : Distance(current, b) <= Distance(current, a)

(* Mutant of Advance: the pointer stays at the backend that was chosen. *)
AdvanceTo(b) == current' = b

Advance(b) == current' = Succ(b)

CountTurns(b) ==
  waited' = [a \in Positions |->
    IF a \in Pool \cap isAlive /\ a # b THEN waited[a] + 1 ELSE 0]

(* The rest of GetNext, under the pool's lock, and what proxyRequest does    *)
(* with the backend.  What happens to a pool that was replaced is of no      *)
(* consequence.                                                              *)
GetNext(s) ==
  /\ \/ /\ sender[s] = "fresh"
        /\ \E b \in Pool : IsNext(b) /\ Advance(b) /\ CountTurns(b)
     \/ /\ sender[s] = "replaced"
        /\ UNCHANGED <<current, waited>>
  /\ \E kind \in {"http", "websocket"} : sender' = [sender EXCEPT ![s] = kind]
  /\ UNCHANGED <<size, isAlive, failures, probe, probing, pools>>

(* The proxy of the backend answers, or reports a bad gateway; a WebSocket   *)
(* ends with the first of its two copies.                                    *)
Answered(s) ==
  /\ sender[s] \in {"http", "websocket"}
  /\ sender' = [sender EXCEPT ![s] = "idle"]
  /\ UNCHANGED <<size, current, isAlive, failures, probe, probing, waited, pools>>
-----------------------------------------------------------------------------
(* UpdateDomains, of every save and reload: requests and checks go on with   *)
(* the pool they have.                                                       *)
UpdateDomains(n) ==
  /\ pools < MaxPools /\ pools' = pools + 1
  /\ NewPool(n)
  /\ sender' = [s \in Senders |-> IF sender[s] = "fresh" THEN "replaced" ELSE sender[s]]
  /\ probing' = IF probe > 0 THEN "replaced" ELSE probing
  /\ UNCHANGED probe

(* Every 15 s the checks take the pools there are ... *)
StartChecks ==
  /\ probe = 0 /\ size > 0
  /\ probe' = 1 /\ probing' = "fresh"
  /\ UNCHANGED <<size, current, isAlive, failures, sender, waited, pools>>

Found(b, up) ==
  /\ failures' = [failures EXCEPT ![b] =
       IF up THEN 0 ELSE IF @ = DownAfter THEN @ ELSE @ + 1]
  /\ isAlive' = IF up THEN isAlive \cup {b}
                ELSE IF failures[b] + 1 >= DownAfter THEN isAlive \ {b} ELSE isAlive
  /\ waited' = IF b \in isAlive THEN waited ELSE [waited EXCEPT ![b] = 0]

(* ... and ask the backends one after the other, without a lock; one that    *)
(* answers with 500, 502 or 504 counts as failed, as one that does not.      *)
Check ==
  /\ probe > 0
  /\ \/ /\ probing = "fresh"
        /\ \E up \in BOOLEAN : Found(probe, up)
        /\ probe' = IF probe = size THEN 0 ELSE probe + 1
     \/ /\ probing = "replaced"
        /\ probe' \in {0, probe} /\ UNCHANGED <<isAlive, failures, waited>>
  /\ UNCHANGED <<size, current, sender, probing, pools>>

PoolNext ==
  \/ \E s \in Senders : LookUpPool(s) \/ GetNext(s) \/ Answered(s)
  \/ \E n \in 0..MaxBackends : UpdateDomains(n)
  \/ StartChecks \/ Check

PoolSpec == PoolInit /\ [][PoolNext]_poolVars
-----------------------------------------------------------------------------
(* Round robin is fair while backends fail, recover and are replaced: a     *)
(* backend that is up is passed over by fewer requests than its pool has    *)
(* backends before it gets one.                                             *)
FairTurn == \A b \in Pool \cap isAlive : waited[b] < size
===============================================================================
