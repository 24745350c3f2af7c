---------------------------- MODULE AttackDetector ----------------------------
(***************************************************************************)
(* How the nodes of a mesh declare a domain under attack (core/server.go)  *)
(* and who announces it (core/alerts.go, cluster/gossip.go).               *)
(*                                                                         *)
(* On every node two one-second tickers run unsynchronised: rpsCounter     *)
(* turns the requests it has not counted yet into a rate, attackDetector   *)
(* adds the rates its peers gossip and compares the sum with the domain's  *)
(* threshold.  One loud tick begins an attack, Calm quiet ticks end it.    *)
(* Only the member with the lowest key sends the alerts.                   *)
(***************************************************************************)
EXTENDS Integers, FiniteSets, Functions

CONSTANTS
  Nodes,      \* nodes of the mesh, each with a name of its own
  Domains,    \* lower-case domain names
  Longer,     \* Longer[d]: the domains whose name begins with d's, d included
  Rank,       \* the order of the keys "name_addr"
  Threshold,  \* requests per second, of the domain or of the emergency mode
  Calm,       \* quiet ticks that end an attack, 10 in the code
  Fresh,      \* seconds a peer's rate counts, 15 in the code
  Load,       \* bound: the requests of a node's busy seconds for a domain
  MaxUnseen,  \* bound: requests waiting to be counted
  MaxChanges  \* bound: configuration reloads and nodes that stop

ASSUME DetectorAssumption ==
  /\ IsFiniteSet(Nodes) /\ IsFiniteSet(Domains)
  /\ Longer \in [Domains -> SUBSET Domains]
  /\ \A d \in Domains : d \in Longer[d]
  /\ Rank \in [Nodes -> Nat]
  /\ \A m, n \in Nodes : Rank[m] = Rank[n] => m = n
  /\ Threshold \in [Domains -> Nat \ {0}]
  /\ Calm \in Nat \ {0} /\ Fresh \in Nat \ {0}
  /\ Load \in [Nodes -> SUBSET Nat]
  /\ MaxUnseen \in Nat /\ MaxChanges \in Nat

VARIABLES
  phase,       \* of Stop: running, flushed, slept, stopped
  members,     \* the members each node's memberlist shows
  configured,  \* s.cfg.Domains
  due,         \* the tickers of this second still to be handled
  unseen,      \* domainReqs - domainLastReqs
  rps,         \* domainRPS
  under, calm, \* domainUnderAttack, domainNormalCount
  peers,       \* peerDomainStats, by <<node, domain>>
  metric,      \* the rates each node has in the network
  ended,       \* the domains whose end each node has in the network
  lastAlert,   \* the last alert any node sent about a domain
  busiest,     \* fixed at the start: the requests of a busy second; others have none
  loud,        \* history: seconds above the threshold in a row, 2 for more
  reloads, stops

node    == <<phase, members, configured>>
counter == <<unseen, rps>>
verdict == <<under, calm>>
mesh    == <<metric, ended>>
history == <<busiest, loud>>
changes == <<reloads, stops>>
vars == <<node, due, counter, verdict, peers, mesh, lastAlert, history, changes>>

None   == [rps |-> 0, age |-> Fresh]
Silent == -1
Tickers == {"count", "detect"}

TypeOK ==
  /\ phase \in [Nodes -> {"running", "flushed", "slept", "stopped"}]
  /\ members \in [Nodes -> SUBSET Nodes]
  /\ configured \in [Nodes -> SUBSET Domains]
  /\ due \in [Nodes -> SUBSET Tickers]
  /\ unseen \in [Nodes -> [Domains -> Nat]]
  /\ rps \in [Nodes -> [Domains -> Nat]]
  /\ under \in [Nodes -> [Domains -> BOOLEAN]]
  /\ calm \in [Nodes -> [Domains -> 0..Calm - 1]]
  /\ peers \in [Nodes -> [Nodes \X Domains -> [rps : Nat, age : 0..Fresh]]]
  /\ metric \in [Nodes -> [Domains -> Nat \cup {Silent}]]
  /\ ended \in [Nodes -> SUBSET Domains]
  /\ lastAlert \in [Domains -> {"none", "start", "end"}]
  /\ loud \in [Nodes -> [Domains -> 0..2]]
  /\ busiest \in [Nodes -> [Domains -> Nat]]
  /\ reloads \in Nat /\ stops \in Nat

Rates == UNION {Load[n] : n \in Nodes}

ForAll(v) == [n \in Nodes |-> [d \in Domains |-> v]]

(* The mesh has formed; each node has a configuration of its own. *)
Init ==
  /\ phase = [n \in Nodes |-> "running"]
  /\ members = [n \in Nodes |-> Nodes]
  /\ configured \in [Nodes -> SUBSET Domains]
  /\ due = [n \in Nodes |-> {}]
  /\ unseen = ForAll(0) /\ rps = ForAll(0)
  /\ under = ForAll(FALSE) /\ calm = ForAll(0)
  /\ peers = [n \in Nodes |-> [k \in Nodes \X Domains |-> None]]
  /\ metric = ForAll(Silent) /\ ended = [n \in Nodes |-> {}]
  /\ lastAlert = [d \in Domains |-> "none"]
  /\ busiest \in [Nodes -> [Domains -> Rates]]
  /\ \A n \in Nodes, d \in Domains : busiest[n][d] \in Load[n]
  /\ loud = ForAll(0)
  /\ reloads = 0 /\ stops = 0
-----------------------------------------------------------------------------
Alive(n) == phase[n] # "stopped"

(* Mutant of Older: a report counts until the next one. *)
NeverOlder(stat) == stat

(* GetPeerDomainMetrics leaves out what is Fresh seconds old. *)
Older(stat) ==
  IF stat.age + 1 < Fresh THEN [stat EXCEPT !.age = @ + 1] ELSE None

(* handleRequest counts every request under its host; both tickers fire.   *)
(* A second's requests arrive at its start, a ticker is handled within it; *)
(* a second is idle or as busy as it gets.                                 *)
NextSecond ==
  /\ \A n \in Nodes : due[n] = {}
  /\ \E load \in [Nodes -> [Domains -> Rates \cup {0}]] :
       /\ \A n \in Nodes, d \in Domains :
            /\ load[n][d] \in IF Alive(n) THEN {0, busiest[n][d]} ELSE {0}
            /\ unseen[n][d] + load[n][d] <= MaxUnseen
       /\ unseen' = [n \in Nodes |-> [d \in Domains |-> unseen[n][d] + load[n][d]]]
       /\ loud' = [n \in Nodes |-> [d \in Domains |->
            IF load[n][d] > Threshold[d] /\ d \in configured[n]
            THEN IF loud[n][d] = 0 THEN 1 ELSE 2
            ELSE 0]]
  /\ due' = [n \in Nodes |-> IF Alive(n) THEN Tickers ELSE {}]
  /\ phase' = [n \in Nodes |-> IF phase[n] = "flushed" THEN "slept" ELSE phase[n]]
  /\ peers' = [n \in Nodes |-> [k \in Nodes \X Domains |-> Older(peers[n][k])]]
  /\ UNCHANGED <<members, configured, rps, verdict, mesh, lastAlert, busiest,
                 changes>>

(* A domain that is not configured is not counted: its requests add up. *)
rpsCounter(n) ==
  /\ "count" \in due[n]
  /\ due' = [due EXCEPT ![n] = @ \ {"count"}]
  /\ rps' = [rps EXCEPT ![n] =
       [d \in Domains |-> IF d \in configured[n] THEN unseen[n][d] ELSE @[d]]]
  /\ unseen' = [unseen EXCEPT ![n] =
       [d \in Domains |-> IF d \in configured[n] THEN 0 ELSE @[d]]]
  /\ UNCHANGED <<node, verdict, peers, mesh, lastAlert, history, changes>>

(* The keys domain_node that begin with the domain's name. *)
MatchingKeys(d) == Nodes \X Longer[d]

GetPeerDomainMetrics(n, d) ==
  SumFunction([k \in MatchingKeys(d) |-> peers[n][k].rps])

(* Mutants of isDomainAttack: the average of the nodes, this node alone. *)
AverageAttack(n, d) ==
  (rps[n][d] + GetPeerDomainMetrics(n, d)) \div Cardinality(Nodes) > Threshold[d]
LocalAttack(n, d) == rps[n][d] > Threshold[d]

isDomainAttack(n, d) == rps[n][d] + GetPeerDomainMetrics(n, d) > Threshold[d]

IsLeader(n) == \A m \in members[n] : Rank[n] <= Rank[m]

Starts(n) == {d \in configured[n] : isDomainAttack(n, d) /\ ~under[n][d]}

Quiet(n) == {d \in configured[n] : under[n][d] /\ ~isDomainAttack(n, d)}

(* Mutant of Ends: one tick too late. *)
EndsLate(n) == {d \in Quiet(n) : calm[n][d] >= Calm}

Ends(n) == {d \in Quiet(n) : calm[n][d] + 1 >= Calm}

(* Mutant of Announce: every node sends. *)
AnnounceAlways(n, starts, ends) ==
  lastAlert' = [d \in Domains |->
    IF d \in starts THEN "start" ELSE IF d \in ends THEN "end" ELSE lastAlert[d]]

(* canSend lets every attack alert through: their cooldown is zero, and    *)
(* RemoteSilence therefore silences none of them.                          *)
Announce(n, starts, ends) ==
  lastAlert' = [d \in Domains |->
    IF ~IsLeader(n) THEN lastAlert[d]
    ELSE IF d \in starts THEN "start"
    ELSE IF d \in ends THEN "end" ELSE lastAlert[d]]

attackDetector(n) ==
  /\ "detect" \in due[n]
  /\ due' = [due EXCEPT ![n] = @ \ {"detect"}]
  /\ under' = [under EXCEPT ![n] =
       [d \in Domains |-> (@[d] \/ d \in Starts(n)) /\ d \notin Ends(n)]]
  /\ calm' = [calm EXCEPT ![n] = [d \in Domains |->
       IF d \notin configured[n] THEN @[d]
       ELSE IF d \in Quiet(n) \ Ends(n) THEN @[d] + 1 ELSE 0]]
  /\ metric' = [metric EXCEPT ![n] =
       [d \in Domains |-> IF d \in configured[n] THEN rps[n][d] ELSE Silent]]
  /\ ended' = [ended EXCEPT ![n] = Ends(n)]
  /\ Announce(n, Starts(n), Ends(n))
  /\ UNCHANGED <<node, counter, peers, history, changes>>

(* A rate of zero counts like no entry. *)
Report(rate) == IF rate = 0 THEN None ELSE [rps |-> rate, age |-> 0]

(* Mutant of Receive: a node takes its own reports. *)
ReceiveOwn(n, p, d, stat) ==
  /\ Alive(n)
  /\ peers' = [peers EXCEPT ![n][<<p, d>>] = stat]
  /\ UNCHANGED <<node, due, counter, verdict, mesh, lastAlert, history, changes>>

(* Gossip: what a node has broadcast last may reach a peer any number of   *)
(* times and in any order, or never.  NotifyMsg ignores one's own.         *)
Receive(n, p, d, stat) ==
  /\ Alive(n) /\ p # n
  /\ peers' = [peers EXCEPT ![n][<<p, d>>] = stat]
  /\ UNCHANGED <<node, due, counter, verdict, mesh, lastAlert, history, changes>>

NotifyRate(n, p, d) ==
  /\ metric[p][d] # Silent
  /\ Receive(n, p, d, Report(metric[p][d]))

NotifyEnd(n, p, d) ==
  /\ d \in ended[p]
  /\ Receive(n, p, d, None)
-----------------------------------------------------------------------------
ReloadConfig(n, domains) ==
  /\ phase[n] = "running"
  /\ reloads + stops < MaxChanges /\ reloads' = reloads + 1
  /\ domains # configured[n]
  /\ configured' = [configured EXCEPT ![n] = domains]
  /\ loud' = [loud EXCEPT ![n] =
       [d \in Domains |-> IF d \in domains THEN @[d] ELSE 0]]
  /\ UNCHANGED <<phase, members, due, counter, verdict, peers, mesh, lastAlert,
                 busiest, stops>>

(* Stop announces the end of every attack and sleeps for a second in which *)
(* the tickers still run.                                                  *)
Stop(n) ==
  /\ phase[n] = "running"
  /\ reloads + stops < MaxChanges /\ stops' = stops + 1
  /\ phase' = [phase EXCEPT ![n] = "flushed"]
  /\ Announce(n, {}, {d \in Domains : under[n][d]})
  /\ UNCHANGED <<members, configured, due, counter, verdict, peers, mesh,
                 history, reloads>>

(* The tickers are cancelled and the process exits; it never leaves the    *)
(* mesh, so its peers find out by themselves.                              *)
Exit(n) ==
  /\ phase[n] = "slept"
  /\ phase' = [phase EXCEPT ![n] = "stopped"]
  /\ due' = [due EXCEPT ![n] = {}]
  /\ metric' = [metric EXCEPT ![n] = [d \in Domains |-> Silent]]
  /\ ended' = [ended EXCEPT ![n] = {}]
  /\ UNCHANGED <<members, configured, counter, verdict, peers, lastAlert,
                 history, changes>>

NotifyLeave(n, p) ==
  /\ Alive(n) /\ ~Alive(p) /\ p \in members[n]
  /\ members' = [members EXCEPT ![n] = @ \ {p}]
  /\ UNCHANGED <<phase, configured, due, counter, verdict, peers, mesh,
                 lastAlert, history, changes>>

Next ==
  \/ NextSecond
  \/ \E n \in Nodes :
       \/ rpsCounter(n) \/ attackDetector(n)
       \/ Stop(n) \/ Exit(n)
       \/ \E p \in Nodes : 
            \/ NotifyLeave(n, p)
            \/ \E d \in Domains : NotifyRate(n, p, d) \/ NotifyEnd(n, p, d)
       \/ \E domains \in SUBSET Domains : ReloadConfig(n, domains)

Spec == Init /\ [][Next]_vars

(* Tickers fire, their goroutines are scheduled, and of the rates a node   *)
(* keeps broadcasting some get through.  (A second ends only after all its *)
(* tickers were handled, so that fairness for one is fairness for each.)   *)
TickersRun == NextSecond \/ \E n \in Nodes : rpsCounter(n) \/ attackDetector(n)
Fairness ==
  /\ WF_vars(TickersRun)
  /\ \A n \in Nodes, d \in Domains : \A p \in Nodes \ {n} : SF_vars(NotifyRate(n, p, d))

FairSpec == Spec /\ Fairness
-----------------------------------------------------------------------------
(* Two seconds above the threshold in a row are enough: although the       *)
(* tickers are not synchronised and a node may count a second after it     *)
(* looked, the detector sees one of the two.                               *)
LocalFloodDetected ==
  \A n \in Nodes, d \in Domains :
    loud[n][d] = 2 /\ due[n] = {} /\ Alive(n) => under[n][d]

(* Until the configuration is reloaded, and unless the name of one domain  *)
(* begins with the name of another, a domain is under attack on a node     *)
(* only if the busiest seconds of all the nodes add up to more than the    *)
(* threshold: no report is counted twice or for another domain.            *)
BusiestSeconds(d) == SumFunction([n \in Nodes |-> busiest[n][d]])
AttackHasTraffic ==
  reloads = 0 =>
    \A n \in Nodes, d \in Domains :
      under[n][d] /\ Longer[d] = {d} => BusiestSeconds(d) > Threshold[d]

(* Until a node is stopped, what the cluster has announced last is what    *)
(* the leader sees: starts and ends alternate and none is missing, while   *)
(* the other nodes send nothing.                                           *)
AlertsFollowLeader ==
  stops = 0 =>
    \A n \in Nodes, d \in Domains :
      IsLeader(n) => (lastAlert[d] = "start") = under[n][d]

(* When the requests for a domain cease, attack mode ends on every node    *)
(* that keeps running, provided no node's configuration drops the domain.  *)
AttackEnds ==
  \A d \in Domains :
    <>[](\A n \in Nodes : unseen[n][d] = 0 /\ d \in configured[n])
    => <>[](\A n \in Nodes : Alive(n) => ~under[n][d])

(* When every second is busy and the nodes together exceed the threshold,  *)
(* some node keeps seeing the attack, although none alone need exceed it.  *)
(* (Not each of them: the end one node announces deletes its live rate at  *)
(* the others until the next report.)                                      *)
BusySeconds(d) ==
  \A m \in Nodes : "count" \in due[m] => unseen[m][d] = busiest[m][d]
SharedFloodDetected ==
  \A d \in Domains :
    /\ <>[](\A m \in Nodes : phase[m] = "running" /\ d \in configured[m])
    /\ <>[](BusySeconds(d) /\ BusiestSeconds(d) > Threshold[d])
    => []<>(\E n \in Nodes : under[n][d])
===============================================================================
