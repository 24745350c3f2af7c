------------------------- MODULE AttackDetectorProofs -------------------------
(* Theorems about AttackDetector: for any mesh, names, thresholds, loads. *)
EXTENDS AttackDetector, FiniteSetTheorems, TLAPS

(* Each node's tables keep their types: the quiet ticks counted towards    *)
(* the end of an attack stay below Calm, whatever the peers report.        *)
LEMMA InitTyped == Init => TypeOK
<1> SUFFICES ASSUME Init PROVE TypeOK
  OBVIOUS
<1> USE DetectorAssumption DEF Init
<1>1. None \in [rps : Nat, age : 0..Fresh]
  BY DEF None
<1>2. busiest \in [Nodes -> [Domains -> Nat]]
  BY DEF Rates
<1>3. \A v : \A S : v \in S => ForAll(v) \in [Nodes -> [Domains -> S]]
  BY DEF ForAll
<1>4. under \in [Nodes -> [Domains -> BOOLEAN]]
  BY <1>3, Zenon
<1>5. unseen \in [Nodes -> [Domains -> Nat]] /\ rps \in [Nodes -> [Domains -> Nat]]
  BY <1>3
<1>6. calm \in [Nodes -> [Domains -> 0..Calm - 1]] /\ loud \in [Nodes -> [Domains -> 0..2]]
  BY 0 \in 0..Calm - 1, 0 \in 0..2 DEF ForAll
<1>7. metric \in [Nodes -> [Domains -> Nat \cup {Silent}]]
  BY <1>3
<1>8. peers \in [Nodes -> [Nodes \X Domains -> [rps : Nat, age : 0..Fresh]]]
  BY <1>1
<1>9. /\ phase \in [Nodes -> {"running", "flushed", "slept", "stopped"}]
      /\ members \in [Nodes -> SUBSET Nodes]
      /\ configured \in [Nodes -> SUBSET Domains]
      /\ due \in [Nodes -> SUBSET Tickers]
      /\ ended \in [Nodes -> SUBSET Domains]
      /\ lastAlert \in [Domains -> {"none", "start", "end"}]
      /\ reloads \in Nat /\ stops \in Nat
  OBVIOUS
<1> QED
  BY <1>2, <1>4, <1>5, <1>6, <1>7, <1>8, <1>9, Zenon DEF TypeOK

LEMMA NextTyped == TypeOK /\ [Next]_vars => TypeOK'
<1> SUFFICES ASSUME TypeOK, [Next]_vars PROVE TypeOK'
  OBVIOUS
<1> USE DetectorAssumption
<1>0. None \in [rps : Nat, age : 0..Fresh]
  BY DEF None
<1>1. CASE NextSecond
  <2>1. PICK load \in [Nodes -> [Domains -> Rates \cup {0}]] :
           /\ unseen' = [n \in Nodes |-> [d \in Domains |-> unseen[n][d] + load[n][d]]]
           /\ loud' = [n \in Nodes |-> [d \in Domains |->
                IF load[n][d] > Threshold[d] /\ d \in configured[n]
                THEN IF loud[n][d] = 0 THEN 1 ELSE 2
                ELSE 0]]
    BY <1>1 DEF NextSecond
  <2>2. \A n \in Nodes, d \in Domains : load[n][d] \in Nat
    BY DEF Rates
  <2>3. unseen' \in [Nodes -> [Domains -> Nat]] /\ loud' \in [Nodes -> [Domains -> 0..2]]
    BY <2>1, <2>2 DEF TypeOK
  <2>4. \A s \in [rps : Nat, age : 0..Fresh] : Older(s) \in [rps : Nat, age : 0..Fresh]
    BY <1>0 DEF Older
  <2>5. peers' \in [Nodes -> [Nodes \X Domains -> [rps : Nat, age : 0..Fresh]]]
    BY <1>1, <2>4 DEF NextSecond, TypeOK
  <2>6. due' \in [Nodes -> SUBSET Tickers]
    BY <1>1 DEF NextSecond
  <2>7. phase' \in [Nodes -> {"running", "flushed", "slept", "stopped"}]
    BY <1>1 DEF NextSecond, TypeOK
  <2> QED
    BY <1>1, <2>3, <2>5, <2>6, <2>7 DEF NextSecond, TypeOK, verdict, mesh, changes
<1>2. ASSUME NEW n \in Nodes, rpsCounter(n) PROVE TypeOK'
  <2>1. rps' \in [Nodes -> [Domains -> Nat]] /\ unseen' \in [Nodes -> [Domains -> Nat]]
    BY <1>2 DEF rpsCounter, TypeOK
  <2>2. due' \in [Nodes -> SUBSET Tickers]
    BY <1>2 DEF rpsCounter, TypeOK
  <2>3. UNCHANGED <<node, verdict, peers, mesh, lastAlert, history, changes>>
    BY <1>2 DEF rpsCounter
  <2> QED
    BY <2>1, <2>2, <2>3 DEF TypeOK, node, verdict, mesh, history, changes
<1>3. ASSUME NEW n \in Nodes, attackDetector(n) PROVE TypeOK'
  <2>1. calm' \in [Nodes -> [Domains -> 0..Calm - 1]]
    <3>1. \A d \in Quiet(n) \ Ends(n) : calm[n][d] + 1 \in 0..Calm - 1
      BY DEF Ends, Quiet, TypeOK
    <3> QED
      BY <1>3, <3>1 DEF attackDetector, TypeOK
  <2>2. under' \in [Nodes -> [Domains -> BOOLEAN]]
    BY <1>3, Zenon DEF attackDetector, TypeOK
  <2>3. lastAlert' \in [Domains -> {"none", "start", "end"}]
    BY <1>3 DEF attackDetector, Announce, TypeOK
  <2>4. metric' \in [Nodes -> [Domains -> Nat \cup {Silent}]]
    BY <1>3 DEF attackDetector, TypeOK
  <2>5. ended' \in [Nodes -> SUBSET Domains]
    BY <1>3 DEF attackDetector, TypeOK, Ends, Quiet
  <2>6. due' \in [Nodes -> SUBSET Tickers]
    BY <1>3 DEF attackDetector, TypeOK
  <2> QED
    BY <1>3, <2>1, <2>2, <2>3, <2>4, <2>5, <2>6
    DEF attackDetector, TypeOK, node, counter, history, changes
<1>4. ASSUME NEW n \in Nodes, NEW p \in Nodes, NEW d \in Domains,
             NotifyRate(n, p, d) \/ NotifyEnd(n, p, d)
      PROVE TypeOK'
  <2>1. metric[p][d] # Silent => Report(metric[p][d]) \in [rps : Nat, age : 0..Fresh]
    BY <1>0 DEF TypeOK, Report
  <2>2. PICK s \in [rps : Nat, age : 0..Fresh] : Receive(n, p, d, s)
    BY <1>0, <1>4, <2>1 DEF NotifyRate, NotifyEnd
  <2> QED
    BY <2>2 DEF Receive, TypeOK, node, counter, verdict, mesh, history, changes
<1>5. ASSUME NEW n \in Nodes, NEW p \in Nodes, NotifyLeave(n, p) PROVE TypeOK'
  BY <1>5 DEF NotifyLeave, TypeOK, counter, verdict, mesh, history, changes
<1>6. ASSUME NEW n \in Nodes, NEW domains \in SUBSET Domains, ReloadConfig(n, domains)
      PROVE TypeOK'
  <2>1. loud' \in [Nodes -> [Domains -> 0..2]]
    BY <1>6 DEF ReloadConfig, TypeOK
  <2>2. configured' \in [Nodes -> SUBSET Domains]
    BY <1>6 DEF ReloadConfig, TypeOK
  <2>3. reloads' \in Nat
    BY <1>6 DEF ReloadConfig, TypeOK
  <2>4. /\ UNCHANGED <<phase, members, due, counter>>
        /\ UNCHANGED <<verdict, peers, mesh, lastAlert, busiest, stops>>
    BY <1>6 DEF ReloadConfig
  <2> QED
    BY <2>1, <2>2, <2>3, <2>4 DEF TypeOK, counter, verdict, mesh
<1>7. ASSUME NEW n \in Nodes, Stop(n) PROVE TypeOK'
  <2>1. PICK flushed : Announce(n, {}, flushed)
    BY <1>7 DEF Stop
  <2>2. lastAlert' \in [Domains -> {"none", "start", "end"}]
    BY <2>1 DEF Announce, TypeOK
  <2>3. phase' \in [Nodes -> {"running", "flushed", "slept", "stopped"}]
    BY <1>7 DEF Stop, TypeOK
  <2>4. stops' \in Nat
    BY <1>7 DEF Stop, TypeOK
  <2>5. /\ UNCHANGED <<members, configured, due>>
        /\ UNCHANGED <<counter, verdict, peers, mesh, history, reloads>>
    BY <1>7 DEF Stop
  <2> QED
    BY <2>2, <2>3, <2>4, <2>5 DEF TypeOK, counter, verdict, mesh, history
<1>8. ASSUME NEW n \in Nodes, Exit(n) PROVE TypeOK'
  BY <1>8 DEF Exit, TypeOK, counter, verdict, history, changes
<1>9. CASE UNCHANGED vars
  BY <1>9 DEF vars, TypeOK, node, counter, verdict, mesh, history, changes
<1> QED
  BY <1>1, <1>2, <1>3, <1>4, <1>5, <1>6, <1>7, <1>8, <1>9 DEF Next

(* The tables keep their types. *)
THEOREM TypeCorrect == Spec => []TypeOK
  BY InitTyped, NextTyped, PTL DEF Spec
-----------------------------------------------------------------------------
(* AlertsFollowLeader is inductive together with the fact that until a     *)
(* node is stopped every node runs and sees the whole mesh: then exactly   *)
(* one node, of the lowest rank, is the leader.                            *)
MeshWhole == stops = 0 => \A n \in Nodes : phase[n] = "running" /\ members[n] = Nodes

AlertInv == TypeOK /\ MeshWhole /\ AlertsFollowLeader

LEMMA OneLeader ==
  ASSUME TypeOK, MeshWhole, stops = 0,
         NEW m \in Nodes, NEW n \in Nodes, IsLeader(m), IsLeader(n)
  PROVE  m = n
<1>1. Rank[m] <= Rank[n] /\ Rank[n] <= Rank[m]
  BY DEF MeshWhole, IsLeader
<1> QED
  BY <1>1, DetectorAssumption

LEMMA InitAlerts == Init => AlertInv
<1> SUFFICES ASSUME Init PROVE MeshWhole /\ AlertsFollowLeader
  BY InitTyped DEF AlertInv
<1>1. MeshWhole
  BY DEF Init, MeshWhole
<1>2. \A n \in Nodes, d \in Domains : under[n][d] = FALSE
  BY Zenon DEF Init, ForAll
<1>3. \A d \in Domains : lastAlert[d] # "start"
  BY DEF Init
<1> QED
  BY <1>1, <1>2, <1>3, Zenon DEF AlertsFollowLeader

(* Only attackDetector and Stop touch what AlertsFollowLeader speaks of. *)
LEMMA AlertsUntouched ==
  ASSUME AlertInv, UNCHANGED <<members, under, lastAlert>>, stops' = stops
  PROVE  AlertsFollowLeader'
<1>1. \A n \in Nodes : IsLeader(n)' = IsLeader(n)
  BY DEF IsLeader
<1> QED
  BY <1>1, Zenon DEF AlertInv, AlertsFollowLeader

LEMMA NextAlerts == AlertInv /\ [Next]_vars => AlertInv'
<1> SUFFICES ASSUME AlertInv, [Next]_vars PROVE MeshWhole' /\ AlertsFollowLeader'
  BY NextTyped DEF AlertInv
<1>1. CASE NextSecond
  <2>1. /\ UNCHANGED <<members, under, lastAlert, stops>>
        /\ \A n \in Nodes : phase[n] = "running" => phase'[n] = "running"
    BY <1>1 DEF NextSecond, verdict, changes
  <2> QED
    BY <2>1, AlertsUntouched DEF AlertInv, MeshWhole
<1>2. ASSUME NEW n \in Nodes, rpsCounter(n) PROVE MeshWhole' /\ AlertsFollowLeader'
  BY <1>2, AlertsUntouched DEF rpsCounter, node, verdict, changes, AlertInv, MeshWhole
<1>3. ASSUME NEW n \in Nodes, attackDetector(n) PROVE MeshWhole' /\ AlertsFollowLeader'
  <2>1. UNCHANGED <<phase, members, stops>>
    BY <1>3 DEF attackDetector, node, changes
  <2>2. MeshWhole'
    BY <2>1 DEF AlertInv, MeshWhole
  <2>3. \A m \in Nodes : IsLeader(m)' = IsLeader(m)
    BY <2>1 DEF IsLeader
  <2>4. SUFFICES ASSUME stops = 0, NEW m \in Nodes, NEW d \in Domains, IsLeader(m)
                 PROVE  (lastAlert'[d] = "start") = under'[m][d]
    BY <2>1, <2>2, <2>3, Zenon DEF AlertsFollowLeader
  <2>5. (lastAlert[d] = "start") = under[m][d]
    BY <2>4, Zenon DEF AlertInv, AlertsFollowLeader
  <2>6. CASE m # n
    <3>1. ~IsLeader(n)
      BY <2>4, <2>6, OneLeader DEF AlertInv
    <3>2. lastAlert'[d] = lastAlert[d]
      BY <1>3, <3>1 DEF attackDetector, Announce
    <3>3. under'[m] = under[m]
      BY <1>3, <2>6 DEF attackDetector, AlertInv, TypeOK
    <3> QED
      BY <2>5, <3>2, <3>3, Zenon
  <2>7. CASE m = n
    <3>1. under'[n][d] = ((under[n][d] \/ d \in Starts(n)) /\ d \notin Ends(n))
      BY <1>3, Zenon DEF attackDetector, AlertInv, TypeOK
    <3>2. lastAlert'[d] = IF d \in Starts(n) THEN "start"
                          ELSE IF d \in Ends(n) THEN "end" ELSE lastAlert[d]
      BY <1>3, <2>4, <2>7 DEF attackDetector, Announce
    <3>3. d \in Starts(n) => d \notin Ends(n)
      BY Zenon DEF Starts, Ends, Quiet
    <3>4. "start" # "end"
      OBVIOUS
    <3> QED
      BY <2>5, <2>7, <3>1, <3>2, <3>3, <3>4, Zenon
  <2> QED
    BY <2>2, <2>6, <2>7
<1>4. ASSUME NEW n \in Nodes, NEW p \in Nodes, NEW d \in Domains,
             NotifyRate(n, p, d) \/ NotifyEnd(n, p, d)
      PROVE MeshWhole' /\ AlertsFollowLeader'
  <2>1. UNCHANGED <<phase, members, under, lastAlert, stops>>
    BY <1>4 DEF NotifyRate, NotifyEnd, Receive, node, verdict, changes
  <2> QED
    BY <2>1, AlertsUntouched DEF AlertInv, MeshWhole
<1>5. ASSUME NEW n \in Nodes, NEW p \in Nodes, NotifyLeave(n, p)
      PROVE MeshWhole' /\ AlertsFollowLeader'
  <2>1. phase[p] = "stopped" /\ stops' = stops
    BY <1>5 DEF NotifyLeave, Alive, changes
  <2>2. stops # 0
    BY <2>1 DEF AlertInv, MeshWhole
  <2> QED
    BY <2>1, <2>2 DEF MeshWhole, AlertsFollowLeader
<1>6. ASSUME NEW n \in Nodes, NEW domains \in SUBSET Domains, ReloadConfig(n, domains)
      PROVE MeshWhole' /\ AlertsFollowLeader'
  BY <1>6, AlertsUntouched DEF ReloadConfig, verdict, AlertInv, MeshWhole
<1>7. ASSUME NEW n \in Nodes, Stop(n) PROVE MeshWhole' /\ AlertsFollowLeader'
  <2>1. stops' # 0
    BY <1>7 DEF Stop, AlertInv, TypeOK
  <2> QED
    BY <2>1 DEF MeshWhole, AlertsFollowLeader
<1>8. ASSUME NEW n \in Nodes, Exit(n) PROVE MeshWhole' /\ AlertsFollowLeader'
  <2>1. phase[n] = "slept" /\ stops' = stops
    BY <1>8 DEF Exit, changes
  <2>2. stops # 0
    BY <2>1 DEF AlertInv, MeshWhole
  <2> QED
    BY <2>1, <2>2 DEF MeshWhole, AlertsFollowLeader
<1>9. CASE UNCHANGED vars
  BY <1>9, AlertsUntouched DEF vars, node, verdict, changes, AlertInv, MeshWhole
<1> QED
  BY <1>1, <1>2, <1>3, <1>4, <1>5, <1>6, <1>7, <1>8, <1>9 DEF Next

(* Until a node is stopped, the last alert about a domain says what the    *)
(* leader sees, in a mesh of any size and whatever messages are lost,      *)
(* repeated or late: no attack of the leader's goes unannounced and no     *)
(* start or end is announced twice.                                        *)
THEOREM OneVoice == Spec => []AlertsFollowLeader
<1>1. AlertInv => AlertsFollowLeader
  BY DEF AlertInv
<1> QED
  BY <1>1, InitAlerts, NextAlerts, PTL DEF Spec
-----------------------------------------------------------------------------
(* Of a set of subsets of a finite set, one has no other below it: where a   *)
(* claim about finite sets fails, it fails for a smallest set.               *)
LEMMA MinimalSet ==
  ASSUME NEW S, IsFiniteSet(S), NEW U, U \subseteq SUBSET S, U # {}
  PROVE  \E T \in U : \A s \in U : s \subseteq T => s = T
<1> DEFINE Size == {Cardinality(T) : T \in U}
<1>1. \A T \in U : IsFiniteSet(T) /\ Cardinality(T) \in Nat
  BY FS_Subset, FS_CardinalityType
<1>2. Size \subseteq Nat /\ Size # {}
  BY <1>1
<1>3. PICK k \in Size : \A i \in Size : <<i, k>> \notin OpToRel(<, Nat)
  <2> HIDE DEF Size
  <2> QED
    BY <1>2, NatLessThanWellFounded, WFMin
<1>4. \A i \in Size : ~(i < k)
  <2> SUFFICES ASSUME NEW i \in Size, i < k PROVE FALSE
    OBVIOUS
  <2>1. <<i, k>> \in OpToRel(<, Nat)
    BY <1>2 DEF OpToRel
  <2> QED
    BY <2>1, <1>3
<1>5. PICK T \in U : Cardinality(T) = k
  OBVIOUS
<1>6. ASSUME NEW s \in U, s \subseteq T PROVE s = T
  <2>1. Cardinality(s) <= Cardinality(T) /\ (Cardinality(T) = Cardinality(s) => T = s)
    BY <1>1, <1>6, FS_Subset
  <2>2. Cardinality(s) \in Size
    OBVIOUS
  <2>3. ~(Cardinality(s) < Cardinality(T))
    BY <2>2, <1>4, <1>5
  <2> QED
    BY <2>1, <2>3, <1>1
<1> QED
  BY <1>6

(* The loop of SumFunctionOnSet: what it adds for each subset it meets. *)
Pick(s) == CHOOSE x \in s : TRUE
Added(f, g, s) == IF s = {} THEN 0 ELSE f[Pick(s)] + g[s \ {Pick(s)}]
Loop(f, g, S) == g = [s \in SUBSET S |-> Added(f, g, s)]

LEMMA SumIsLoop ==
  ASSUME NEW f, NEW S
  PROVE  SumFunctionOnSet(f, S) = (CHOOSE g : Loop(f, g, S))[S]
BY Zenon DEF SumFunctionOnSet, FoldFunctionOnSet, MapThenFoldSet, Loop, Added, Pick

(* Two loops agree on the finite sets that both meet. *)
LEMMA OneLoop ==
  ASSUME NEW f, NEW S, NEW R, NEW g, NEW h, Loop(f, g, S), Loop(f, h, R),
         NEW T, T \subseteq S, T \subseteq R, IsFiniteSet(T)
  PROVE  g[T] = h[T]
<1> DEFINE Bad == {s \in SUBSET T : g[s] # h[s]}
<1>1. \A s \in SUBSET T : g[s] = Added(f, g, s) /\ h[s] = Added(f, h, s)
  BY DEF Loop
<1>2. Bad = {}
  <2> SUFFICES ASSUME Bad # {} PROVE FALSE
    OBVIOUS
  <2>1. PICK s \in Bad : \A r \in Bad : r \subseteq s => r = s
    <3>1. Bad \subseteq SUBSET T
      OBVIOUS
    <3> HIDE DEF Bad
    <3> QED
      BY <3>1, MinimalSet
  <2>2. s # {}
    <3>1. s = {} => g[s] = h[s]
      BY <1>1 DEF Added
    <3> QED
      BY <3>1
  <2>3. Pick(s) \in s
    BY <2>2 DEF Pick
  <2>4. s \ {Pick(s)} \notin Bad
    BY <2>1, <2>3
  <2>5. g[s \ {Pick(s)}] = h[s \ {Pick(s)}]
    BY <2>4
  <2> HIDE DEF Bad
  <2>6. Added(f, g, s) = Added(f, h, s)
    BY <2>5 DEF Added
  <2> QED
    BY <1>1, <2>6 DEF Bad
<1> QED
  BY <1>2

(* For a finite set the loop exists. *)
LEMMA LoopExists ==
  ASSUME NEW f, NEW S, IsFiniteSet(S)
  PROVE  \E g : Loop(f, g, S)
<1> DEFINE Bad == {s \in SUBSET S : ~\E g : Loop(f, g, s)}
<1>1. Bad = {}
  <2> SUFFICES ASSUME Bad # {} PROVE FALSE
    OBVIOUS
  <2>1. PICK T \in Bad : \A s \in Bad : s \subseteq T => s = T
    <3>1. Bad \subseteq SUBSET S
      OBVIOUS
    <3> HIDE DEF Bad
    <3> QED
      BY <3>1, MinimalSet
  <2> DEFINE of(s) == CHOOSE g : Loop(f, g, s)
             val(s) == of(s)[s]
             low == [s \in SUBSET T |-> val(s)]
             h == [s \in SUBSET T |-> IF s = T THEN Added(f, low, T) ELSE val(s)]
  <2>2. \A s \in SUBSET T : s # T => Loop(f, of(s), s)
    BY <2>1
  <2>3. \A s \in SUBSET T : IsFiniteSet(s)
    BY FS_Subset
  <2>4. ASSUME NEW s \in SUBSET T, s # T, s # {}
        PROVE  val(s) = f[Pick(s)] + val(s \ {Pick(s)})
    <3>1. Pick(s) \in s
      BY <2>4 DEF Pick
    <3>2. s \ {Pick(s)} \in SUBSET T /\ s \ {Pick(s)} # T
      BY <2>4, <3>1
    <3>3. Loop(f, of(s), s) /\ Loop(f, of(s \ {Pick(s)}), s \ {Pick(s)})
      BY <2>2, <2>4, <3>2
    <3>4. of(s)[s \ {Pick(s)}] = of(s \ {Pick(s)})[s \ {Pick(s)}]
      <4> HIDE DEF of
      <4> QED
        BY <3>2, <3>3, <2>3, OneLoop
    <3>5. of(s)[s] = Added(f, of(s), s)
      <4> HIDE DEF of
      <4> QED
        BY <3>3 DEF Loop
    <3> QED
      BY <2>4, <3>4, <3>5 DEF Added
  <2>5. val({}) = 0 \/ T = {}
    <3>1. ASSUME T # {} PROVE Loop(f, of({}), {})
      BY <2>2, <3>1
    <3> HIDE DEF of
    <3> QED
      BY <3>1 DEF Loop, Added
  <2>6. Loop(f, h, T)
    <3> SUFFICES ASSUME NEW s \in SUBSET T PROVE h[s] = Added(f, h, s)
      BY DEF Loop
    <3>1. CASE s = {}
      <4> HIDE DEF of
      <4> QED
        BY <3>1, <2>5 DEF Added
    <3>2. CASE s # {}
      <4>1. Pick(s) \in s
        BY <3>2 DEF Pick
      <4>2. s \ {Pick(s)} \in SUBSET T /\ s \ {Pick(s)} # T
        BY <4>1
      <4>3. h[s \ {Pick(s)}] = val(s \ {Pick(s)})
        <5> HIDE DEF val
        <5> QED
          BY <4>2
      <4>4. CASE s = T
        <5> HIDE DEF val
        <5> QED
          BY <3>2, <4>2, <4>3, <4>4 DEF Added
      <4>5. CASE s # T
        <5>1. val(s) = f[Pick(s)] + val(s \ {Pick(s)})
          BY <2>4, <3>2, <4>5
        <5> HIDE DEF val
        <5> QED
          BY <3>2, <4>3, <4>5, <5>1 DEF Added
      <4> QED
        BY <4>4, <4>5
    <3> QED
      BY <3>1, <3>2
  <2>7. \E g : Loop(f, g, T)
    <3> HIDE DEF h
    <3> QED
      BY <2>6
  <2> QED
    BY <2>1, <2>7
<1> QED
  BY <1>1

(* So a sum over a finite set is what it should be: nothing for the empty   *)
(* set, and otherwise one element's value and the sum over the others.      *)
LEMMA SumByPick ==
  ASSUME NEW f, NEW S, IsFiniteSet(S)
  PROVE  SumFunctionOnSet(f, S) =
           IF S = {} THEN 0 ELSE f[Pick(S)] + SumFunctionOnSet(f, S \ {Pick(S)})
<1> DEFINE of(s) == CHOOSE g : Loop(f, g, s)
<1>1. \A s : IsFiniteSet(s) => Loop(f, of(s), s)
  BY LoopExists
<1>2. \A s : SumFunctionOnSet(f, s) = of(s)[s]
  BY SumIsLoop
<1> HIDE DEF of
<1>3. of(S)[S] = Added(f, of(S), S)
  BY <1>1 DEF Loop
<1>4. CASE S = {}
  BY <1>2, <1>3, <1>4 DEF Added
<1>5. CASE S # {}
  <2>1. IsFiniteSet(S \ {Pick(S)})
    BY FS_RemoveElement
  <2>2. of(S)[S \ {Pick(S)}] = of(S \ {Pick(S)})[S \ {Pick(S)}]
    <3>1. Loop(f, of(S), S) /\ Loop(f, of(S \ {Pick(S)}), S \ {Pick(S)})
      BY <1>1, <2>1
    <3> QED
      BY <2>1, <3>1, OneLoop
  <2> QED
    BY <1>2, <1>3, <1>5, <2>2 DEF Added
<1> QED
  BY <1>4, <1>5

(* The sum of natural numbers is one. *)
LEMMA SumNat ==
  ASSUME NEW f, NEW S, IsFiniteSet(S), \A x \in S : f[x] \in Nat
  PROVE  SumFunctionOnSet(f, S) \in Nat
<1> DEFINE Bad == {s \in SUBSET S : SumFunctionOnSet(f, s) \notin Nat}
<1>1. Bad = {}
  <2> SUFFICES ASSUME Bad # {} PROVE FALSE
    OBVIOUS
  <2>1. PICK s \in Bad : \A r \in Bad : r \subseteq s => r = s
    <3>1. Bad \subseteq SUBSET S
      OBVIOUS
    <3> HIDE DEF Bad
    <3> QED
      BY <3>1, MinimalSet
  <2>2. IsFiniteSet(s)
    BY FS_Subset
  <2>3. s # {}
    <3>1. s = {} => SumFunctionOnSet(f, s) = 0
      BY <2>2, SumByPick
    <3> QED
      BY <3>1
  <2>4. Pick(s) \in s
    BY <2>3 DEF Pick
  <2>5. SumFunctionOnSet(f, s \ {Pick(s)}) \in Nat
    BY <2>1, <2>4
  <2>6. SumFunctionOnSet(f, s) = f[Pick(s)] + SumFunctionOnSet(f, s \ {Pick(s)})
    BY <2>2, <2>3, SumByPick
  <2>7. f[Pick(s)] \in Nat
    BY <2>1, <2>4
  <2> QED
    BY <2>1, <2>5, <2>6, <2>7
<1> QED
  BY <1>1

(* Any element may be added last. *)
LEMMA SumByAny ==
  ASSUME NEW f, NEW S, IsFiniteSet(S), \A x \in S : f[x] \in Nat, NEW x \in S
  PROVE  SumFunctionOnSet(f, S) = f[x] + SumFunctionOnSet(f, S \ {x})
<1> DEFINE Sum(s) == SumFunctionOnSet(f, s)
           Bad == {s \in SUBSET S : \E y \in s : Sum(s) # f[y] + Sum(s \ {y})}
<1>1. Bad = {}
  <2> SUFFICES ASSUME Bad # {} PROVE FALSE
    OBVIOUS
  <2>1. PICK s \in Bad : \A r \in Bad : r \subseteq s => r = s
    <3>1. Bad \subseteq SUBSET S
      OBVIOUS
    <3> HIDE DEF Bad
    <3> QED
      BY <3>1, MinimalSet
  <2>2. PICK y \in s : Sum(s) # f[y] + Sum(s \ {y})
    OBVIOUS
  <2>3. IsFiniteSet(s) /\ Pick(s) \in s
    BY <2>2, FS_Subset DEF Pick
  <2>4. Sum(s) = f[Pick(s)] + Sum(s \ {Pick(s)})
    BY <2>2, <2>3, SumByPick
  <2>5. Pick(s) # y
    BY <2>2, <2>4
  <2>6. s \ {Pick(s)} \notin Bad /\ s \ {y} \notin Bad
    BY <2>1, <2>2, <2>3
  <2>7. Sum(s \ {Pick(s)}) = f[y] + Sum((s \ {Pick(s)}) \ {y})
    BY <2>2, <2>5, <2>6
  <2>8. Sum(s \ {y}) = f[Pick(s)] + Sum((s \ {y}) \ {Pick(s)})
    BY <2>3, <2>5, <2>6
  <2>9. (s \ {y}) \ {Pick(s)} = (s \ {Pick(s)}) \ {y}
    OBVIOUS
  <2>10. Sum((s \ {y}) \ {Pick(s)}) \in Nat /\ f[y] \in Nat /\ f[Pick(s)] \in Nat
    <3>1. IsFiniteSet((s \ {y}) \ {Pick(s)})
      BY <2>3, FS_RemoveElement
    <3>2. \A z \in (s \ {y}) \ {Pick(s)} : f[z] \in Nat
      OBVIOUS
    <3> QED
      BY <3>1, <3>2, <2>3, SumNat
  <2>11. Sum((s \ {Pick(s)}) \ {y}) = Sum((s \ {y}) \ {Pick(s)})
    BY <2>9, Zenon
  <2> HIDE DEF Sum
  <2>12. Sum(s) = f[y] + Sum(s \ {y})
    BY <2>4, <2>7, <2>8, <2>10, <2>11
  <2> QED
    BY <2>2, <2>12
<1> QED
  BY <1>1
-----------------------------------------------------------------------------
(* The rates reported by the peers never count against an attack. *)
LEMMA PeersAddUp ==
  ASSUME TypeOK, NEW n \in Nodes, NEW d \in Domains
  PROVE  GetPeerDomainMetrics(n, d) \in Nat
<1> DEFINE r == [k \in MatchingKeys(d) |-> peers[n][k].rps]
<1>1. MatchingKeys(d) \subseteq Nodes \X Domains
  BY DetectorAssumption DEF MatchingKeys
<1>2. IsFiniteSet(MatchingKeys(d))
  BY <1>1, DetectorAssumption, FS_Product, FS_Subset
<1>3. \A k \in MatchingKeys(d) : peers[n][k] \in [rps : Nat, age : 0..Fresh]
  BY <1>1 DEF TypeOK
<1>4. \A k \in MatchingKeys(d) : r[k] \in Nat
  BY <1>3
<1>5. DOMAIN r = MatchingKeys(d)
  OBVIOUS
<1> HIDE DEF r
<1>6. SumFunctionOnSet(r, MatchingKeys(d)) \in Nat
  BY <1>2, <1>4, SumNat
<1>7. SumFunction(r) = SumFunctionOnSet(r, MatchingKeys(d))
  BY <1>5 DEF SumFunction
<1> QED
  BY <1>6, <1>7 DEF GetPeerDomainMetrics, r

(* A node alone above the threshold sees an attack. *)
LEMMA LoudIsAttack ==
  ASSUME TypeOK, NEW n \in Nodes, NEW d \in Domains, rps[n][d] > Threshold[d]
  PROVE  isDomainAttack(n, d)
<1>1. rps[n][d] \in Nat
  BY DEF TypeOK
<1>2. Threshold[d] \in Nat
  BY DetectorAssumption
<1>3. GetPeerDomainMetrics(n, d) \in Nat
  BY PeersAddUp
<1> QED
  BY <1>1, <1>2, <1>3 DEF isDomainAttack

(* Through a flood of its own a node keeps the rate that shows it, from     *)
(* before the second in which it must have been seen.                       *)
FloodSeen(n, d) ==
  Alive(n) /\ loud[n][d] # 0 =>
    /\ d \in configured[n]
    /\ "count" \in due[n] => unseen[n][d] > Threshold[d]
    /\ "count" \notin due[n] \/ loud[n][d] = 2 => rps[n][d] > Threshold[d]
    /\ "detect" \notin due[n] /\ loud[n][d] = 2 => under[n][d]

FloodInv == TypeOK /\ \A n \in Nodes, d \in Domains : FloodSeen(n, d)

LEMMA InitFlood == Init => FloodInv
<1> SUFFICES ASSUME Init PROVE \A n \in Nodes, d \in Domains : FloodSeen(n, d)
  BY InitTyped DEF FloodInv
<1>1. loud = [n \in Nodes |-> [d \in Domains |-> 0]]
  BY DEF Init, ForAll
<1>2. \A n \in Nodes, d \in Domains : loud[n][d] = 0
  BY <1>1
<1> QED
  BY <1>2 DEF FloodSeen

LEMMA NextFlood == FloodInv /\ [Next]_vars => FloodInv'
<1> SUFFICES ASSUME FloodInv, [Next]_vars, NEW n \in Nodes, NEW d \in Domains
             PROVE  FloodSeen(n, d)'
  BY NextTyped DEF FloodInv
<1>t. TypeOK /\ FloodSeen(n, d)
  BY DEF FloodInv
<1>u. ASSUME UNCHANGED <<phase, configured, due, unseen, rps, under, loud>>
      PROVE  FloodSeen(n, d)'
  BY <1>t, <1>u DEF FloodSeen, Alive
<1>1. CASE NextSecond
  <2>1. PICK load \in [Nodes -> [Domains -> Rates \cup {0}]] :
          /\ load[n][d] \in IF Alive(n) THEN {0, busiest[n][d]} ELSE {0}
          /\ unseen' = [m \in Nodes |-> [c \in Domains |-> unseen[m][c] + load[m][c]]]
          /\ loud' = [m \in Nodes |-> [c \in Domains |->
               IF load[m][c] > Threshold[c] /\ c \in configured[m]
               THEN IF loud[m][c] = 0 THEN 1 ELSE 2
               ELSE 0]]
    BY <1>1 DEF NextSecond
  <2>2. /\ due[n] = {} /\ due'[n] = (IF Alive(n) THEN Tickers ELSE {})
        /\ UNCHANGED <<configured, rps, under>>
        /\ Alive(n)' <=> Alive(n)
    BY <1>1, <1>t DEF NextSecond, verdict, Alive, TypeOK
  <2>3. /\ unseen'[n][d] = unseen[n][d] + load[n][d]
        /\ loud'[n][d] = IF load[n][d] > Threshold[d] /\ d \in configured[n]
                         THEN IF loud[n][d] = 0 THEN 1 ELSE 2 ELSE 0
    BY <2>1
  <2>4. busiest[n][d] \in Nat /\ unseen[n][d] \in Nat /\ loud[n][d] \in 0..2
    BY <1>t DEF TypeOK
  <2>5. load[n][d] \in Nat /\ Threshold[d] \in Nat
    BY <2>1, <2>4, DetectorAssumption
  <2> QED
    BY <1>t, <2>2, <2>3, <2>4, <2>5 DEF FloodSeen, Tickers
<1>2. ASSUME NEW m \in Nodes, rpsCounter(m) PROVE FloodSeen(n, d)'
  <2>1. /\ "count" \in due[m] /\ UNCHANGED <<phase, configured, under, loud>>
        /\ due' = [due EXCEPT ![m] = @ \ {"count"}]
    BY <1>2 DEF rpsCounter, node, verdict, history
  <2>2. CASE m # n
    <3>1. due'[n] = due[n] /\ unseen'[n] = unseen[n] /\ rps'[n] = rps[n]
      BY <1>2, <1>t, <2>2 DEF rpsCounter, TypeOK
    <3> QED
      BY <1>t, <2>1, <3>1 DEF FloodSeen, Alive
  <2>3. CASE m = n
    <3>1. due'[n] = due[n] \ {"count"}
      BY <1>t, <2>1, <2>3 DEF TypeOK
    <3>2. d \in configured[n] => rps'[n][d] = unseen[n][d]
      BY <1>2, <1>t, <2>3 DEF rpsCounter, TypeOK
    <3>3. "detect" \in due'[n] <=> "detect" \in due[n]
      BY <3>1
    <3>4. "count" \notin due'[n] /\ "count" \in due[n]
      BY <2>1, <2>3, <3>1
    <3> QED
      BY <1>t, <2>1, <3>2, <3>3, <3>4 DEF FloodSeen, Alive
  <2> QED
    BY <2>2, <2>3
<1>3. ASSUME NEW m \in Nodes, attackDetector(m) PROVE FloodSeen(n, d)'
  <2>1. /\ UNCHANGED <<phase, configured, unseen, rps, loud>>
        /\ due' = [due EXCEPT ![m] = @ \ {"detect"}]
    BY <1>3 DEF attackDetector, node, counter, history
  <2>2. CASE m # n
    <3>1. due'[n] = due[n] /\ under'[n] = under[n]
      BY <1>3, <1>t, <2>2 DEF attackDetector, TypeOK
    <3> QED
      BY <1>t, <2>1, <3>1 DEF FloodSeen, Alive
  <2>3. CASE m = n
    <3>1. due'[n] = due[n] \ {"detect"}
      BY <1>t, <2>1, <2>3 DEF TypeOK
    <3>2. under'[n][d] = ((under[n][d] \/ d \in Starts(n)) /\ d \notin Ends(n))
      BY <1>3, <1>t, <2>3, Zenon DEF attackDetector, TypeOK
    <3>3. ASSUME Alive(n), loud[n][d] = 2 PROVE under'[n][d]
      <4>1. d \in configured[n] /\ isDomainAttack(n, d)
        BY <1>t, <3>3, LoudIsAttack DEF FloodSeen
      <4>2. (under[n][d] \/ d \in Starts(n)) /\ d \notin Ends(n)
        BY <4>1, Zenon DEF Starts, Ends, Quiet
      <4> QED
        BY <3>2, <4>2, Zenon
    <3>4. "count" \in due'[n] <=> "count" \in due[n]
      BY <3>1
    <3>5. Alive(n)' = Alive(n)
      BY <2>1 DEF Alive
    <3> QED
      BY <1>t, <2>1, <3>3, <3>4, <3>5, Zenon DEF FloodSeen
  <2> QED
    BY <2>2, <2>3
<1>4. ASSUME NEW m \in Nodes, NEW p \in Nodes, NEW c \in Domains,
             NotifyRate(m, p, c) \/ NotifyEnd(m, p, c)
      PROVE FloodSeen(n, d)'
  BY <1>4, <1>u DEF NotifyRate, NotifyEnd, Receive, node, counter, verdict, history
<1>5. ASSUME NEW m \in Nodes, NEW p \in Nodes, NotifyLeave(m, p) PROVE FloodSeen(n, d)'
  BY <1>5, <1>u DEF NotifyLeave, counter, verdict, history
<1>6. ASSUME NEW m \in Nodes, NEW domains \in SUBSET Domains, ReloadConfig(m, domains)
      PROVE FloodSeen(n, d)'
  <2>1. UNCHANGED <<phase, due, unseen, rps, under>>
    BY <1>6 DEF ReloadConfig, counter, verdict
  <2>2. CASE m # n
    <3>1. configured'[n] = configured[n] /\ loud'[n] = loud[n]
      BY <1>6, <1>t, <2>2 DEF ReloadConfig, TypeOK
    <3> QED
      BY <1>t, <2>1, <3>1 DEF FloodSeen, Alive
  <2>3. CASE m = n
    <3>1. /\ configured'[n] = domains
          /\ loud'[n][d] = IF d \in domains THEN loud[n][d] ELSE 0
      BY <1>6, <1>t, <2>3 DEF ReloadConfig, TypeOK
    <3> QED
      BY <1>t, <2>1, <3>1 DEF FloodSeen, Alive
  <2> QED
    BY <2>2, <2>3
<1>7. ASSUME NEW m \in Nodes, Stop(m) PROVE FloodSeen(n, d)'
  <2>1. /\ UNCHANGED <<configured, due, unseen, rps, under, loud>>
        /\ Alive(n)' => Alive(n)
    BY <1>7, <1>t DEF Stop, counter, verdict, history, Alive, TypeOK
  <2> QED
    BY <1>t, <2>1 DEF FloodSeen
<1>8. ASSUME NEW m \in Nodes, Exit(m) PROVE FloodSeen(n, d)'
  <2>1. UNCHANGED <<configured, unseen, rps, under, loud>>
    BY <1>8 DEF Exit, counter, verdict, history
  <2>2. Alive(n)' => Alive(n) /\ due'[n] = due[n]
    BY <1>8, <1>t DEF Exit, Alive, TypeOK
  <2> QED
    BY <1>t, <2>1, <2>2 DEF FloodSeen
<1>9. CASE UNCHANGED vars
  BY <1>9, <1>u DEF vars, node, counter, verdict, history
<1> QED
  BY <1>1, <1>2, <1>3, <1>4, <1>5, <1>6, <1>7, <1>8, <1>9 DEF Next

(* Two seconds above the threshold in a row put a domain under attack on    *)
(* the node that sees them, in whichever order its two tickers are handled  *)
(* in each of them, whatever the peers report and whatever is reloaded.     *)
THEOREM FloodDetected == Spec => []LocalFloodDetected
<1>1. FloodInv => LocalFloodDetected
  BY DEF FloodInv, FloodSeen, LocalFloodDetected
<1> QED
  BY <1>1, InitFlood, NextFlood, PTL DEF Spec
-----------------------------------------------------------------------------
(* A value for one of several nodes and what a table of pairs holds for the *)
(* others add up to no more than bounds of each of them.                    *)
LEMMA SumBounded ==
  ASSUME NEW S, IsFiniteSet(S), NEW d, NEW f, NEW b, NEW r \in Nat, NEW n \in S,
         \A p \in S : b[p] \in Nat /\ f[<<p, d>>] \in Nat,
         \A p \in S : f[<<p, d>>] <= IF p = n THEN 0 ELSE b[p],
         r <= b[n]
  PROVE  r + SumFunctionOnSet(f, S \X {d}) <= SumFunctionOnSet(b, S)
<1> DEFINE own(T) == IF n \in T THEN r ELSE 0
           Fits(T) == own(T) + SumFunctionOnSet(f, T \X {d}) <= SumFunctionOnSet(b, T)
           Bad == {T \in SUBSET S : ~Fits(T)}
<1>1. Bad = {}
  <2> SUFFICES ASSUME Bad # {} PROVE FALSE
    OBVIOUS
  <2>1. PICK T \in Bad : \A s \in Bad : s \subseteq T => s = T
    <3>1. Bad \subseteq SUBSET S
      OBVIOUS
    <3> HIDE DEF Bad
    <3> QED
      BY <3>1, MinimalSet
  <2>2. T \subseteq S /\ IsFiniteSet(T) /\ ~Fits(T)
    BY FS_Subset
  <2>3. T # {}
    <3>1. SumFunctionOnSet(f, {}) = 0 /\ SumFunctionOnSet(b, {}) = 0
      BY SumByPick, FS_EmptySet
    <3>2. {} \X {d} = {} /\ n \notin {}
      OBVIOUS
    <3>3. Fits({})
      BY <3>1, <3>2
    <3> QED
      BY <2>2, <3>3
  <2> DEFINE p == Pick(T)
  <2>4. p \in T /\ p \in S
    BY <2>2, <2>3 DEF Pick
  <2> HIDE DEF p
  <2>5. Fits(T \ {p})
    BY <2>1, <2>2, <2>4
  <2>6. SumFunctionOnSet(b, T) = b[p] + SumFunctionOnSet(b, T \ {p})
    BY <2>2, <2>3, SumByPick DEF p
  <2>7. SumFunctionOnSet(f, T \X {d}) = f[<<p, d>>] + SumFunctionOnSet(f, (T \ {p}) \X {d})
    <3>1. IsFiniteSet(T \X {d})
      BY <2>2, FS_Product, FS_Singleton
    <3>2. \A k \in T \X {d} : f[k] \in Nat
      BY <2>2
    <3>3. <<p, d>> \in T \X {d} /\ (T \X {d}) \ {<<p, d>>} = (T \ {p}) \X {d}
      BY <2>4
    <3>4. SumFunctionOnSet(f, T \X {d})
            = f[<<p, d>>] + SumFunctionOnSet(f, (T \X {d}) \ {<<p, d>>})
      BY <3>1, <3>2, <3>3, SumByAny
    <3> QED
      BY <3>3, <3>4
  <2>8. /\ SumFunctionOnSet(b, T \ {p}) \in Nat
        /\ SumFunctionOnSet(f, (T \ {p}) \X {d}) \in Nat
        /\ b[p] \in Nat /\ f[<<p, d>>] \in Nat
    <3>1. IsFiniteSet(T \ {p}) /\ IsFiniteSet((T \ {p}) \X {d})
      BY <2>2, FS_RemoveElement, FS_Product, FS_Singleton
    <3>2. \A q \in T \ {p} : b[q] \in Nat
      BY <2>2
    <3>3. \A k \in (T \ {p}) \X {d} : f[k] \in Nat
      BY <2>2
    <3>4. b[p] \in Nat /\ f[<<p, d>>] \in Nat
      BY <2>4
    <3> QED
      BY <3>1, <3>2, <3>3, <3>4, SumNat
  <2>9. CASE p = n
    <3>1. own(T) = r /\ own(T \ {p}) = 0 /\ f[<<p, d>>] <= 0 /\ r <= b[p]
      BY <2>4, <2>9
    <3> HIDE DEF own
    <3> QED
      BY <2>2, <2>5, <2>6, <2>7, <2>8, <3>1
  <2>10. CASE p # n
    <3>1. own(T \ {p}) = own(T) /\ f[<<p, d>>] <= b[p] /\ own(T) \in Nat
      BY <2>4, <2>10
    <3> HIDE DEF own
    <3> QED
      BY <2>2, <2>5, <2>6, <2>7, <2>8, <3>1
  <2> QED
    BY <2>9, <2>10
<1>2. Fits(S) /\ own(S) = r
  BY <1>1
<1> HIDE DEF own
<1> QED
  BY <1>2

(* No node holds a rate above the busiest second it comes from, nor one of  *)
(* its own among its peers'.                                                *)
RatesBounded(n, d) ==
  /\ rps[n][d] <= busiest[n][d] /\ metric[n][d] <= busiest[n][d]
  /\ d \in configured[n] => unseen[n][d] <= busiest[n][d]
  /\ d \in configured[n] /\ Alive(n) /\ "count" \notin due[n] => unseen[n][d] = 0
  /\ \A p \in Nodes : peers[n][<<p, d>>].rps <= IF p = n THEN 0 ELSE busiest[p][d]

AttackFounded(n, d) ==
  under[n][d] /\ Longer[d] = {d} => BusiestSeconds(d) > Threshold[d]

TrafficInv ==
  /\ TypeOK
  /\ reloads = 0 => \A n \in Nodes, d \in Domains : RatesBounded(n, d) /\ AttackFounded(n, d)

LEMMA AttackIsTraffic ==
  ASSUME TypeOK, NEW n \in Nodes, NEW d \in Domains, RatesBounded(n, d),
         Longer[d] = {d}, isDomainAttack(n, d)
  PROVE  BusiestSeconds(d) > Threshold[d]
<1> DEFINE f == [k \in MatchingKeys(d) |-> peers[n][k].rps]
           b == [p \in Nodes |-> busiest[p][d]]
<1>1. MatchingKeys(d) = Nodes \X {d}
  BY DEF MatchingKeys
<1>2. \A p \in Nodes : b[p] = busiest[p][d] /\ f[<<p, d>>] = peers[n][<<p, d>>].rps
  BY <1>1
<1>3. \A p \in Nodes : busiest[p][d] \in Nat
  BY DEF TypeOK
<1>4. \A p \in Nodes : peers[n][<<p, d>>] \in [rps : Nat, age : 0..Fresh]
  BY DEF TypeOK
<1>5. rps[n][d] \in Nat
  BY DEF TypeOK
<1>6. Threshold[d] \in Nat /\ IsFiniteSet(Nodes)
  BY DetectorAssumption
<1>7. DOMAIN f = Nodes \X {d} /\ DOMAIN b = Nodes
  BY <1>1
<1>8. GetPeerDomainMetrics(n, d) = SumFunctionOnSet(f, Nodes \X {d})
  BY <1>7 DEF GetPeerDomainMetrics, SumFunction
<1>9. BusiestSeconds(d) = SumFunctionOnSet(b, Nodes)
  BY <1>7 DEF BusiestSeconds, SumFunction
<1> HIDE DEF f, b
<1>10. rps[n][d] + SumFunctionOnSet(f, Nodes \X {d}) <= SumFunctionOnSet(b, Nodes)
  <2>1. \A p \in Nodes : b[p] \in Nat /\ f[<<p, d>>] \in Nat
    BY <1>2, <1>3, <1>4
  <2>2. /\ \A p \in Nodes : f[<<p, d>>] <= IF p = n THEN 0 ELSE b[p]
        /\ rps[n][d] <= b[n]
    BY <1>2 DEF RatesBounded
  <2> QED
    BY <1>5, <1>6, <2>1, <2>2, SumBounded
<1>11. SumFunctionOnSet(b, Nodes) \in Nat
  BY <1>2, <1>3, <1>6, SumNat
<1>12. GetPeerDomainMetrics(n, d) \in Nat
  BY PeersAddUp
<1> QED
  BY <1>5, <1>6, <1>8, <1>9, <1>10, <1>11, <1>12 DEF isDomainAttack

LEMMA InitTraffic == Init => TrafficInv
<1> SUFFICES ASSUME Init, NEW n \in Nodes, NEW d \in Domains
             PROVE  RatesBounded(n, d) /\ AttackFounded(n, d)
  BY InitTyped DEF TrafficInv
<1>t. busiest \in [Nodes -> [Domains -> Nat]]
  BY InitTyped DEF TypeOK
<1>1. /\ rps = [m \in Nodes |-> [c \in Domains |-> 0]]
      /\ unseen = [m \in Nodes |-> [c \in Domains |-> 0]]
      /\ metric = [m \in Nodes |-> [c \in Domains |-> Silent]]
      /\ under = [m \in Nodes |-> [c \in Domains |-> FALSE]]
  BY Zenon DEF Init, ForAll
<1>2. rps[n][d] = 0 /\ unseen[n][d] = 0 /\ metric[n][d] = -1
  BY <1>1 DEF Silent
<1>3. ~under[n][d]
  BY <1>1, Zenon
<1>4. \A p \in Nodes : peers[n][<<p, d>>].rps = 0
  BY DEF Init, None
<1>5. \A p \in Nodes : busiest[p][d] \in Nat
  BY <1>t
<1> QED
  BY <1>2, <1>3, <1>4, <1>5 DEF RatesBounded, AttackFounded

(* Steps that neither count, look, report nor stop leave the rates alone.   *)
LEMMA RatesUntouched ==
  ASSUME NEW n, NEW d, RatesBounded(n, d), AttackFounded(n, d),
         UNCHANGED <<rps, metric, configured, unseen, due, peers, busiest, under>>,
         Alive(n)' => Alive(n)
  PROVE  RatesBounded(n, d)' /\ AttackFounded(n, d)'
BY DEF RatesBounded, AttackFounded, BusiestSeconds

LEMMA NextTraffic == TrafficInv /\ [Next]_vars => TrafficInv'
<1> SUFFICES ASSUME TrafficInv, [Next]_vars, reloads' = 0,
                    NEW n \in Nodes, NEW d \in Domains
             PROVE  RatesBounded(n, d)' /\ AttackFounded(n, d)'
  BY NextTyped DEF TrafficInv
<1>t. TypeOK
  BY DEF TrafficInv
<1>y. /\ \A p \in Nodes : busiest[p][d] \in Nat
      /\ rps[n][d] \in Nat /\ unseen[n][d] \in Nat
  BY <1>t DEF TypeOK
<1>b. BusiestSeconds(d)' = BusiestSeconds(d) \/ busiest' # busiest
  BY DEF BusiestSeconds
<1>1. CASE NextSecond
  <2>1. /\ reloads = 0 /\ due[n] = {}
        /\ UNCHANGED <<busiest, rps, metric, configured, under>>
        /\ Alive(n)' => Alive(n)
        /\ due'[n] = (IF Alive(n) THEN Tickers ELSE {})
        /\ peers' = [m \in Nodes |-> [k \in Nodes \X Domains |-> Older(peers[m][k])]]
    BY <1>1, <1>t DEF NextSecond, verdict, mesh, changes, Alive, TypeOK
  <2>2. RatesBounded(n, d) /\ AttackFounded(n, d)
    BY <2>1 DEF TrafficInv
  <2>3. PICK load \in [Nodes -> [Domains -> Rates \cup {0}]] :
          /\ load[n][d] \in IF Alive(n) THEN {0, busiest[n][d]} ELSE {0}
          /\ unseen' = [m \in Nodes |-> [c \in Domains |-> unseen[m][c] + load[m][c]]]
    BY <1>1 DEF NextSecond
  <2>4. unseen'[n][d] = unseen[n][d] + load[n][d]
    BY <2>3
  <2>5. d \in configured[n] => unseen'[n][d] <= busiest[n][d]
    <3>1. CASE Alive(n)
      BY <1>y, <2>1, <2>2, <2>3, <2>4, <3>1 DEF RatesBounded
    <3>2. CASE ~Alive(n)
      BY <1>y, <2>2, <2>3, <2>4, <3>2 DEF RatesBounded
    <3> QED
      BY <3>1, <3>2
  <2>6. ASSUME NEW p \in Nodes
        PROVE  peers'[n][<<p, d>>].rps <= IF p = n THEN 0 ELSE busiest[p][d]
    <3>1. peers[n][<<p, d>>] \in [rps : Nat, age : 0..Fresh]
      BY <1>t DEF TypeOK
    <3>2. peers'[n][<<p, d>>] = Older(peers[n][<<p, d>>])
      BY <2>1
    <3>3. peers[n][<<p, d>>].rps <= IF p = n THEN 0 ELSE busiest[p][d]
      BY <2>2 DEF RatesBounded
    <3>4. Older(peers[n][<<p, d>>]).rps \in {peers[n][<<p, d>>].rps, 0}
      BY <3>1 DEF Older, None
    <3> QED
      BY <1>y, <3>2, <3>3, <3>4
  <2>7. Alive(n)' => "count" \in due'[n]
    BY <2>1 DEF Tickers
  <2>8. RatesBounded(n, d)'
    BY <2>1, <2>2, <2>5, <2>6, <2>7 DEF RatesBounded
  <2>9. AttackFounded(n, d)'
    BY <1>b, <2>1, <2>2 DEF AttackFounded
  <2> QED
    BY <2>8, <2>9
<1>2. ASSUME NEW m \in Nodes, rpsCounter(m)
      PROVE  RatesBounded(n, d)' /\ AttackFounded(n, d)'
  <2>1. /\ reloads = 0 /\ UNCHANGED <<phase, busiest, metric, configured, under, peers>>
        /\ due' = [due EXCEPT ![m] = @ \ {"count"}]
    BY <1>2 DEF rpsCounter, node, verdict, mesh, history, changes
  <2>2. RatesBounded(n, d) /\ AttackFounded(n, d)
    BY <2>1 DEF TrafficInv
  <2>3. AttackFounded(n, d)'
    BY <1>b, <2>1, <2>2 DEF AttackFounded
  <2>4. CASE m # n
    <3>1. due'[n] = due[n] /\ unseen'[n] = unseen[n] /\ rps'[n] = rps[n]
      BY <1>2, <1>t, <2>4 DEF rpsCounter, TypeOK
    <3> QED
      BY <2>1, <2>2, <2>3, <3>1 DEF RatesBounded, Alive
  <2>5. CASE m = n
    <3>1. d \in configured[n] => rps'[n][d] = unseen[n][d] /\ unseen'[n][d] = 0
      BY <1>2, <1>t, <2>5 DEF rpsCounter, TypeOK
    <3>2. d \notin configured[n] => rps'[n][d] = rps[n][d]
      BY <1>2, <1>t, <2>5 DEF rpsCounter, TypeOK
    <3> QED
      BY <1>y, <2>1, <2>2, <2>3, <3>1, <3>2 DEF RatesBounded
  <2> QED
    BY <2>4, <2>5
<1>3. ASSUME NEW m \in Nodes, attackDetector(m)
      PROVE  RatesBounded(n, d)' /\ AttackFounded(n, d)'
  <2>1. /\ reloads = 0 /\ UNCHANGED <<phase, busiest, configured, unseen, rps, peers>>
        /\ due' = [due EXCEPT ![m] = @ \ {"detect"}]
    BY <1>3 DEF attackDetector, node, counter, history, changes
  <2>2. RatesBounded(n, d) /\ AttackFounded(n, d)
    BY <2>1 DEF TrafficInv
  <2>3. "count" \in due'[n] <=> "count" \in due[n]
    BY <1>t, <2>1 DEF TypeOK
  <2>4. metric'[n][d] <= busiest[n][d]
    <3>1. metric'[n][d] \in {metric[n][d], rps[n][d], Silent}
      BY <1>3, <1>t DEF attackDetector, TypeOK
    <3> QED
      BY <1>y, <2>2, <3>1 DEF RatesBounded, Silent
  <2>5. RatesBounded(n, d)'
    BY <2>1, <2>2, <2>3, <2>4 DEF RatesBounded, Alive
  <2>6. ASSUME under'[n][d], ~under[n][d] PROVE isDomainAttack(n, d)
    <3>1. m = n
      BY <1>3, <1>t, <2>6, Zenon DEF attackDetector, TypeOK
    <3>2. under'[n][d] = ((under[n][d] \/ d \in Starts(n)) /\ d \notin Ends(n))
      BY <1>3, <1>t, <3>1, Zenon DEF attackDetector, TypeOK
    <3>3. d \in Starts(n)
      BY <2>6, <3>2, Zenon
    <3> QED
      BY <3>3, Zenon DEF Starts
  <2>7. Longer[d] = {d} /\ under'[n][d] => BusiestSeconds(d) > Threshold[d]
    BY <1>t, <2>2, <2>6, AttackIsTraffic DEF AttackFounded
  <2>8. AttackFounded(n, d)'
    BY <1>b, <2>1, <2>7 DEF AttackFounded
  <2> QED
    BY <2>5, <2>8
<1>4. ASSUME NEW m \in Nodes, NEW p \in Nodes, NEW c \in Domains,
             NotifyRate(m, p, c) \/ NotifyEnd(m, p, c)
      PROVE  RatesBounded(n, d)' /\ AttackFounded(n, d)'
  <2>1. /\ reloads = 0 /\ p # m
        /\ UNCHANGED <<phase, busiest, configured, unseen, rps, due, metric, under>>
    BY <1>4 DEF NotifyRate, NotifyEnd, Receive, node, counter, verdict, mesh, history, changes
  <2>2. /\ RatesBounded(n, d) /\ AttackFounded(n, d)
        /\ RatesBounded(p, d)
    BY <2>1 DEF TrafficInv
  <2>3. PICK stat \in {None, Report(metric[p][c])} :
          /\ peers' = [peers EXCEPT ![m][<<p, c>>] = stat]
          /\ stat = None \/ metric[p][c] # Silent
    BY <1>4 DEF NotifyRate, NotifyEnd, Receive
  <2>4. ASSUME NEW q \in Nodes
        PROVE  peers'[n][<<q, d>>].rps <= IF q = n THEN 0 ELSE busiest[q][d]
    <3>1. peers[n][<<q, d>>].rps <= IF q = n THEN 0 ELSE busiest[q][d]
      BY <2>2 DEF RatesBounded
    <3>2. CASE m = n /\ q = p /\ d = c
      <4>1. peers'[n][<<q, d>>] = stat
        BY <1>t, <2>3, <3>2 DEF TypeOK
      <4>2. metric[p][d] <= busiest[p][d] /\ busiest[p][d] \in Nat
        BY <1>y, <2>2 DEF RatesBounded
      <4>3. stat.rps \in {0, metric[p][d]}
        BY <2>3, <3>2 DEF Report, None
      <4> QED
        BY <2>1, <3>2, <4>1, <4>2, <4>3
    <3>3. CASE ~(m = n /\ q = p /\ d = c)
      <4>1. peers'[n][<<q, d>>] = peers[n][<<q, d>>]
        BY <1>t, <2>3, <3>3 DEF TypeOK
      <4> QED
        BY <3>1, <4>1
    <3> QED
      BY <3>2, <3>3
  <2>5. RatesBounded(n, d)'
    BY <2>1, <2>2, <2>4 DEF RatesBounded, Alive
  <2>6. AttackFounded(n, d)'
    BY <1>b, <2>1, <2>2 DEF AttackFounded
  <2> QED
    BY <2>5, <2>6
<1>5. ASSUME NEW m \in Nodes, \/ Stop(m)
                              \/ \E p \in Nodes : NotifyLeave(m, p)
      PROVE  RatesBounded(n, d)' /\ AttackFounded(n, d)'
  <2>1. /\ reloads = 0
        /\ UNCHANGED <<rps, metric, configured, unseen, due, peers, busiest, under>>
        /\ Alive(n)' => Alive(n)
    BY <1>5, <1>t DEF Stop, NotifyLeave, counter, verdict, mesh, history, changes, Alive, TypeOK
  <2>2. RatesBounded(n, d) /\ AttackFounded(n, d)
    BY <2>1 DEF TrafficInv
  <2> QED
    BY <2>1, <2>2, RatesUntouched
<1>6. ASSUME NEW m \in Nodes, NEW domains \in SUBSET Domains, ReloadConfig(m, domains)
      PROVE  FALSE
  <2>1. reloads \in Nat
    BY <1>t DEF TypeOK
  <2> QED
    BY <1>6, <2>1 DEF ReloadConfig
<1>7. ASSUME NEW m \in Nodes, Exit(m)
      PROVE  RatesBounded(n, d)' /\ AttackFounded(n, d)'
  <2>1. reloads = 0 /\ UNCHANGED <<configured, unseen, rps, under, busiest, peers>>
    BY <1>7 DEF Exit, counter, verdict, history, changes
  <2>2. RatesBounded(n, d) /\ AttackFounded(n, d)
    BY <2>1 DEF TrafficInv
  <2>3. Alive(n)' => Alive(n) /\ due'[n] = due[n]
    BY <1>7, <1>t DEF Exit, Alive, TypeOK
  <2>4. metric'[n][d] \in {metric[n][d], Silent}
    BY <1>7, <1>t DEF Exit, TypeOK
  <2>5. metric'[n][d] <= busiest[n][d]
    BY <1>y, <2>2, <2>4 DEF RatesBounded, Silent
  <2>6. RatesBounded(n, d)'
    BY <2>1, <2>2, <2>3, <2>5 DEF RatesBounded
  <2>7. AttackFounded(n, d)'
    BY <1>b, <2>1, <2>2 DEF AttackFounded
  <2> QED
    BY <2>6, <2>7
<1>8. CASE UNCHANGED vars
  <2>1. /\ reloads = 0
        /\ UNCHANGED <<rps, metric, configured, unseen, due, peers, busiest, under>>
        /\ Alive(n)' => Alive(n)
    BY <1>8 DEF vars, node, counter, verdict, mesh, history, changes, Alive
  <2>2. RatesBounded(n, d) /\ AttackFounded(n, d)
    BY <2>1 DEF TrafficInv
  <2> QED
    BY <2>1, <2>2, RatesUntouched
<1> QED
  BY <1>1, <1>2, <1>3, <1>4, <1>5, <1>6, <1>7, <1>8 DEF Next

(* Until a reload, a domain whose name begins no other is under attack on a *)
(* node only if the busiest seconds of all the nodes add up to more than    *)
(* the threshold, in a mesh of any size and however often, late or out of   *)
(* order the reports arrive: none of them counts twice.                     *)
THEOREM AttackFromTraffic == Spec => []AttackHasTraffic
<1>1. TrafficInv => AttackHasTraffic
  BY DEF TrafficInv, AttackFounded, AttackHasTraffic
<1> QED
  BY <1>1, InitTraffic, NextTraffic, PTL DEF Spec
===============================================================================
