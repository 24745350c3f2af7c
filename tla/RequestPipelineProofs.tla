------------------------ MODULE RequestPipelineProofs ------------------------
(* Theorems about the request pipeline, for all sets of addresses, goroutines *)
(* and modes.                                                                 *)
EXTENDS RequestPipeline, TLAPS

(* What the table of layers contains. *)
LEMMA LayerFacts ==
  ASSUME NEW i \in DOMAIN Layers
  PROVE  /\ Layers[i].name \in Names
         /\ Layers[i].type \in Types
         /\ Layers[i].type = "allow" =>
              Layers[i].name \in {"static_asset", "fp_trusted", "whitelisted", "clean"}
<1>1. DOMAIN Layers = 1..19
  BY DEF Layers
<1>2. \A k \in 1..19 : Layers[k].type \in Types
  BY DEF Layers, Layer, Types
<1>3. \A k \in 1..19 : Layers[k].type = "allow" =>
        Layers[k].name \in {"static_asset", "fp_trusted", "whitelisted", "clean"}
  BY DEF Layers, Layer
<1>4. Layers[i].name \in Names
  BY DEF Names
<1> QED
  BY <1>1, <1>2, <1>3, <1>4
-----------------------------------------------------------------------------
LEMMA RequestStations ==
  ASSUME NEW ip \in IPs, NEW calm \in BOOLEAN
  PROVE  /\ \A c \in Grounds \cup {"none"} :
              [at |-> "arrived", ip |-> ip, calm |-> calm, carries |-> c] \in Request
         /\ \A c \in Grounds \cup {"none"}, n \in 0..2 :
              [at |-> "failing", ip |-> ip, calm |-> calm, carries |-> c, seen |-> n] \in Request
         /\ \A a \in BOOLEAN :
              [at |-> "judging", ip |-> ip, calm |-> calm, attacked |-> a] \in Request
         /\ \A t \in Types \ {"allow"} :
              [at |-> "executing", ip |-> ip, calm |-> calm, type |-> t, grounds |-> "none"] \in Request
         /\ \A w \in Grounds :
              [at |-> "executing", ip |-> ip, calm |-> calm, type |-> "allow", grounds |-> w] \in Request
         /\ \A w \in Grounds :
              [at |-> "passing", ip |-> ip, calm |-> calm, grounds |-> w] \in Request
BY DEF Request

(* A request at a station has the fields of that station. *)
LEMMA RequestFields ==
  ASSUME NEW r \in Request \cup {Idle}
  PROVE  /\ r # Idle => r.ip \in IPs /\ r.calm \in BOOLEAN
         /\ r # Idle <=> r.at # "idle"
         /\ r.at \in {"arrived", "failing"} => r.carries \in Grounds \cup {"none"}
         /\ r.at = "failing" => r.seen \in 0..2
         /\ r.at = "judging" => r.attacked \in BOOLEAN
         /\ r.at = "executing" => r.type \in Types
         /\ r.at = "passing" => r.grounds \in Grounds
         /\ r.at = "executing" /\ r.type = "allow" => r.grounds \in Grounds
<1>1. CASE r \in [at: {"arrived"}, ip: IPs, calm: BOOLEAN, carries: Grounds \cup {"none"}]
  BY <1>1 DEF Idle
<1>2. CASE r \in [at: {"failing"}, ip: IPs, calm: BOOLEAN, carries: Grounds \cup {"none"}, seen: 0..2]
  BY <1>2 DEF Idle
<1>3. CASE r \in [at: {"judging"}, ip: IPs, calm: BOOLEAN, attacked: BOOLEAN]
  BY <1>3 DEF Idle
<1>4. CASE r \in [at: {"executing"}, ip: IPs, calm: BOOLEAN, type: {"allow"}, grounds: Grounds]
  BY <1>4 DEF Idle, Types
<1>5. CASE r \in [at: {"executing"}, ip: IPs, calm: BOOLEAN, type: Types \ {"allow"}, grounds: {"none"}]
  BY <1>5 DEF Idle
<1>6. CASE r \in [at: {"passing"}, ip: IPs, calm: BOOLEAN, grounds: Grounds]
  BY <1>6 DEF Idle
<1>7. CASE r = Idle
  BY <1>7 DEF Idle
<1> QED
  BY <1>1, <1>2, <1>3, <1>4, <1>5, <1>6, <1>7 DEF Request

LEMMA CalmRequest ==
  ASSUME NEW r \in Request
  PROVE  /\ [r EXCEPT !.calm = TRUE] \in Request
         /\ [r EXCEPT !.calm = TRUE].at = r.at
         /\ [r EXCEPT !.calm = TRUE].calm = TRUE
BY DEF Request

LEMMA GotoType ==
  ASSUME NEW g \in Gs, NEW x \in Request \cup {Idle},
         pc \in [Gs -> Request \cup {Idle}], Goto(g, x)
  PROVE  pc' \in [Gs -> Request \cup {Idle}]
BY DEF Goto

LEMMA BanType ==
  ASSUME NEW ip \in IPs, banned \subseteq IPs, BanIPLocal(ip)
  PROVE  banned' \subseteq IPs
BY DEF BanIPLocal

LEMMA CountType ==
  ASSUME NEW cap \in Nat, NEW n \in 0..cap
  PROVE  Increment(n, cap) \in 0..cap
BY DEF Increment

LEMMA VerdictType ==
  ASSUME TypeOK, NEW g \in Gs, pc[g] # Idle,
         NEW type \in Types, NEW why \in Names, Verdict(g, type, why)
  PROVE  pc' \in [Gs -> Request \cup {Idle}]
<1>1. pc[g].ip \in IPs /\ pc[g].calm \in BOOLEAN
  BY RequestFields DEF TypeOK
<1>2. CASE type # "allow"
  BY <1>1, <1>2, RequestStations, GotoType DEF Verdict, TypeOK
<1>3. CASE type = "allow"
  <2>1. (IF Verified(pc[g].ip) THEN verified[pc[g].ip] ELSE why) \in Grounds
    BY <1>1 DEF TypeOK, Grounds, Verified
  <2> QED
    BY <1>1, <1>3, <2>1, RequestStations, GotoType DEF Verdict, TypeOK
<1> QED
  BY <1>2, <1>3

LEMMA PipelineTypeInit == Init => TypeOK
<1> SUFFICES ASSUME Init PROVE TypeOK
  OBVIOUS
<1>1. pc \in [Gs -> Request \cup {Idle}]
  BY DEF Init
<1>2. 0 \in 0..HitCap /\ 0 \in 0..2
  BY PipelineAssumption
<1> QED
  BY <1>1, <1>2 DEF Init, TypeOK

LEMMA PipelineTypeNext == TypeOK /\ [Next]_vars => TypeOK'
<1> SUFFICES ASSUME TypeOK, [Next]_vars PROVE TypeOK'
  OBVIOUS
<1> USE PipelineAssumption
<1>0. ASSUME NEW g \in Gs
      PROVE  /\ pc[g] \in Request \cup {Idle}
             /\ pc[g] # Idle => pc[g].ip \in IPs /\ pc[g].calm \in BOOLEAN
             /\ pc[g] # Idle <=> pc[g].at # "idle"
             /\ pc[g].at \in {"arrived", "failing"} => pc[g].carries \in Grounds \cup {"none"}
             /\ pc[g].at = "failing" => pc[g].seen \in 0..2
             /\ pc[g].at = "executing" /\ pc[g].type = "allow" => pc[g].grounds \in Grounds
  BY RequestFields DEF TypeOK
<1>1. ASSUME NEW g \in Gs, NEW ip \in IPs, NEW c \in cookies \cup {"none"}, Arrive(g, ip, c)
      PROVE  TypeOK'
  <2>1. (~Guarded) \in BOOLEAN /\ c \in Grounds \cup {"none"}
    BY DEF Guarded, GuardedWhen, TypeOK
  <2>2. [at |-> "arrived", ip |-> ip, calm |-> ~Guarded, carries |-> c] \in Request
    BY <2>1, RequestStations
  <2>3. pc' \in [Gs -> Request \cup {Idle}]
    BY <2>2, <1>1, GotoType DEF Arrive, TypeOK
  <2> QED
    BY <2>3, <1>1 DEF Arrive, TypeOK, visitors, config
<1>2. ASSUME NEW g \in Gs, NEW ip \in IPs, Solve(g, ip)
      PROVE  TypeOK'
  BY <1>2 DEF Solve, TypeOK, Grounds, config
<1>3. ASSUME NEW g \in Gs, NEW ip \in IPs, NEW c \in cookies \cup {"none"}, FailLoad(g, ip, c)
      PROVE  TypeOK'
  <2>1. (~Guarded) \in BOOLEAN /\ c \in Grounds \cup {"none"} /\ fails[ip] \in 0..2
    BY DEF Guarded, GuardedWhen, TypeOK
  <2>2. [at |-> "failing", ip |-> ip, calm |-> ~Guarded, carries |-> c, seen |-> fails[ip]]
          \in Request
    BY <2>1, RequestStations
  <2>3. pc' \in [Gs -> Request \cup {Idle}]
    BY <2>2, <1>3, GotoType DEF FailLoad, TypeOK
  <2> QED
    BY <2>3, <1>3 DEF FailLoad, TypeOK, visitors, config
<1>4. ASSUME NEW g \in Gs, FailStore(g)
      PROVE  TypeOK'
  <2>1. /\ pc[g].ip \in IPs /\ pc[g].calm \in BOOLEAN
        /\ pc[g].carries \in Grounds \cup {"none"} /\ pc[g].seen \in 0..2
    BY <1>0, <1>4 DEF FailStore
  <2>2. pc' \in [Gs -> Request \cup {Idle}]
    BY <2>1, <1>4, RequestStations, GotoType DEF FailStore, TypeOK
  <2>3. banned' \subseteq IPs
    BY <2>1, <1>4, BanType DEF FailStore, TypeOK
  <2>4. fails' \in [IPs -> 0..2]
    BY <2>1, <1>4 DEF FailStore, Failed, TypeOK
  <2> QED
    BY <2>2, <2>3, <2>4, <1>4 DEF FailStore, TypeOK, config, visitors
<1>5. ASSUME NEW g \in Gs, FastPath(g)
      PROVE  TypeOK'
  <2> DEFINE grounds == IF Verified(pc[g].ip) THEN verified[pc[g].ip] ELSE pc[g].carries
             x == [at |-> "passing", ip |-> pc[g].ip, calm |-> pc[g].calm, grounds |-> grounds]
  <2>1. pc[g].ip \in IPs /\ pc[g].calm \in BOOLEAN /\ pc[g].carries \in Grounds \cup {"none"}
    BY <1>0, <1>5 DEF FastPath
  <2>2. x \in Request
    <3>1. grounds \in Grounds
      BY <2>1, <1>5 DEF FastPath, hasValidProof, Verified, TypeOK
    <3> QED
      BY <2>1, <3>1, RequestStations
  <2>3. Goto(g, Idle) \/ Goto(g, x)
    BY <1>5 DEF FastPath
  <2>4. pc' \in [Gs -> Request \cup {Idle}]
    BY <2>2, <2>3, GotoType DEF TypeOK
  <2>5. banned' \subseteq IPs
    BY <2>1, <1>5, BanType DEF FastPath, TypeOK
  <2>6. verified' \in [IPs -> Grounds \cup {"none"}]
    BY <2>1, <1>5 DEF FastPath, VerifyProof, TypeOK
  <2> QED
    BY <2>4, <2>5, <2>6, <1>5 DEF FastPath, TypeOK, config
<1>6. ASSUME NEW g \in Gs, CheckBanned(g)
      PROVE  TypeOK'
  <2>1. pc[g] # Idle /\ pc[g].ip \in IPs /\ pc[g].calm \in BOOLEAN
    BY <1>0, <1>6 DEF CheckBanned
  <2>2. "drop" \in Types /\ "banned" \in Names
    BY DEF Types, Names
  <2>3. IsDomainUnderAttack \in BOOLEAN
    BY DEF IsDomainUnderAttack, UnderAttack, TypeOK
  <2>4. [at |-> "judging", ip |-> pc[g].ip, calm |-> pc[g].calm,
         attacked |-> IsDomainUnderAttack] \in Request
    BY <2>1, <2>3, RequestStations
  <2>5. CASE Verdict(g, "drop", "banned")
    BY <2>5, <2>1, <2>2, <1>6, VerdictType DEF CheckBanned, TypeOK, visitors, config
  <2>6. CASE Goto(g, [at |-> "judging", ip |-> pc[g].ip, calm |-> pc[g].calm,
                      attacked |-> IsDomainUnderAttack])
    <3>1. pc' \in [Gs -> Request \cup {Idle}]
      BY <2>6, <2>4, GotoType DEF TypeOK
    <3> QED
      BY <3>1, <1>6 DEF CheckBanned, TypeOK, visitors, config
  <2> QED
    BY <2>5, <2>6, <1>6 DEF CheckBanned
<1>7. ASSUME NEW g \in Gs, Judge(g)
      PROVE  TypeOK'
  <2>1. pc[g] # Idle /\ pc[g].ip \in IPs
    BY <1>0, <1>7 DEF Judge
  <2>2. PICK i \in DOMAIN Layers :
          /\ IF Layers[i].bans THEN BanIPLocal(pc[g].ip) ELSE UNCHANGED banned
          /\ Verdict(g, Layers[i].type, Layers[i].name)
    BY <1>7 DEF Judge
  <2>3. Layers[i].type \in Types /\ Layers[i].name \in Names
    BY LayerFacts
  <2>4. pc' \in [Gs -> Request \cup {Idle}]
    BY <2>1, <2>2, <2>3, VerdictType
  <2>5. banned' \subseteq IPs
    BY <2>1, <2>2, BanType DEF TypeOK
  <2> QED
    BY <2>4, <2>5, <1>7 DEF Judge, TypeOK, visitors, config
<1>8. ASSUME NEW g \in Gs, Allow(g)
      PROVE  TypeOK'
  <2>1. pc[g].ip \in IPs /\ pc[g].calm \in BOOLEAN /\ pc[g].grounds \in Grounds
    BY <1>0, <1>8 DEF Allow
  <2>2. pc' \in [Gs -> Request \cup {Idle}]
    BY <2>1, <1>8, RequestStations, GotoType DEF Allow, TypeOK
  <2>3. cookies' \subseteq Grounds
    BY <2>1, <1>8 DEF Allow, TypeOK, Grounds
  <2> QED
    BY <2>2, <2>3, <1>8 DEF Allow, TypeOK, config
<1>9. ASSUME NEW g \in Gs, Forward(g)
      PROVE  TypeOK'
  <2>1. pc' \in [Gs -> Request \cup {Idle}]
    BY <1>9, GotoType DEF Forward, TypeOK
  <2> QED
    BY <2>1, <1>9 DEF Forward, TypeOK, visitors, config
<1>10. ASSUME NEW g \in Gs, Challenge(g)
      PROVE  TypeOK'
  <2>1. pc[g].ip \in IPs
    BY <1>0, <1>10 DEF Challenge
  <2>2. pc' \in [Gs -> Request \cup {Idle}]
    BY <1>10, GotoType DEF Challenge, TypeOK
  <2>3. banned' \subseteq IPs
    BY <2>1, <1>10, BanType DEF Challenge, TypeOK
  <2>4. Increment(hits, HitCap) \in 0..HitCap /\ Increment(pages[pc[g].ip], HitCap) \in 0..HitCap
    BY <2>1, CountType DEF TypeOK
  <2>5. hits' \in 0..HitCap /\ pages' \in [IPs -> 0..HitCap]
    BY <2>1, <2>4, <1>10 DEF Challenge, TypeOK
  <2> QED
    BY <2>2, <2>3, <2>5, <1>10 DEF Challenge, TypeOK, config, visitors
<1>11. ASSUME NEW g \in Gs, Refuse(g)
       PROVE  TypeOK'
  <2>1. pc[g].ip \in IPs
    BY <1>0, <1>11 DEF Refuse
  <2>2. pc' \in [Gs -> Request \cup {Idle}]
    BY <1>11, GotoType DEF Refuse, TypeOK
  <2>3. banned' \subseteq IPs
    BY <2>1, <1>11, BanType DEF Refuse, TypeOK
  <2> QED
    BY <2>2, <2>3, <1>11 DEF Refuse, TypeOK, visitors, config
<1>12. CASE AttackChange
  <2>1. \A g \in Gs : Live(pc[g]) => [pc[g] EXCEPT !.calm = TRUE] \in Request
    BY CalmRequest DEF Live, TypeOK
  <2>2. pc' \in [Gs -> Request \cup {Idle}]
    BY <2>1, <1>12 DEF AttackChange, TypeOK
  <2>3. attack' \in BOOLEAN
    BY <1>12 DEF AttackChange, TypeOK
  <2> QED
    BY <2>2, <2>3, <1>12 DEF AttackChange, TypeOK, visitors, config
<1>13. ASSUME NEW ip \in IPs, Lapse(ip) \/ Forget(ip)
       PROVE  TypeOK'
  BY <1>13 DEF Lapse, Forget, TypeOK, visitors, config
<1>14. ASSUME NEW c \in cookies, Expire(c)
       PROVE  TypeOK'
  BY <1>14 DEF Expire, TypeOK, config
<1>15. CASE CleanupStates
  BY <1>15 DEF CleanupStates, TypeOK, config, visitors
<1>16. CASE UNCHANGED vars
  BY <1>16 DEF vars, TypeOK, visitors, config
<1> QED
  BY <1>1, <1>2, <1>3, <1>4, <1>5, <1>6, <1>7, <1>8, <1>9, <1>10, <1>11, <1>12, <1>13,
     <1>14, <1>15, <1>16 DEF Next

(* The request pipeline's variables always have their types. *)
THEOREM PipelineTypeCorrect == Spec => []TypeOK
BY PipelineTypeInit, PipelineTypeNext, PTL DEF Spec
-----------------------------------------------------------------------------
(* The configuration stays as it is. *)
LEMMA ConfigStep == [Next]_vars => UNCHANGED <<mode, whitelisted>>
BY DEF Next, vars, Arrive, Solve, FailLoad, FailStore, FastPath, CheckBanned, Judge, Allow,
   Forward, Challenge, Refuse, AttackChange, Lapse, Forget, Expire, CleanupStates, config

(* A request that has always found the domain guarded finds it guarded now,  *)
(* in mode auto it was told of the attack when it arrived, and once allowed  *)
(* it has earned it.                                                         *)
LifeOK(r) ==
  /\ r # Idle /\ ~r.calm => Guarded
  /\ r.at = "judging" /\ ~r.calm => r.attacked \/ mode \in StrictModes
  /\ r.at = "executing" /\ r.type = "allow" /\ ~r.calm => r.grounds \in Earned
  /\ r.at = "passing" /\ ~r.calm => r.grounds \in Earned
LifeInv == \A g \in Gs : LifeOK(pc[g])

(* Every proof that somebody holds has been earned, by somebody. *)
ProofsEarned ==
  /\ cookies \subseteq Earned
  /\ \A ip \in IPs : verified[ip] \in Earned \cup {"none"}

EarnedInv == LifeInv /\ ProofsEarned

(* A step that only moves one request on keeps the others as they are. *)
LEMMA OthersLife ==
  ASSUME TypeOK, LifeInv, UNCHANGED <<mode, attack>>,
         NEW g \in Gs, NEW x, Goto(g, x), LifeOK(x)
  PROVE  LifeInv'
<1>1. Guarded' <=> Guarded
  BY DEF Guarded, GuardedWhen
<1>2. \A h \in Gs : pc'[h] = IF h = g THEN x ELSE pc[h]
  BY DEF Goto, TypeOK
<1>3. \A h \in Gs : LifeOK(pc'[h])
  BY <1>2 DEF LifeInv
<1> QED
  BY <1>1, <1>3 DEF LifeInv, LifeOK

LEMMA JudgeLife ==
  ASSUME TypeOK, EarnedInv, NEW g \in Gs, Judge(g)
  PROVE  LifeInv'
<1>0. /\ pc[g] # Idle /\ pc[g].at = "judging" /\ pc[g].ip \in IPs
      /\ UNCHANGED <<mode, attack>>
  BY RequestFields DEF Judge, TypeOK, config
<1>1. PICK i \in DOMAIN Layers :
        /\ MayDecide(Layers[i].name, pc[g])
        /\ Verdict(g, Layers[i].type, Layers[i].name)
  BY DEF Judge
<1> DEFINE proof == verified[pc[g].ip]
           grounds == IF Layers[i].type # "allow" THEN "none"
                      ELSE IF Verified(pc[g].ip) THEN proof ELSE Layers[i].name
           x == [at |-> "executing", ip |-> pc[g].ip, calm |-> pc[g].calm,
                 type |-> Layers[i].type, grounds |-> grounds]
<1>2. Goto(g, x)
  BY <1>1 DEF Verdict
<1>3. ~pc[g].calm => Guarded /\ (pc[g].attacked \/ mode \in StrictModes)
  BY <1>0 DEF EarnedInv, LifeInv, LifeOK
<1>4. ASSUME Layers[i].type = "allow", ~pc[g].calm
      PROVE  grounds \in Earned
  <2>1. Layers[i].name \in {"static_asset", "fp_trusted", "whitelisted", "clean"}
    BY <1>4, LayerFacts
  <2>2. Layers[i].name # "fp_trusted"
    <3> SUFFICES ASSUME Layers[i].name = "fp_trusted" PROVE FALSE
      OBVIOUS
    <3>1. FastTrack(pc[g])
      BY <1>1 DEF MayDecide
    <3> QED
      BY <3>1, <1>3, <1>4
      DEF FastTrack, IsDomainUnderAttack, UnderAttack, Guarded, GuardedWhen, StrictModes
  <2>3. Layers[i].name = "clean" => Verified(pc[g].ip)
    <3> SUFFICES ASSUME Layers[i].name = "clean", ~Verified(pc[g].ip) PROVE FALSE
      OBVIOUS
    <3>1. 0 \in Stages(pc[g])
      BY <1>1 DEF MayDecide
    <3>2. mode \in StrictModes \/ (mode = "auto" /\ pc[g].attacked)
      BY <1>3, <1>4 DEF Guarded, GuardedWhen
    <3> QED
      BY <3>1, <3>2 DEF Stages, StrictModes
  <2>4. Verified(pc[g].ip) => proof \in Earned
    BY <1>0 DEF EarnedInv, ProofsEarned, Verified
  <2> QED
    BY <1>4, <2>1, <2>2, <2>3, <2>4 DEF Earned
<1>5. LifeOK(x)
  BY <1>0, <1>3, <1>4 DEF LifeOK
<1> QED
  BY <1>0, <1>2, <1>5, OthersLife DEF EarnedInv

(* What a request found proven it found proven by what was earned. *)
LEMMA FastPathLife ==
  ASSUME TypeOK, EarnedInv, NEW g \in Gs, FastPath(g)
  PROVE  EarnedInv'
<1> DEFINE ip == pc[g].ip
           proof == verified[ip]
           grounds == IF Verified(ip) THEN proof ELSE pc[g].carries
           x == [at |-> "passing", ip |-> ip, calm |-> pc[g].calm, grounds |-> grounds]
<1>1. /\ pc[g] # Idle /\ ip \in IPs
      /\ UNCHANGED <<mode, attack, cookies>>
  BY RequestFields DEF FastPath, TypeOK, config
<1>2. Verified(ip) => proof \in Earned
  BY <1>1 DEF EarnedInv, ProofsEarned, Verified
<1>3. ~Verified(ip) => pc[g].carries \in Earned
  BY DEF FastPath, hasValidProof, EarnedInv, ProofsEarned
<1>4. LifeOK(x)
  BY <1>1, <1>2, <1>3 DEF EarnedInv, LifeInv, LifeOK
<1>5. LifeOK(Idle)
  BY DEF LifeOK, Idle
<1>6. LifeInv'
  BY <1>1, <1>4, <1>5, OthersLife DEF FastPath, EarnedInv
<1>7. ASSUME NEW w \in IPs PROVE verified'[w] \in Earned \cup {"none"}
  BY <1>1, <1>3 DEF FastPath, VerifyProof, EarnedInv, ProofsEarned, TypeOK
<1> QED
  BY <1>1, <1>6, <1>7 DEF EarnedInv, ProofsEarned

LEMMA EarnedNext == TypeOK /\ EarnedInv /\ [Next]_vars => EarnedInv'
<1> SUFFICES ASSUME TypeOK, EarnedInv, [Next]_vars PROVE EarnedInv'
  OBVIOUS
<1> USE ConfigStep DEF EarnedInv
<1>0. \A g \in Gs : LifeOK(pc[g]) /\ (pc[g] # Idle <=> pc[g].at # "idle")
  BY RequestFields DEF LifeInv, TypeOK
<1>1. LifeOK(Idle)
  BY DEF LifeOK, Idle
<1>2. ASSUME NEW g \in Gs, NEW ip \in IPs, NEW c \in cookies \cup {"none"},
             Arrive(g, ip, c) \/ FailLoad(g, ip, c)
      PROVE  EarnedInv'
  <2>1. LifeInv'
    BY <1>2, OthersLife DEF Arrive, FailLoad, LifeOK
  <2> QED
    BY <2>1, <1>2 DEF Arrive, FailLoad, ProofsEarned, visitors
<1>3. ASSUME NEW g \in Gs, NEW ip \in IPs, Solve(g, ip)
      PROVE  EarnedInv'
  <2>1. LifeInv'
    BY <1>3 DEF Solve, LifeInv, LifeOK, Guarded, GuardedWhen
  <2>2. ProofsEarned'
    BY <1>3 DEF Solve, ProofsEarned, Earned, TypeOK
  <2> QED
    BY <2>1, <2>2
<1>4. ASSUME NEW g \in Gs, FailStore(g)
      PROVE  EarnedInv'
  <2>1. LifeInv'
    BY <1>4, <1>0, OthersLife DEF FailStore, LifeOK
  <2> QED
    BY <2>1, <1>4 DEF FailStore, ProofsEarned, visitors
<1>5. ASSUME NEW g \in Gs, FastPath(g)
      PROVE  EarnedInv'
  BY <1>5, FastPathLife
<1>6. ASSUME NEW g \in Gs, CheckBanned(g)
      PROVE  EarnedInv'
  <2>1. UNCHANGED <<mode, attack>> /\ pc[g] # Idle
    BY <1>6, <1>0 DEF CheckBanned
  <2>2. ~pc[g].calm => Guarded
    BY <2>1, <1>0 DEF LifeOK
  <2>3. LifeInv'
    <3>1. CASE Verdict(g, "drop", "banned")
      BY <2>1, <2>2, <3>1, OthersLife DEF Verdict, LifeOK
    <3>2. CASE Goto(g, [at |-> "judging", ip |-> pc[g].ip, calm |-> pc[g].calm,
                        attacked |-> IsDomainUnderAttack])
      <4>1. Guarded => IsDomainUnderAttack \/ mode \in StrictModes
        BY DEF Guarded, GuardedWhen, IsDomainUnderAttack, UnderAttack
      <4>2. LifeOK([at |-> "judging", ip |-> pc[g].ip, calm |-> pc[g].calm,
                    attacked |-> IsDomainUnderAttack])
        BY <2>2, <4>1 DEF LifeOK
      <4> QED
        BY <2>1, <3>2, <4>2, OthersLife
    <3> QED
      BY <3>1, <3>2, <1>6 DEF CheckBanned
  <2> QED
    BY <2>3, <1>6 DEF CheckBanned, ProofsEarned, visitors
<1>7. ASSUME NEW g \in Gs, Judge(g)
      PROVE  EarnedInv'
  BY <1>7, JudgeLife DEF Judge, ProofsEarned, visitors
<1>8. ASSUME NEW g \in Gs, Allow(g)
      PROVE  EarnedInv'
  <2>1. ~pc[g].calm => pc[g].grounds \in Earned
    BY <1>8, <1>0 DEF Allow, LifeOK
  <2>2. LifeInv'
    BY <1>8, <1>0, OthersLife DEF Allow, LifeOK
  <2>3. ProofsEarned'
    BY <2>1, <1>8 DEF Allow, ProofsEarned, Earned
  <2> QED
    BY <2>2, <2>3
<1>9. ASSUME NEW g \in Gs, Forward(g) \/ Challenge(g) \/ Refuse(g)
      PROVE  EarnedInv'
  <2>1. LifeInv'
    BY <1>9, <1>1, OthersLife DEF Forward, Challenge, Refuse
  <2> QED
    BY <2>1, <1>9 DEF Forward, Challenge, Refuse, ProofsEarned, visitors
<1>10. CASE AttackChange
  <2>1. ASSUME NEW g \in Gs, Live(pc[g]), ~GuardedWhen(~attack)
        PROVE  pc'[g].at = pc[g].at /\ pc'[g].calm = TRUE
    <3>1. pc[g] \in Request
      BY <2>1 DEF Live, TypeOK
    <3>2. pc'[g] = [pc[g] EXCEPT !.calm = TRUE]
      BY <2>1, <1>10 DEF AttackChange
    <3> QED
      BY <3>1, <3>2, CalmRequest
  <2>2. ASSUME NEW g \in Gs, ~Live(pc[g]) \/ GuardedWhen(~attack)
        PROVE  pc'[g] = pc[g]
    BY <2>2, <1>10 DEF AttackChange
  <2>3. Guarded' <=> GuardedWhen(~attack)
    BY <1>10 DEF AttackChange, Guarded, GuardedWhen
  <2>4. mode' = mode
    BY <1>10 DEF AttackChange
  <2>5. ASSUME NEW g \in Gs PROVE LifeOK(pc[g])'
    BY <2>1, <2>2, <2>3, <2>4, <1>0 DEF LifeOK, Live
  <2> QED
    BY <2>5, <1>10 DEF LifeInv, AttackChange, ProofsEarned, visitors
<1>11. CASE (\E ip \in IPs : Lapse(ip) \/ Forget(ip)) \/ (\E c \in cookies : Expire(c))
            \/ CleanupStates \/ UNCHANGED vars
  <2>1. UNCHANGED <<mode, attack, pc>> \/ CleanupStates
    BY <1>11 DEF Lapse, Forget, Expire, vars
  <2>2. UNCHANGED <<mode, attack, pc>>
    BY <2>1 DEF CleanupStates
  <2>3. LifeInv'
    BY <2>2 DEF LifeInv, LifeOK, Guarded, GuardedWhen
  <2>4. ProofsEarned'
    BY <1>11 DEF Lapse, Forget, Expire, CleanupStates, vars, visitors, ProofsEarned, TypeOK
  <2> QED
    BY <2>3, <2>4
<1> QED
  BY <1>2, <1>3, <1>4, <1>5, <1>6, <1>7, <1>8, <1>9, <1>10, <1>11 DEF Next

(* In every guarded mode, and under attack in mode auto, whoever gets        *)
(* through has earned it: for a static asset, for a whitelisted address, or  *)
(* on a proof that somebody got for one of these, for a right answer, or     *)
(* while the domain was not guarded.  It holds although the attack state is  *)
(* read twice while it changes, and although proofs pass between addresses.  *)
THEOREM GuardedDomain == Spec => []OnlyEarnedPass
<1>1. Init => EarnedInv
  BY DEF Init, EarnedInv, ProofsEarned, LifeInv, LifeOK, Idle
<1>2. TypeOK /\ EarnedInv => OnlyEarnedPass
  BY DEF EarnedInv, LifeInv, LifeOK, OnlyEarnedPass
<1> QED
  BY <1>1, <1>2, PipelineTypeInit, PipelineTypeNext, EarnedNext, PTL DEF Spec
-----------------------------------------------------------------------------
LEMMA ChallengeLayers ==
  ASSUME NEW i \in DOMAIN Layers, Layers[i].type = "challenge"
  PROVE  12 \in 1..i - 1 /\ Layers[12].name = "whitelisted"
<1>1. DOMAIN Layers = 1..19
  BY DEF Layers
<1>2. \A k \in 1..12 : Layers[k].type # "challenge"
  BY DEF Layers, Layer
<1>3. Layers[12].name = "whitelisted"
  BY DEF Layers, Layer
<1> QED
  BY <1>1, <1>2, <1>3

LEMMA UnharmedBan ==
  ASSUME NEW ip, BanIPLocal(ip), whitelisted \cap banned = {}
  PROVE  whitelisted \cap banned' = {}
BY DEF BanIPLocal, Exempt

LEMMA UnharmedNext == TypeOK /\ WhitelistedUnharmed /\ [Next]_vars => WhitelistedUnharmed'
<1> SUFFICES ASSUME TypeOK, WhitelistedUnharmed, [Next]_vars PROVE WhitelistedUnharmed'
  OBVIOUS
<1> USE ConfigStep
<1> DEFINE Calm(r) == r.at = "executing" /\ r.type = "challenge" => r.ip \notin whitelisted
           Unbanned == whitelisted \cap banned = {}
<1>0. /\ Unbanned /\ \A g \in Gs : Calm(pc[g])
      /\ \A g \in Gs : pc[g] # Idle => pc[g].ip \in IPs
      /\ \A g \in Gs : pc[g] # Idle <=> pc[g].at # "idle"
  BY RequestFields DEF WhitelistedUnharmed, TypeOK
<1>1. ASSUME NEW g \in Gs, NEW x, Goto(g, x), Calm(x), Unbanned'
      PROVE  WhitelistedUnharmed'
  <2>1. \A h \in Gs : pc'[h] = IF h = g THEN x ELSE pc[h]
    BY <1>1 DEF Goto, TypeOK
  <2> QED
    BY <2>1, <1>0, <1>1 DEF WhitelistedUnharmed
<1>2. Calm(Idle)
  BY DEF Idle
<1>3. ASSUME NEW g \in Gs, NEW ip \in IPs, NEW c \in cookies \cup {"none"},
             Arrive(g, ip, c) \/ FailLoad(g, ip, c)
      PROVE  WhitelistedUnharmed'
  BY <1>3, <1>0, <1>1 DEF Arrive, FailLoad
<1>4. ASSUME NEW g \in Gs, NEW ip \in IPs, Solve(g, ip)
      PROVE  WhitelistedUnharmed'
  BY <1>4, <1>0 DEF Solve, WhitelistedUnharmed
<1>5. ASSUME NEW g \in Gs, Forward(g)
      PROVE  WhitelistedUnharmed'
  BY <1>5, <1>0, <1>1, <1>2 DEF Forward
<1>6. ASSUME NEW g \in Gs, FailStore(g)
      PROVE  WhitelistedUnharmed'
  <2>1. Unbanned'
    BY <1>6, <1>0, UnharmedBan DEF FailStore
  <2> QED
    BY <2>1, <1>6, <1>1 DEF FailStore
<1>7. ASSUME NEW g \in Gs, FastPath(g)
      PROVE  WhitelistedUnharmed'
  <2>1. Unbanned'
    BY <1>7, <1>0, UnharmedBan DEF FastPath
  <2> QED
    BY <2>1, <1>7, <1>1, <1>2 DEF FastPath
<1>8. ASSUME NEW g \in Gs, CheckBanned(g)
      PROVE  WhitelistedUnharmed'
  <2>1. Unbanned'
    BY <1>8, <1>0 DEF CheckBanned
  <2> QED
    BY <2>1, <1>8, <1>1 DEF CheckBanned, Verdict
<1>9. ASSUME NEW g \in Gs, Judge(g)
      PROVE  WhitelistedUnharmed'
  <2>1. PICK i \in DOMAIN Layers :
          /\ Reaches(pc[g], i)
          /\ IF Layers[i].bans THEN BanIPLocal(pc[g].ip) ELSE UNCHANGED banned
          /\ Verdict(g, Layers[i].type, Layers[i].name)
    BY <1>9 DEF Judge
  <2>2. Unbanned'
    BY <2>1, <1>0, UnharmedBan
  <2>3. Layers[i].type = "challenge" => pc[g].ip \notin whitelisted
    BY <2>1, ChallengeLayers DEF Reaches, AlwaysDecide, MayDecide
  <2> QED
    BY <2>1, <2>2, <2>3, <1>1 DEF Verdict
<1>10. ASSUME NEW g \in Gs, Allow(g) \/ Challenge(g) \/ Refuse(g)
       PROVE  WhitelistedUnharmed'
  <2>1. Unbanned'
    BY <1>10, <1>0, UnharmedBan DEF Allow, Challenge, Refuse
  <2> QED
    BY <2>1, <1>10, <1>1, <1>2 DEF Allow, Challenge, Refuse
<1>11. CASE AttackChange
  <2>1. ASSUME NEW g \in Gs, Live(pc[g]), ~GuardedWhen(~attack)
        PROVE  Calm(pc'[g])
    <3>1. pc[g] \in Request
      BY <2>1 DEF Live, TypeOK
    <3>2. pc'[g] = [pc[g] EXCEPT !.calm = TRUE]
      BY <2>1, <1>11 DEF AttackChange
    <3> QED
      BY <3>1, <3>2, <1>0 DEF Request
  <2>2. ASSUME NEW g \in Gs, ~Live(pc[g]) \/ GuardedWhen(~attack)
        PROVE  pc'[g] = pc[g]
    BY <2>2, <1>11 DEF AttackChange
  <2>3. \A g \in Gs : Calm(pc'[g])
    BY <2>1, <2>2, <1>0
  <2> QED
    BY <2>3, <1>0, <1>11 DEF AttackChange, WhitelistedUnharmed
<1>12. ASSUME NEW ip \in IPs, Lapse(ip) \/ Forget(ip)
       PROVE  WhitelistedUnharmed'
  BY <1>12, <1>0 DEF Lapse, Forget, WhitelistedUnharmed
<1>13. CASE CleanupStates \/ (\E c \in cookies : Expire(c)) \/ UNCHANGED vars
  BY <1>13 DEF CleanupStates, Expire, vars, WhitelistedUnharmed, config
<1> QED
  BY <1>3, <1>4, <1>5, <1>6, <1>7, <1>8, <1>9, <1>10, <1>11, <1>12, <1>13 DEF Next

(* No whitelisted address is ever banned by a request, or asked to prove     *)
(* itself: every layer that would do so comes after the whitelist.           *)
THEOREM WhitelistHolds == Spec => []WhitelistedUnharmed
<1>1. Init => WhitelistedUnharmed
  BY DEF Init, WhitelistedUnharmed, Idle
<1> QED
  BY <1>1, PipelineTypeInit, PipelineTypeNext, UnharmedNext, PTL DEF Spec
-----------------------------------------------------------------------------
(* The counter of pages is one for all addresses, so it is never behind the  *)
(* pages that one of them got.                                               *)
PagesInv == \A ip \in IPs : ~Exempt(ip) => pages[ip] <= hits

(* Only a challenge page, an answer and the clean-up touch the counters.     *)
LEMMA PagesStep ==
  ASSUME [Next]_vars
  PROVE  \/ \E g \in Gs : Challenge(g)
         \/ \E g \in Gs, ip \in IPs : Solve(g, ip)
         \/ CleanupStates
         \/ UNCHANGED <<hits, pages>>
<1>1. CASE UNCHANGED vars
  BY <1>1 DEF vars
<1>2. ASSUME NEW g \in Gs, FailStore(g) \/ FastPath(g) \/ CheckBanned(g)
             \/ Judge(g) \/ Allow(g) \/ Forward(g) \/ Refuse(g)
      PROVE  UNCHANGED <<hits, pages>>
  BY <1>2 DEF FailStore, FastPath, CheckBanned, Judge, Allow, Forward, Refuse
<1>3. ASSUME NEW g \in Gs, NEW ip \in IPs, NEW c, Arrive(g, ip, c) \/ FailLoad(g, ip, c)
      PROVE  UNCHANGED <<hits, pages>>
  BY <1>3 DEF Arrive, FailLoad
<1>4. ASSUME AttackChange \/ (\E ip \in IPs : Lapse(ip) \/ Forget(ip))
             \/ (\E c \in cookies : Expire(c))
      PROVE  UNCHANGED <<hits, pages>>
  BY <1>4 DEF AttackChange, Lapse, Forget, Expire
<1> QED
  BY <1>1, <1>2, <1>3, <1>4 DEF Next

(* A page that is one too many for its address is one too many for all.      *)
LEMMA PageCounted ==
  ASSUME TypeOK, PagesInv, NEW g \in Gs, Challenge(g), ~Exempt(pc[g].ip)
  PROVE  /\ pc[g].ip \in IPs /\ hits' = Increment(hits, HitCap)
         /\ pages' = [pages EXCEPT ![pc[g].ip] = Increment(pages[pc[g].ip], HitCap)]
         /\ pages'[pc[g].ip] <= hits'
<1>1. pc[g].ip \in IPs
  BY RequestFields DEF Challenge, TypeOK
<1>2. /\ hits' = Increment(hits, HitCap)
      /\ pages' = [pages EXCEPT ![pc[g].ip] = Increment(pages[pc[g].ip], HitCap)]
  BY DEF Challenge
<1>3. /\ pages[pc[g].ip] \in 0..HitCap /\ hits \in 0..HitCap /\ HitCap \in Nat
      /\ pages[pc[g].ip] <= hits
  BY <1>1, PipelineAssumption DEF PagesInv, TypeOK
<1>4. Increment(pages[pc[g].ip], HitCap) <= Increment(hits, HitCap)
  BY <1>3 DEF Increment
<1> QED
  BY <1>1, <1>2, <1>4 DEF TypeOK

LEMMA PagesNext == TypeOK /\ PagesInv /\ [Next]_vars => PagesInv'
<1> SUFFICES ASSUME TypeOK, PagesInv, [Next]_vars PROVE PagesInv'
  OBVIOUS
<1>0. /\ hits \in 0..HitCap /\ pages \in [IPs -> 0..HitCap] /\ HitCap \in Nat
      /\ \A ip \in IPs : Exempt(ip)' <=> Exempt(ip)
  BY ConfigStep, PipelineAssumption DEF TypeOK, Exempt
<1>1. ASSUME NEW g \in Gs, Challenge(g) PROVE PagesInv'
  <2>1. CASE Exempt(pc[g].ip)
    BY <1>0, <1>1, <2>1 DEF Challenge, PagesInv
  <2>2. CASE ~Exempt(pc[g].ip)
    <3>1. hits <= Increment(hits, HitCap)
      BY <1>0 DEF Increment
    <3>2. \A ip \in IPs : ip # pc[g].ip => pages'[ip] = pages[ip]
      BY <1>0, <1>1, <2>2, PageCounted
    <3>3. hits' \in Nat /\ hits <= hits' /\ pages'[pc[g].ip] <= hits'
      BY <1>0, <1>1, <2>2, <3>1, PageCounted, CountType
    <3>4. ASSUME NEW ip \in IPs, ~Exempt(ip) PROVE pages'[ip] <= hits'
      <4>1. pages[ip] \in Nat /\ hits \in Nat /\ pages[ip] <= hits
        BY <1>0, <3>4 DEF PagesInv
      <4> QED
        BY <3>2, <3>3, <4>1
    <3> QED
      BY <1>0, <3>4 DEF PagesInv
  <2> QED
    BY <2>1, <2>2
<1>2. ASSUME NEW g \in Gs, NEW ip \in IPs, Solve(g, ip) PROVE PagesInv'
  BY <1>0, <1>2 DEF Solve, PagesInv
<1>3. CASE CleanupStates
  BY <1>0, <1>3 DEF CleanupStates, PagesInv
<1>4. CASE UNCHANGED <<hits, pages>>
  BY <1>0, <1>4 DEF PagesInv
<1> QED
  BY <1>1, <1>2, <1>3, <1>4, PagesStep

(* Whoever is shown a third challenge page without solving one is banned,    *)
(* for any number of addresses that share the counter of pages and of        *)
(* goroutines that serve them.                                               *)
THEOREM NonSolversAreBanned == Spec => NonSolversBanned
<1>1. Init => PagesInv
  BY PipelineAssumption DEF Init, PagesInv
<1>2. ASSUME TypeOK, PagesInv, NEW g \in Gs, Challenge(g), ~Exempt(pc[g].ip),
             pages'[pc[g].ip] > 2
      PROVE  pc[g].ip \in banned'
  <2>1. /\ pc[g].ip \in IPs /\ pages'[pc[g].ip] <= hits'
        /\ hits' = Increment(hits, HitCap)
        /\ pages' = [pages EXCEPT ![pc[g].ip] = Increment(pages[pc[g].ip], HitCap)]
    BY <1>2, PageCounted
  <2>2. hits' \in Nat /\ pages'[pc[g].ip] \in Nat
    BY <1>2, <2>1, CountType, PipelineAssumption DEF TypeOK
  <2>3. TooManyPages(hits')
    BY <1>2, <2>1, <2>2 DEF TooManyPages
  <2>4. BanIPLocal(pc[g].ip)
    BY <1>2, <2>3 DEF Challenge
  <2> QED
    BY <1>2, <2>4 DEF BanIPLocal
<1>3. TypeOK /\ PagesInv /\ [Next]_vars =>
        [\A g \in Gs : LET ip == pc[g].ip IN
           Challenge(g) /\ ~Exempt(ip) /\ pages'[ip] > 2 => ip \in banned']_vars
  BY <1>2
<1> QED
  BY <1>1, <1>3, PagesNext, PipelineTypeInit, PipelineTypeNext, PTL DEF Spec, NonSolversBanned
=============================================================================
