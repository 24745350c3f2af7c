---------------------------- MODULE SignalsProofs ----------------------------
(***************************************************************************)
(* What the signals about a request may cause: rules, fingerprints,        *)
(* behaviour, intelligence.  Each has an inductive invariant of its own;   *)
(* they share no variable.                                                 *)
(***************************************************************************)
EXTENDS MCSignals, WellFoundedInduction, TLAPS

(***************************************************************************)
(* The rules.                                                              *)
(***************************************************************************)
(* A set of numbers that is not empty has a least one: what is shown of the  *)
(* least counterexample is shown by induction.                               *)
LEMMA LeastOf ==
  ASSUME NEW S, S \subseteq Nat, S # {}
  PROVE  \E m \in S : \A k \in S : m <= k
<1>1. \E m \in S : \A k \in S : <<k, m>> \notin OpToRel(<, Nat)
  BY NatLessThanWellFounded, WFMin
<1>2. PICK m \in S : \A k \in S : <<k, m>> \notin OpToRel(<, Nat)
  BY <1>1
<1>3. ASSUME NEW k \in S, k < m PROVE FALSE
  <2>1. <<k, m>> \in OpToRel(<, Nat)
    BY <1>3 DEF OpToRel
  <2> QED
    BY <2>1, <1>2
<1>4. \A k \in S : m <= k
  BY <1>3
<1> QED
  BY <1>4

(* The loop of loadOWASPRules: what it keeps is a sequence of rules.         *)
LEMMA KeptRules ==
  ASSUME NEW l \in 1..4 PROVE loadOWASPRules(l) \in Seq(Rules)
<1> DEFINE Turn(g, i) == IF i = 0 THEN <<>>
                         ELSE IF Owasp[i].level <= l THEN Append(g[i - 1], Owasp[i]) ELSE g[i - 1]
           Loop(g, n) == g = [i \in 0..n |-> Turn(g, i)]
           f == CHOOSE g : Loop(g, Len(Owasp))
<1>0. Len(Owasp) \in Nat /\ Owasp \in [1..Len(Owasp) -> Rules]
  BY RulesAssumption
<1>1. loadOWASPRules(l) = f[Len(Owasp)]
  BY Zenon DEF loadOWASPRules
<1> HIDE DEF f
<1>2. \E g : Loop(g, Len(Owasp))
  <2> DEFINE Bad == {n \in Nat : n <= Len(Owasp) /\ ~ \E g : Loop(g, n)}
  <2> SUFFICES ASSUME Bad # {} PROVE FALSE
    BY <1>0
  <2>1. PICK m \in Bad : \A k \in Bad : m <= k
    BY LeastOf
  <2>2. m # 0
    <3> DEFINE e == [i \in 0..0 |-> <<>>]
    <3>1. e = [i \in 0..0 |-> Turn(e, i)]
      OBVIOUS
    <3> QED
      BY <3>1
  <2>3. PICK g : Loop(g, m - 1)
    <3>1. m \in Nat /\ m - 1 \in Nat /\ m - 1 <= Len(Owasp) /\ ~(m <= m - 1)
      BY <2>2, <1>0
    <3>2. m - 1 \notin Bad
      BY <2>1, <3>1
    <3> QED
      BY <3>1, <3>2
  <2> DEFINE h == [i \in 0..m |-> IF i = m THEN Turn(g, m) ELSE g[i]]
  <2>4. \A i \in 0..m : h[i] = Turn(h, i)
    <3> SUFFICES ASSUME NEW i \in 0..m PROVE h[i] = Turn(h, i)
      OBVIOUS
    <3>1. CASE i = m
      <4>1. h[i - 1] = g[i - 1]
        BY <2>2, <3>1
      <4> QED
        BY <2>2, <3>1, <4>1
    <3>2. CASE i # m
      <4>1. i \in 0..m - 1 /\ h[i] = g[i]
        BY <3>2
      <4>2. g[i] = Turn(g, i)
        BY <2>3, <4>1
      <4>3. i # 0 => h[i - 1] = g[i - 1]
        BY <3>2
      <4> QED
        BY <4>1, <4>2, <4>3
    <3> QED
      BY <3>1, <3>2
  <2>5. Loop(h, m)
    BY <2>4, Zenon
  <2> QED
    BY <2>5
<1>3. Loop(f, Len(Owasp))
  BY <1>2 DEF f
<1>4. \A i \in 0..Len(Owasp) : f[i] \in Seq(Rules)
  <2> DEFINE Bad == {i \in 0..Len(Owasp) : f[i] \notin Seq(Rules)}
  <2> SUFFICES ASSUME Bad # {} PROVE FALSE
    OBVIOUS
  <2>1. PICK m \in Bad : \A k \in Bad : m <= k
    <3>1. Bad \subseteq Nat
      BY <1>0
    <3> HIDE DEF Bad
    <3> QED
      BY <3>1, LeastOf
  <2>2. f[m] = Turn(f, m)
    BY <1>3
  <2>3. m # 0
    <3>1. <<>> \in Seq(Rules)
      OBVIOUS
    <3> QED
      BY <2>2, <3>1
  <2>4. f[m - 1] \in Seq(Rules)
    BY <2>1, <2>3, <1>0
  <2>5. Owasp[m] \in Rules
    BY <1>0, <2>3
  <2>6. Append(f[m - 1], Owasp[m]) \in Seq(Rules)
    BY <2>4, <2>5
  <2>7. Turn(f, m) \in Seq(Rules)
    BY <2>3, <2>4, <2>6
  <2> QED
    BY <2>2, <2>7
<1> QED
  BY <1>0, <1>1, <1>4

(* While a request is looked at, the rules up to the one that comes next     *)
(* have had their say.                                                       *)
BlockingSoFar(l) == {i \in Blocking(l) : i < next}

RuleInv ==
  /\ RuleTypeOK /\ rules \in Seq(Rules)
  /\ looking # NoWord => /\ BlockingSoFar(low) # {} => blocked
                         /\ blocked => BlockingSoFar(high) # {}

(* The rules: the invariant holds at the start.                              *)
LEMMA RuleInvInit == RuleInit => RuleInv
<1> SUFFICES ASSUME RuleInit PROVE RuleInv
  OBVIOUS
<1>1. level \in Levels /\ level \in 1..4
  BY RulesAssumption DEF RuleInit
<1>2. LoadCustomRules \in Seq(Rules)
  <2>1. Custom \in Seq(Rules) /\ Len(Custom) \in Nat /\ DOMAIN Custom = 1..Len(Custom)
    BY RulesAssumption
  <2>2. ASSUME NEW i \in DOMAIN Custom PROVE LoadCustomRules[i] \in Rules
    <3>1. Custom[i] \in Rules
      BY <2>1
    <3>2. [Custom[i] EXCEPT !.level = 1] \in Rules
      BY <3>1 DEF Rules
    <3> QED
      BY <3>1, <3>2 DEF LoadCustomRules
  <2>3. DOMAIN LoadCustomRules = 1..Len(Custom)
    BY <2>1 DEF LoadCustomRules
  <2>4. LoadCustomRules \in [1..Len(Custom) -> Rules]
    BY <2>1, <2>2, <2>3 DEF LoadCustomRules
  <2> QED
    BY <2>1, <2>4
<1>3. (IF engineOn THEN loadOWASPRules(level) ELSE <<>>) \in Seq(Rules)
  BY <1>1, KeptRules
<1>4. rules \in Seq(Rules)
  BY <1>2, <1>3 DEF RuleInit
<1>5. engineOn \in BOOLEAN /\ shieldOn \in BOOLEAN
  BY Zenon DEF RuleInit
<1>6. blocked \in BOOLEAN
  BY Zenon DEF RuleInit
<1>7. /\ pending \in Levels \cup {0} /\ reloads \in 0..MaxReloads /\ score \in Int
      /\ looking = NoWord /\ low \in 1..level /\ high \in level..4
  BY <1>1, RulesAssumption DEF RuleInit
<1>8. next \in 1..Len(rules) + 1
  BY <1>4 DEF RuleInit
<1>9. RuleTypeOK
  BY <1>1, <1>5, <1>6, <1>7, <1>8 DEF RuleTypeOK
<1> QED
  BY <1>4, <1>7, <1>9 DEF RuleInv

(* Reloads, levels and inspections keep it.                                  *)
LEMMA RuleInvNext == RuleInv /\ [RuleNext]_ruleVars => RuleInv'
<1> SUFFICES ASSUME RuleInv, [RuleNext]_ruleVars PROVE RuleInv'
  OBVIOUS
<1>0. /\ rules \in Seq(Rules) /\ Len(rules) \in Nat /\ DOMAIN rules = 1..Len(rules)
      /\ RuleTypeOK /\ level \in 1..4 /\ low \in 1..level /\ high \in level..4
  BY DEF RuleInv, RuleTypeOK
<1>l. ASSUME NEW i \in DOMAIN rules PROVE rules[i].level \in Int
  <2>1. rules[i] \in Rules
    BY <1>0
  <2> QED
    BY <2>1 DEF Rules
<1>1. ASSUME NEW on \in BOOLEAN, NEW l \in Levels, ReloadShield(on, l) PROVE RuleInv'
  <2>1. shieldOn' \in BOOLEAN
    BY <1>1, Zenon DEF ReloadShield
  <2>2. RuleTypeOK'
    <3>1. pending' \in Levels \cup {0} /\ reloads' \in 0..MaxReloads
      BY <1>0, <1>1, RulesAssumption DEF ReloadShield, RuleTypeOK
    <3> QED
      BY <1>0, <1>1, <2>1, <3>1 DEF ReloadShield, RuleTypeOK, loaded, inspection
  <2>3. UNCHANGED <<loaded, inspection>>
    BY <1>1 DEF ReloadShield
  <2> QED
    BY <2>2, <2>3 DEF RuleInv, loaded, inspection, BlockingSoFar, Blocking, Matches, Prefiltered,
                      matchOperator, Text
<1>2. CASE SetParanoiaLevel
  <2>1. pending \in 1..4
    BY <1>0, <1>2, RulesAssumption DEF SetParanoiaLevel, RuleTypeOK
  <2>2. /\ low' \in 1..level' /\ high' \in level'..4 /\ level' \in 1..4
        /\ low' <= low /\ high <= high'
    BY <1>0, <1>2, <2>1 DEF SetParanoiaLevel
  <2>3. UNCHANGED <<rules, engineOn, shieldOn, reloads, looking, next, blocked, score>>
    BY <1>2 DEF SetParanoiaLevel, loaded
  <2>4. RuleTypeOK'
    BY <1>0, <1>2, <2>2, <2>3 DEF SetParanoiaLevel, RuleTypeOK
  <2>5. \A i \in DOMAIN rules : Matches(rules[i], looking)' = Matches(rules[i], looking)
    BY <2>3 DEF Matches, Prefiltered, matchOperator, Text
  <2>6. (BlockingSoFar(low))' \subseteq BlockingSoFar(low) /\ BlockingSoFar(high) \subseteq (BlockingSoFar(high))'
    BY <1>0, <1>l, <2>2, <2>3, <2>5 DEF BlockingSoFar, Blocking
  <2> QED
    BY <2>3, <2>4, <2>6 DEF RuleInv
<1>3. ASSUME NEW q \in Requests, Inspect(q) PROVE RuleInv'
  <2>1. RuleTypeOK'
    <3>1. blocked' \in BOOLEAN
      BY <1>3, Zenon DEF Inspect
    <3> QED
      BY <1>0, <1>3, <3>1 DEF Inspect, RuleTypeOK, loaded
  <2>2. (BlockingSoFar(low))' = {} /\ blocked' = FALSE /\ rules' = rules
    BY <1>0, <1>3 DEF Inspect, BlockingSoFar, Blocking, loaded
  <2> QED
    BY <1>0, <2>1, <2>2 DEF RuleInv
<1>4. CASE InspectRule
  <2> DEFINE r == rules[next]
             hit == Applies(r) /\ Matches(r, looking)
  <2>1. /\ UNCHANGED <<rules, engineOn, level, shieldOn, pending, reloads, looking, low, high>>
        /\ next' = next + 1 /\ looking # NoWord /\ next \in DOMAIN rules /\ next \in Int
    BY <1>0, <1>4 DEF InspectRule, loaded, RuleTypeOK
  <2>2. r \in Rules
    BY <1>0, <2>1
  <2>3. blocked' = (blocked \/ (hit /\ r.blocks))
    BY <1>4, Zenon DEF InspectRule
  <2>4. blocked' \in BOOLEAN
    BY <2>3, Zenon
  <2>5. score' \in Int
    BY <1>0, <1>4, <2>2 DEF InspectRule, RuleTypeOK, Rules
  <2>6. RuleTypeOK'
    BY <1>0, <2>1, <2>4, <2>5 DEF RuleTypeOK
  <2>7. \A i \in DOMAIN rules : Matches(rules[i], looking)' = Matches(rules[i], looking)
    BY <2>1 DEF Matches, Prefiltered, matchOperator, Text
  <2>8. \A l : (Blocking(l))' = Blocking(l)
    BY <2>1, <2>7 DEF Blocking
  <2>9. /\ (BlockingSoFar(low))' = BlockingSoFar(low) \cup {i \in Blocking(low) : i = next}
        /\ (BlockingSoFar(high))' = BlockingSoFar(high) \cup {i \in Blocking(high) : i = next}
    BY <1>0, <2>1, <2>8 DEF BlockingSoFar, Blocking
  <2>10. next \in Blocking(low) => hit /\ r.blocks
    BY <1>0, <1>l, <2>1 DEF Blocking, Applies
  <2>11. hit /\ r.blocks => next \in Blocking(high)
    BY <1>0, <1>l, <2>1 DEF Blocking, Applies
  <2>12. /\ (BlockingSoFar(low))' # {} => blocked'
         /\ blocked' => (BlockingSoFar(high))' # {}
    BY <2>1, <2>3, <2>9, <2>10, <2>11 DEF RuleInv
  <2> QED
    BY <1>0, <2>1, <2>6, <2>12 DEF RuleInv
<1>5. CASE EndInspect
  <2>1. RuleTypeOK'
    <3>1. blocked' \in BOOLEAN
      BY <1>5, Zenon DEF EndInspect
    <3> QED
      BY <1>0, <1>5, <3>1 DEF EndInspect, RuleTypeOK, loaded
  <2> QED
    BY <1>0, <1>5, <2>1 DEF EndInspect, RuleInv, loaded
<1>6. CASE UNCHANGED ruleVars
  <2>1. UNCHANGED <<loaded, inspection>>
    BY <1>6 DEF ruleVars
  <2>2. RuleTypeOK'
    BY <1>0, <1>6 DEF ruleVars, RuleTypeOK, loaded, inspection
  <2> QED
    BY <2>1, <2>2 DEF RuleInv, loaded, inspection, BlockingSoFar, Blocking, Matches, Prefiltered,
                matchOperator, Text
<1> QED
  BY <1>1, <1>2, <1>3, <1>4, <1>5, <1>6 DEF RuleNext

(* JudgedWithinLevels in every reachable state: a request that is judged while *)
(* the level changes is blocked by nothing that no level of the time blocks, *)
(* and by all that every level of the time blocks.                           *)
THEOREM RequestsJudgedWithinLevels == RuleSpec => [](RuleTypeOK /\ JudgedWithinLevels)
<1>1. ASSUME RuleInv PROVE RuleTypeOK /\ JudgedWithinLevels
  <2>1. Inspected => BlockingSoFar(low) = Blocking(low) /\ BlockingSoFar(high) = Blocking(high)
    BY <1>1 DEF RuleInv, RuleTypeOK, Inspected, BlockingSoFar, Blocking
  <2> QED
    BY <1>1, <2>1 DEF RuleInv, JudgedWithinLevels, Inspected
<1> QED
  BY <1>1, RuleInvInit, RuleInvNext, PTL DEF RuleSpec
-----------------------------------------------------------------------------
(***************************************************************************)
(* Fingerprints.                                                           *)
(***************************************************************************)
(* What every handshake stores, and what every request is judged by then.    *)
Unknown == [ja3 |-> None, ja4 |-> FALSE]
Plain   == 2575

(* An open connection has its address to itself and what its handshake has   *)
(* stored under it; what its requests write there is the same for all.       *)
OwnEntry(c) ==
  LET e == cache[conn[c].addr] IN
  /\ conn[c].addr \in Addrs /\ conn[c].hello \in Sent
  /\ e \in Entries /\ e.conn = c /\ e.ja3 = None /\ e.ja4 = FALSE

StreamOK(c, s) ==
  LET r == stream[<<c, s>>] IN
  /\ r.ua # None => conn[c].stage = "open" /\ cache[conn[c].addr].total = Plain
  /\ r.ua = None => r.by = None
  /\ r.by # None => r.by = c /\ r.score = Plain

PrintInv ==
  /\ PrintTypeOK
  /\ \A c \in Conns : /\ conn[c].stage \in {"accepted", "sniffed", "open"}
                           => conn[c].addr \in Addrs /\ conn[c].hello \in Sent
                      /\ conn[c].stage = "open" => OwnEntry(c)
                      /\ conn[c].stage = "none" => conn[c].addr = None
  /\ \A c, d \in Conns : conn[c].addr = conn[d].addr /\ conn[c].addr \in Addrs
       => c = d \/ conn[c].stage = "closed" \/ conn[d].stage = "closed"
  /\ \A c \in Conns, s \in Streams : StreamOK(c, s)

(* The hello that crypto/tls hands over is of no client that is known.       *)
LEMMA StdlibUnknown == ASSUME NEW h \in Sent PROVE FromStdlib(h) = Unknown
<1> DEFINE g == [h EXCEPT !.version = Version(h.versions, 0), !.exts = <<>>]
<1>1. h \in ClientHellos
  BY PrintsAssumption DEF Sent
<1>2. g.exts = <<>>
  BY <1>1 DEF ClientHellos
<1>3. JA3(g)[3] = filterGREASE(<<>>)
  BY <1>2 DEF JA3
<1>4. ASSUME NEW k \in Browsers \cup Tools, JA3(g) \in Database(k) PROVE FALSE
  <2>1. PICK f \in Hellos[k] : JA3(g) = JA3(ParseClientHello(f))
    BY <1>4 DEF Database
  <2>2. f \in ClientHellos /\ filterGREASE(f.exts) # filterGREASE(<<>>)
    BY PrintsAssumption
  <2>3. ParseClientHello(f).exts = f.exts
    BY <2>2 DEF ParseClientHello, ClientHellos
  <2>4. JA3(ParseClientHello(f))[3] = filterGREASE(f.exts)
    BY <2>3 DEF JA3
  <2> QED
    BY <1>3, <2>1, <2>2, <2>4
<1>5. Known(JA3(g)) = None
  BY <1>4 DEF Known
<1> QED
  BY <1>5 DEF FromStdlib, Prints, JA4Known, Unknown

(* The score of a fingerprint that is in no database.                        *)
LEMMA PlainScore ==
  ASSUME NEW e, e.ja3 = None, e.ja4 = FALSE, NEW ua
  PROVE  CalculateComposite(e.ja3, e.ja4, ua) = Plain
<1>1. TrustScore(None) = 20
  BY PrintsAssumption DEF TrustScore
<1>2. checkUAConsistency(None, ua) = 30
  BY DEF checkUAConsistency
<1>3. (IF e.ja4 THEN 90 ELSE 25) = 25
  OBVIOUS
<1> QED
  BY <1>1, <1>2, <1>3 DEF CalculateComposite, Plain

(* It is a score.                                                            *)
LEMMA PlainRange == Plain \in ScoreRange /\ 0 \in ScoreRange
BY DEF Plain, ScoreRange

(* The fingerprints: the invariant holds at the start.                       *)
LEMMA PrintInvInit == PrintInit => PrintInv
<1> SUFFICES ASSUME PrintInit PROVE PrintInv
  OBVIOUS
<1>1. underAttack \in BOOLEAN
  BY Zenon DEF PrintInit
<1>2. /\ \A c \in Conns : conn[c].stage = "none" /\ conn[c].addr = None
                          /\ conn[c].kind = None /\ conn[c].hello = None
      /\ conn \in [Conns -> [stage : Stages, addr : Addrs \cup {None},
                             kind : Kinds \cup {None}, hello : Sent \cup {None}]]
  BY DEF PrintInit, Stages
<1>3. cache \in [Addrs -> Entries \cup {None}]
  BY DEF PrintInit
<1>4. \A x \in Conns \X Streams : stream[x] = Idle
  BY DEF PrintInit
<1>5. Idle \in [ua : Kinds \cup {None}, by : Conns \cup {None}, score : ScoreRange]
      /\ Idle.ua = None /\ Idle.by = None
  BY PlainRange DEF Idle
<1>6. stream \in [Conns \X Streams ->
                    [ua : Kinds \cup {None}, by : Conns \cup {None}, score : ScoreRange]]
  BY <1>5 DEF PrintInit
<1>7. PrintTypeOK
  BY <1>1, <1>2, <1>3, <1>6 DEF PrintTypeOK
<1>8. \A c \in Conns, s \in Streams : StreamOK(c, s)
  BY <1>4, <1>5 DEF StreamOK
<1> QED
  BY <1>2, <1>7, <1>8, PrintsAssumption DEF PrintInv

(* What a connection has to do with the others, when one changes stage.      *)
LEMMA PrintInvNext == PrintInv /\ [PrintNext]_printVars => PrintInv'
<1> SUFFICES ASSUME PrintInv, [PrintNext]_printVars PROVE PrintInv'
  OBVIOUS
<1> DEFINE Alone(c) == \A d \in Conns : conn[c].addr = conn[d].addr /\ conn[c].addr \in Addrs
                         => c = d \/ conn[c].stage = "closed" \/ conn[d].stage = "closed"
<1>0. PrintTypeOK
  BY DEF PrintInv
<1>n. None \notin Conns /\ None \notin Kinds /\ None \notin Addrs /\ None \notin Sent
  BY PrintsAssumption DEF Sent
<1>c. ASSUME NEW c \in Conns
      PROVE  /\ conn[c] \in [stage : Stages, addr : Addrs \cup {None},
                             kind : Kinds \cup {None}, hello : Sent \cup {None}]
             /\ conn[c].stage \in {"accepted", "sniffed", "open"}
                  => conn[c].addr \in Addrs /\ conn[c].hello \in Sent
             /\ conn[c].stage = "open" => OwnEntry(c)
             /\ conn[c].stage = "none" => conn[c].addr = None
             /\ Alone(c)
  BY <1>0 DEF PrintInv, PrintTypeOK
<1>s. ASSUME NEW c \in Conns, NEW s \in Streams
      PROVE  /\ <<c, s>> \in Conns \X Streams
             /\ stream[<<c, s>>] \in [ua : Kinds \cup {None}, by : Conns \cup {None},
                                      score : ScoreRange]
             /\ StreamOK(c, s)
  BY <1>0 DEF PrintInv, PrintTypeOK
<1> HIDE DEF Alone
(* A connection enters a stage after accepted, and stores p or nothing.      *)
<1>1. ASSUME NEW c \in Conns, NEW a \in Addrs, NEW kind \in Kinds, Connect(c, a, kind)
      PROVE  PrintInv'
  <2>1. PICK h \in Hellos[kind] :
          conn' = [conn EXCEPT ![c] = [stage |-> "accepted", addr |-> a, kind |-> kind,
                                       hello |-> h]]
    BY <1>1 DEF Connect
  <2>2. h \in Sent /\ h \in Hellos[kind]
    BY DEF Sent
  <2>3. /\ conn[c].stage = "none" /\ UNCHANGED <<cache, stream, underAttack>>
        /\ \A d \in Conns : conn[d].addr = a => conn[d].stage = "closed"
    BY <1>1 DEF Connect
  <2>4. /\ conn'[c].stage = "accepted" /\ conn'[c].addr = a /\ conn'[c].kind = kind
        /\ conn'[c].hello = h
        /\ \A d \in Conns : d # c => conn'[d] = conn[d]
    BY <1>0, <2>1 DEF PrintTypeOK
  <2>5. PrintTypeOK'
    <3>1. [stage |-> "accepted", addr |-> a, kind |-> kind, hello |-> h]
            \in [stage : Stages, addr : Addrs \cup {None},
                 kind : Kinds \cup {None}, hello : Sent \cup {None}]
      BY <2>2 DEF Stages
    <3>2. conn' \in [Conns -> [stage : Stages, addr : Addrs \cup {None},
                               kind : Kinds \cup {None}, hello : Sent \cup {None}]]
      BY <1>0, <2>1, <3>1 DEF PrintTypeOK
    <3> QED
      BY <1>0, <2>2, <2>3, <2>4, <3>2 DEF PrintTypeOK
  <2>6. ASSUME NEW d \in Conns, conn[d].stage = "open" PROVE d # c /\ OwnEntry(d)'
    <3>1. d # c
      BY <2>3, <2>6
    <3> QED
      BY <1>c, <2>3, <2>4, <2>6, <3>1 DEF OwnEntry
  <2>7. ASSUME NEW d \in Conns, NEW s \in Streams PROVE StreamOK(d, s)'
    <3>1. CASE d = c
      BY <1>s, <2>3, <2>4, <3>1 DEF StreamOK
    <3>2. CASE d # c
      BY <1>s, <2>3, <2>4, <3>2 DEF StreamOK
    <3> QED
      BY <3>1, <3>2
  <2>8. ASSUME NEW d \in Conns, NEW e \in Conns, conn'[d].addr = conn'[e].addr,
               conn'[d].addr \in Addrs
        PROVE  d = e \/ conn'[d].stage = "closed" \/ conn'[e].stage = "closed"
    BY <1>c, <2>3, <2>4, <2>8 DEF Alone
  <2>9. \A d \in Conns : /\ conn'[d].stage \in {"accepted", "sniffed", "open"}
                              => conn'[d].addr \in Addrs /\ conn'[d].hello \in Sent
                         /\ conn'[d].stage = "none" => conn'[d].addr = None
    BY <1>c, <2>2, <2>4
  <2>10. \A d \in Conns : conn'[d].stage = "open" => OwnEntry(d)'
    BY <2>4, <2>6
  <2> QED
    BY <2>5, <2>7, <2>8, <2>9, <2>10 DEF PrintInv
<1>2. ASSUME NEW c \in Conns, NEW st \in Stages, Enter(c, st), st \notin {"none", "open"},
             conn[c].stage # "none",
             conn[c].stage = "closed" => st = "closed",
             \A s \in Streams : stream[<<c, s>>].ua = None,
             UNCHANGED <<stream, underAttack>>,
             \/ UNCHANGED cache
             \/ \E e \in Entries : /\ cache' = [cache EXCEPT ![conn[c].addr] = e]
                                   /\ conn[c].stage \in {"accepted", "sniffed"}
      PROVE  PrintInv'
  <2>1. /\ conn'[c].stage = st /\ conn'[c].addr = conn[c].addr /\ conn'[c].kind = conn[c].kind
        /\ conn'[c].hello = conn[c].hello
        /\ \A d \in Conns : d # c => conn'[d] = conn[d]
    BY <1>0, <1>2 DEF PrintTypeOK, Enter
  <2>2. cache' \in [Addrs -> Entries \cup {None}]
    BY <1>0, <1>2 DEF PrintTypeOK
  <2>3. PrintTypeOK'
    <3>1. conn' \in [Conns -> [stage : Stages, addr : Addrs \cup {None},
                               kind : Kinds \cup {None}, hello : Sent \cup {None}]]
      <4>1. conn'[c] \in [stage : Stages, addr : Addrs \cup {None},
                          kind : Kinds \cup {None}, hello : Sent \cup {None}]
        <5>1. conn[c] \in [stage : Stages, addr : Addrs \cup {None},
                           kind : Kinds \cup {None}, hello : Sent \cup {None}]
          BY <1>0 DEF PrintTypeOK
        <5>2. conn'[c] = [conn[c] EXCEPT !.stage = st]
          BY <1>0, <1>2 DEF PrintTypeOK, Enter
        <5> QED
          BY <5>1, <5>2
      <4> QED
        BY <1>0, <1>2, <4>1 DEF PrintTypeOK, Enter
    <3> QED
      BY <1>0, <1>2, <2>1, <2>2, <3>1 DEF PrintTypeOK
  <2>4. ASSUME NEW d \in Conns, conn[d].stage = "open", d # c
        PROVE  cache'[conn[d].addr] = cache[conn[d].addr]
    <3>1. CASE UNCHANGED cache
      BY <3>1
    <3>2. CASE \E e \in Entries : /\ cache' = [cache EXCEPT ![conn[c].addr] = e]
                                  /\ conn[c].stage \in {"accepted", "sniffed"}
      <4>1. conn[d].addr # conn[c].addr
        BY <1>c, <2>4, <3>2 DEF Alone
      <4> QED
        BY <1>0, <3>2, <4>1 DEF PrintTypeOK
    <3> QED
      BY <1>2, <3>1, <3>2
  <2>5. ASSUME NEW d \in Conns, conn'[d].stage = "open" PROVE OwnEntry(d)'
    <3>1. d # c /\ conn[d].stage = "open" /\ conn'[d] = conn[d]
      BY <1>2, <2>1, <2>5
    <3>2. OwnEntry(d) /\ cache'[conn[d].addr] = cache[conn[d].addr]
      BY <1>c, <2>4, <3>1
    <3> QED
      BY <3>1, <3>2 DEF OwnEntry
  <2>6. ASSUME NEW d \in Conns, NEW s \in Streams PROVE StreamOK(d, s)'
    <3>1. CASE d = c
      BY <1>2, <1>s, <3>1 DEF StreamOK
    <3>2. CASE d # c
      BY <1>2, <1>s, <2>1, <2>4, <3>2 DEF StreamOK
    <3> QED
      BY <3>1, <3>2
  <2>7. ASSUME NEW d \in Conns, NEW e \in Conns, conn'[d].addr = conn'[e].addr,
               conn'[d].addr \in Addrs
        PROVE  d = e \/ conn'[d].stage = "closed" \/ conn'[e].stage = "closed"
    BY <1>2, <1>c, <2>1, <2>7 DEF Alone
  <2>8. \A d \in Conns : /\ conn'[d].stage \in {"accepted", "sniffed", "open"}
                              => conn'[d].addr \in Addrs /\ conn'[d].hello \in Sent
                         /\ conn'[d].stage = "none" => conn'[d].addr = None
    BY <1>2, <1>c, <2>1 DEF Stages
  <2> QED
    BY <2>3, <2>5, <2>6, <2>7, <2>8 DEF PrintInv
<1>3. ASSUME NEW c \in Conns, Sniff(c) PROVE PrintInv'
  <2>1. /\ conn[c].stage = "accepted" /\ UNCHANGED <<stream, underAttack>>
        /\ \A s \in Streams : stream[<<c, s>>].ua = None
    BY <1>3, <1>s DEF Sniff, StreamOK
  <2>2. CASE Enter(c, "sniffed") /\ UNCHANGED cache
    BY <1>2, <2>1, <2>2 DEF Stages
  <2>3. ASSUME NEW st \in {"closed", "sniffed"}, Enter(c, st),
               Remember(c, FromRaw(conn[c].hello))
        PROVE  PrintInv'
    <3>1. Fresh(c, FromRaw(conn[c].hello)) \in Entries
      BY PlainRange, PrintsAssumption DEF Fresh, FromRaw, Prints, JA4Known, Known, Entries
    <3> QED
      BY <1>2, <2>1, <2>3, <3>1 DEF Stages, Remember
  <2> QED
    BY <1>3, <2>2, <2>3 DEF Sniff
<1>4. ASSUME NEW c \in Conns, Close(c) PROVE PrintInv'
  BY <1>2, <1>4 DEF Close, Stages
<1>5. ASSUME NEW c \in Conns, Handshake(c) PROVE PrintInv'
  <2> DEFINE a == conn[c].addr
             e == [conn |-> c, ja3 |-> None, ja4 |-> FALSE, total |-> 0]
  <2>1. /\ conn[c].stage = "sniffed" /\ UNCHANGED <<stream, underAttack>>
        /\ a \in Addrs /\ conn[c].hello \in Sent
        /\ \A s \in Streams : stream[<<c, s>>].ua = None
    BY <1>5, <1>c, <1>s DEF Handshake, StreamOK
  <2>2. /\ e \in Entries /\ e.conn = c /\ e.ja3 = None /\ e.ja4 = FALSE
    <3>1. None \in Kinds \cup {None} /\ FALSE \in BOOLEAN /\ 0 \in ScoreRange
      BY PlainRange
    <3> QED
      BY <3>1 DEF Entries
  <2>3. cache' = [cache EXCEPT ![a] = e]
    <3>1. FromStdlib(conn[c].hello) = Unknown
      BY <2>1, StdlibUnknown
    <3>2. Fresh(c, Unknown) = e
      BY DEF Fresh, Unknown
    <3> QED
      BY <1>5, <3>1, <3>2, Zenon DEF Handshake, Remember
  <2>4. /\ conn'[c].stage = "open" /\ conn'[c].addr = a /\ conn'[c].kind = conn[c].kind
        /\ conn'[c].hello = conn[c].hello
        /\ \A d \in Conns : d # c => conn'[d] = conn[d]
    BY <1>0, <1>5 DEF PrintTypeOK, Enter, Handshake
  <2>5. PrintTypeOK'
    <3>1. conn' \in [Conns -> [stage : Stages, addr : Addrs \cup {None},
                               kind : Kinds \cup {None}, hello : Sent \cup {None}]]
      <4>1. conn'[c] \in [stage : Stages, addr : Addrs \cup {None},
                          kind : Kinds \cup {None}, hello : Sent \cup {None}]
        BY <1>0, <1>5 DEF PrintTypeOK, Enter, Handshake, Stages
      <4> QED
        BY <1>0, <1>5, <4>1 DEF PrintTypeOK, Enter, Handshake
    <3>2. cache' \in [Addrs -> Entries \cup {None}]
      BY <1>0, <2>2, <2>3 DEF PrintTypeOK
    <3> QED
      BY <1>0, <2>1, <2>4, <3>1, <3>2 DEF PrintTypeOK
  <2>6. cache'[a] = e /\ \A b \in Addrs : b # a => cache'[b] = cache[b]
    BY <1>0, <2>1, <2>3 DEF PrintTypeOK
  <2>7. ASSUME NEW d \in Conns, conn'[d].stage = "open" PROVE OwnEntry(d)'
    <3>1. CASE d = c
      BY <2>1, <2>2, <2>4, <2>6, <3>1 DEF OwnEntry
    <3>2. CASE d # c
      <4>1. conn'[d] = conn[d] /\ conn[d].addr # a
        BY <1>c, <2>1, <2>4, <2>7, <3>2 DEF Alone
      <4>2. OwnEntry(d)
        BY <1>c, <2>7, <4>1
      <4>3. cache'[conn[d].addr] = cache[conn[d].addr]
        BY <2>6, <4>1, <4>2 DEF OwnEntry
      <4> QED
        BY <4>1, <4>2, <4>3 DEF OwnEntry
    <3> QED
      BY <3>1, <3>2
  <2>8. ASSUME NEW d \in Conns, NEW s \in Streams PROVE StreamOK(d, s)'
    <3>1. CASE d = c
      BY <2>1, <1>s, <3>1 DEF StreamOK
    <3>2. CASE d # c
      <4>1. stream[<<d, s>>].ua # None => conn[d].addr \in Addrs /\ conn[d].addr # a
        BY <1>c, <1>s, <2>1, <3>2 DEF Alone, StreamOK
      <4> QED
        BY <1>s, <2>1, <2>4, <2>6, <3>2, <4>1 DEF StreamOK
    <3> QED
      BY <3>1, <3>2
  <2>9. ASSUME NEW d \in Conns, NEW f \in Conns, conn'[d].addr = conn'[f].addr,
               conn'[d].addr \in Addrs
        PROVE  d = f \/ conn'[d].stage = "closed" \/ conn'[f].stage = "closed"
    BY <1>c, <2>1, <2>4, <2>9 DEF Alone
  <2>10. \A d \in Conns : /\ conn'[d].stage \in {"accepted", "sniffed", "open"}
                               => conn'[d].addr \in Addrs /\ conn'[d].hello \in Sent
                          /\ conn'[d].stage = "none" => conn'[d].addr = None
    BY <1>c, <2>1, <2>4
  <2>11. \A d \in Conns : conn'[d].stage = "open" => OwnEntry(d)'
    BY <2>7
  <2>12. \A d \in Conns, t \in Streams : StreamOK(d, t)'
    BY <2>8
  <2>13. \A d, f \in Conns : conn'[d].addr = conn'[f].addr /\ conn'[d].addr \in Addrs
           => d = f \/ conn'[d].stage = "closed" \/ conn'[f].stage = "closed"
    BY <2>9
  <2> QED
    BY <2>5, <2>10, <2>11, <2>12, <2>13 DEF PrintInv
(* What requests do leaves the connections alone. *)
<1>6. ASSUME NEW c \in Conns, NEW s \in Streams, NEW r, UNCHANGED <<conn, underAttack>>,
             r \in [ua : Kinds \cup {None}, by : Conns \cup {None}, score : ScoreRange],
             stream' = [stream EXCEPT ![<<c, s>>] = r],
             cache' \in [Addrs -> Entries \cup {None}],
             \A d \in Conns : conn[d].stage = "open" => OwnEntry(d)',
             \A d \in Conns : conn[d].stage = "open" =>
               \/ cache'[conn[d].addr].total = Plain
               \/ cache'[conn[d].addr] = cache[conn[d].addr],
             r.ua # None => conn[c].stage = "open" /\ cache'[conn[c].addr].total = Plain,
             r.ua = None => r.by = None,
             r.by # None => r.by = c /\ r.score = Plain
      PROVE  PrintInv'
  <2>1. /\ stream'[<<c, s>>] = r
        /\ \A d \in Conns, t \in Streams : <<d, t>> # <<c, s>> => stream'[<<d, t>>] = stream[<<d, t>>]
    BY <1>0, <1>6 DEF PrintTypeOK
  <2>2. PrintTypeOK'
    <3>1. stream' \in [Conns \X Streams ->
                        [ua : Kinds \cup {None}, by : Conns \cup {None}, score : ScoreRange]]
      BY <1>0, <1>6 DEF PrintTypeOK
    <3> QED
      BY <1>0, <1>6, <3>1 DEF PrintTypeOK
  <2>3. ASSUME NEW d \in Conns, NEW t \in Streams PROVE StreamOK(d, t)'
    <3>1. CASE <<d, t>> = <<c, s>>
      BY <1>6, <2>1, <3>1 DEF StreamOK
    <3>2. CASE <<d, t>> # <<c, s>>
      BY <1>6, <1>s, <2>1, <3>2 DEF StreamOK
    <3> QED
      BY <3>1, <3>2
  <2> QED
    BY <1>6, <2>2, <2>3 DEF PrintInv
<1>7. ASSUME NEW c \in Conns, NEW s \in Streams, NEW ua \in Kinds, GetComposite(c, s, ua)
      PROVE  PrintInv'
  <2> DEFINE a == conn[c].addr
             e == [cache[a] EXCEPT !.total = Plain]
             r == [stream[<<c, s>>] EXCEPT !.ua = ua]
  <2>1. conn[c].stage = "open" /\ stream[<<c, s>>] = Idle /\ UNCHANGED <<conn, underAttack>>
    BY <1>7 DEF GetComposite
  <2>2. OwnEntry(c) /\ a \in Addrs
    BY <1>c, <2>1 DEF OwnEntry
  <2>3. cache' = [cache EXCEPT ![a] = e]
    BY <1>7, <2>2, PlainScore DEF GetComposite, OwnEntry
  <2>4. e \in Entries /\ e.conn = c /\ e.ja3 = None /\ e.ja4 = FALSE /\ e.total = Plain
    BY <2>2, PlainRange DEF OwnEntry, Entries
  <2>5. stream' = [stream EXCEPT ![<<c, s>>] = r]
    BY <1>7 DEF GetComposite
  <2>6. /\ r \in [ua : Kinds \cup {None}, by : Conns \cup {None}, score : ScoreRange]
        /\ r.ua = ua /\ r.by = None
    BY <1>s, <2>1 DEF Idle
  <2> HIDE DEF e, r
  <2>7. cache'[a] = e /\ \A b \in Addrs : b # a => cache'[b] = cache[b]
    BY <1>0, <2>2, <2>3 DEF PrintTypeOK
  <2>8. cache' \in [Addrs -> Entries \cup {None}]
    BY <1>0, <2>3, <2>4 DEF PrintTypeOK
  <2>9. ASSUME NEW d \in Conns, conn[d].stage = "open"
        PROVE  /\ OwnEntry(d)'
               /\ cache'[conn[d].addr].total = Plain
                  \/ cache'[conn[d].addr] = cache[conn[d].addr]
    <3>1. CASE d = c
      BY <2>1, <2>2, <2>4, <2>7, <3>1 DEF OwnEntry
    <3>2. CASE d # c
      <4>1. conn[d].addr \in Addrs /\ conn[d].addr # a /\ OwnEntry(d)
        BY <1>c, <2>1, <2>2, <2>9, <3>2 DEF Alone
      <4> QED
        BY <2>1, <2>7, <4>1 DEF OwnEntry
    <3> QED
      BY <3>1, <3>2
  <2> QED
    BY <1>6, <1>n, <2>1, <2>4, <2>5, <2>6, <2>7, <2>8, <2>9
<1>8. ASSUME NEW c \in Conns, NEW s \in Streams, Judge(c, s) PROVE PrintInv'
  <2> DEFINE e == cache[conn[c].addr]
             r == [ua |-> stream[<<c, s>>].ua, by |-> e.conn, score |-> e.total]
  <2>1. stream[<<c, s>>].ua # None /\ UNCHANGED <<conn, cache, underAttack>>
    BY <1>8 DEF Judge
  <2>2. /\ conn[c].stage = "open" /\ e.total = Plain /\ e.conn = c
    BY <1>s, <1>c, <2>1 DEF StreamOK, OwnEntry
  <2>3. stream' = [stream EXCEPT ![<<c, s>>] = r]
    BY <1>8, <1>s DEF Judge
  <2>4. r \in [ua : Kinds \cup {None}, by : Conns \cup {None}, score : ScoreRange]
        /\ r.ua = stream[<<c, s>>].ua /\ r.by = c /\ r.score = Plain
    BY <1>s, <2>2, PlainRange
  <2> HIDE DEF r
  <2>5. \A d \in Conns : conn[d].stage = "open" => OwnEntry(d)'
    BY <1>c, <2>1 DEF OwnEntry
  <2>6. cache' \in [Addrs -> Entries \cup {None}]
    BY <1>0, <2>1 DEF PrintTypeOK
  <2> QED
    BY <1>6, <1>n, <2>1, <2>2, <2>3, <2>4, <2>5, <2>6
<1>9. ASSUME NEW c \in Conns, NEW s \in Streams, Answer(c, s) PROVE PrintInv'
  <2>1. UNCHANGED <<conn, cache, underAttack>> /\ stream' = [stream EXCEPT ![<<c, s>>] = Idle]
    BY <1>9 DEF Answer
  <2>2. Idle \in [ua : Kinds \cup {None}, by : Conns \cup {None}, score : ScoreRange]
        /\ Idle.ua = None /\ Idle.by = None
    BY PlainRange DEF Idle
  <2>3. \A d \in Conns : conn[d].stage = "open" => OwnEntry(d)'
    BY <1>c, <2>1 DEF OwnEntry
  <2>4. cache' \in [Addrs -> Entries \cup {None}]
    BY <1>0, <2>1 DEF PrintTypeOK
  <2> QED
    BY <1>6, <2>1, <2>2, <2>3, <2>4
<1>10. ASSUME UNCHANGED <<conn, cache, stream>>, underAttack' \in BOOLEAN PROVE PrintInv'
  <2>1. PrintTypeOK'
    BY <1>0, <1>10 DEF PrintTypeOK
  <2>2. \A c \in Conns : OwnEntry(c) => OwnEntry(c)'
    BY <1>10 DEF OwnEntry
  <2>3. \A c \in Conns, s \in Streams : StreamOK(c, s) => StreamOK(c, s)'
    BY <1>10 DEF StreamOK
  <2> QED
    BY <1>10, <2>1, <2>2, <2>3 DEF PrintInv
<1>11. CASE FloodChanges
  <2>1. underAttack' \in BOOLEAN
    BY <1>11, Zenon DEF FloodChanges
  <2> QED
    BY <1>10, <1>11, <2>1 DEF FloodChanges
<1>12. CASE UNCHANGED printVars
  BY <1>0, <1>10, <1>12 DEF printVars, PrintTypeOK
<1> QED
  BY <1>1, <1>3, <1>4, <1>5, <1>7, <1>8, <1>9, <1>11, <1>12 DEF PrintNext

(* JudgedByOwn in every reachable state: a request is judged by the entry of *)
(* its own connection, however connections come and go under one address.    *)
THEOREM RequestsJudgedByOwn == PrintSpec => [](PrintTypeOK /\ JudgedByOwn)
<1>1. ASSUME PrintInv PROVE PrintTypeOK /\ JudgedByOwn
  <2>1. PrintTypeOK
    BY <1>1 DEF PrintInv
  <2>2. ASSUME NEW x \in Conns \X Streams, IsJudged(x)
        PROVE  /\ stream[x].by = x[1]
               /\ stream[x].score = CalculateComposite(FromStdlib(conn[x[1]].hello).ja3,
                                      FromStdlib(conn[x[1]].hello).ja4, stream[x].ua)
    <3>1. PICK c \in Conns, s \in Streams : x = <<c, s>> /\ x[1] = c
      OBVIOUS
    <3>2. StreamOK(c, s) /\ stream[<<c, s>>].by # None
      BY <1>1, <2>2, <3>1 DEF PrintInv, IsJudged
    <3>3. /\ stream[<<c, s>>].by = c /\ stream[<<c, s>>].score = Plain
          /\ conn[c].stage = "open"
      BY <3>2 DEF StreamOK
    <3>4. conn[c].hello \in Sent
      BY <1>1, <3>3 DEF PrintInv
    <3>5. FromStdlib(conn[c].hello).ja3 = None /\ FromStdlib(conn[c].hello).ja4 = FALSE
      BY <3>4, StdlibUnknown DEF Unknown
    <3> QED
      BY <3>1, <3>3, <3>5, PlainScore
  <2> QED
    BY <2>1, <2>2 DEF JudgedByOwn
<1> QED
  BY <1>1, PrintInvInit, PrintInvNext, PTL DEF PrintSpec
-----------------------------------------------------------------------------
(***************************************************************************)
(* Behaviour.                                                              *)
(***************************************************************************)
(* A profile stays one: whatever a request adds to it.                       *)
Profiles == [total : 0..MaxTotal, urls : 0..MaxURLs, methods : SUBSET {"GET", "POST"},
             agents : 0..4, static : BOOLEAN, api : BOOLEAN, dynamic : BOOLEAN]

LEMMA AnalyzedProfiles ==
  ASSUME NEW p \in Profiles PROVE Analyzed(p) \subseteq Profiles
<1> SUFFICES ASSUME NEW kind \in {"static", "api", "page"}, NEW method \in {"GET", "POST"},
                    NEW newURL \in BOOLEAN, NEW newAgent \in BOOLEAN
             PROVE  Counted(p, kind, method, newURL, newAgent) \in Profiles
  BY DEF Analyzed
<1> DEFINE c == Counted(p, kind, method, newURL, newAgent)
<1>1. UpTo(p.total, MaxTotal) \in 0..MaxTotal /\ UpTo(p.urls, MaxURLs) \in 0..MaxURLs
      /\ UpTo(p.agents, 4) \in 0..4 /\ p.urls \in 0..MaxURLs /\ p.agents \in 0..4
      /\ p.methods \cup {method} \in SUBSET {"GET", "POST"}
  BY BehaviourAssumption DEF Profiles, UpTo
<1>2. (p.static \/ kind = "static") \in BOOLEAN /\ (p.api \/ kind = "api") \in BOOLEAN
      /\ (p.dynamic \/ kind # "static") \in BOOLEAN
  BY Zenon
<1>3. (IF newURL \/ p.urls = 0 THEN UpTo(p.urls, MaxURLs) ELSE p.urls) \in 0..MaxURLs
      /\ (IF newAgent \/ p.agents = 0 THEN UpTo(p.agents, 4) ELSE p.agents) \in 0..4
  BY <1>1, Zenon
<1> HIDE DEF c
<1> QED
  BY <1>1, <1>2, <1>3, Zenon DEF Counted, Profiles

(* The arithmetic of computeVerdict: below 20 of 100 all the signs are there. *)
Suspect(p) ==
  /\ p.agents > 3 /\ p.total > Lots /\ ~p.static
  /\ p.urls * UniqueRatio < p.total \/ p.api

LEMMA LowScore ==
  ASSUME NEW p \in Profiles, NEW s \in Scores(p), s < 2000
  PROVE  Suspect(p)
<1>0. p.total \in Nat /\ p.agents \in Nat
  BY DEF Profiles
<1>1. ~(p.total < Enough)
  BY DEF Scores, Told
<1>2. PICK t \in Timings(p), e \in Entropies(p), v \in Speeds(p) :
        s = Told(10000 - 25 * t - 20 * e - 20 * Diversity(p) - 15 * v - 10 * Agents(p))
  BY <1>1 DEF Scores
<1>3. t \in Nat /\ t <= 100 /\ e \in Nat /\ e <= 90
  BY DEF Timings, Entropies
<1>4. v \in Nat /\ v <= 100 /\ (v > 60 => p.total > Lots)
  BY <1>0, BehaviourAssumption DEF Speeds
<1>5. Agents(p) \in {0, 60} /\ (Agents(p) = 60 => p.agents > 3)
  BY DEF Agents
<1> DEFINE a == IF Cardinality(p.methods) = 1 THEN 20 ELSE 0
           b == IF ~p.static /\ p.total > Many THEN 40 ELSE 0
           c == IF p.dynamic /\ ~p.static /\ p.api THEN 30 ELSE 0
           d == IF p.total > Lots /\ p.urls * UniqueRatio < p.total THEN 40 ELSE 0
<1>6. /\ a \in {0, 20} /\ b \in {0, 40} /\ c \in {0, 30} /\ d \in {0, 40}
      /\ b = 40 \/ c = 30 => ~p.static
      /\ c = 30 => p.api
      /\ d = 40 => p.urls * UniqueRatio < p.total
  <2>1. a \in {0, 20}
    OBVIOUS
  <2>2. b \in {0, 40} /\ (b = 40 => ~p.static)
    OBVIOUS
  <2>3. c \in {0, 30} /\ (c = 30 => ~p.static /\ p.api)
    OBVIOUS
  <2>4. d \in {0, 40} /\ (d = 40 => p.urls * UniqueRatio < p.total)
    OBVIOUS
  <2> HIDE DEF a, b, c, d
  <2> QED
    BY <2>1, <2>2, <2>3, <2>4
<1>7. Diversity(p) = Clamped(a + b + c + d)
  BY DEF Diversity
<1> HIDE DEF a, b, c, d
<1>8. /\ Diversity(p) \in Nat /\ Diversity(p) <= 100
      /\ Diversity(p) > 80 => (b = 40 \/ c = 30) /\ (c = 30 \/ d = 40)
  BY <1>6, <1>7 DEF Clamped
<1> DEFINE x == 10000 - 25 * t - 20 * e - 20 * Diversity(p) - 15 * v - 10 * Agents(p)
<1>9. x \in Int /\ x < 2000
  <2>1. x \in Int
    BY <1>3, <1>4, <1>5, <1>8
  <2>2. Told(x) < 2000
    BY <1>2
  <2> HIDE DEF x
  <2> QED
    BY <2>1, <2>2 DEF Told
<1>10. Agents(p) = 60 /\ v > 60 /\ Diversity(p) > 80
  <2> DEFINE y == Diversity(p)
             z == Agents(p)
  <2>1. /\ y \in Nat /\ y <= 100 /\ z \in {0, 60}
        /\ 10000 - 25 * t - 20 * e - 20 * y - 15 * v - 10 * z < 2000
    BY <1>5, <1>8, <1>9
  <2> HIDE DEF y, z
  <2>2. z = 60 /\ v > 60 /\ y > 80
    BY <2>1, <1>3, <1>4
  <2> QED
    BY <2>2 DEF y, z
<1> QED
  BY <1>4, <1>5, <1>6, <1>8, <1>10 DEF Suspect

(* The threat that a request adds is critical only when it names a tool.     *)
LEMMA CriticalNamed ==
  ASSUME NEW s \in Int, NEW tool \in BOOLEAN, NEW c \in Classes(s, tool)
  PROVE  \/ Kept(class) /\ c = class
         \/ /\ c \in [threat : Threats, bot : BOOLEAN, age : {0}]
            /\ c.threat = "critical" => tool
<1>1. CASE Kept(class)
  BY <1>1 DEF Classes
<1>2. CASE ~Kept(class)
  <2>1. PICK g \in {"none", "medium", "high"}, print \in {0, 2} :
          c = Classified(IF g = "none" THEN 0 ELSE 1, g, tool, print, s)
    BY <1>2 DEF Classes
  <2> DEFINE n == Matched(IF g = "none" THEN 0 ELSE 1, tool, print, s)
             h == Higher(g, IF tool THEN "critical" ELSE "none")
  <2>2. c = [bot |-> n >= 2, age |-> 0, threat |-> IF n >= 3 THEN h ELSE "none"]
    BY <2>1 DEF Classified
  <2>3. (n >= 2) \in BOOLEAN
    <3>1. n \in Int
      BY DEF Matched
    <3> HIDE DEF n
    <3> QED
      BY <3>1
  <2>4. h \in Threats /\ (h = "critical" => tool)
    <3>1. CASE tool
      BY <3>1 DEF Higher, Threats
    <3>2. CASE ~tool
      <4>1. h = Higher(g, "none")
        BY <3>2
      <4>2. Higher(g, "none") \in Threats \ {"critical"}
        BY DEF Higher, Threats
      <4> QED
        BY <4>1, <4>2
    <3> QED
      BY <3>1, <3>2
  <2> HIDE DEF n, h
  <2>5. (IF n >= 3 THEN h ELSE "none") \in Threats
    BY <2>4 DEF Threats
  <2> QED
    BY <2>2, <2>3, <2>4, <2>5
<1> QED
  BY <1>1, <1>2

(* A classification that is grave is no older than the last naming of a tool. *)
BehaviourInv ==
  /\ BehaviourTypeOK /\ BannedForCause
  /\ class.threat = "critical" => toolAge <= class.age

(* Behaviour: the invariant holds at the start.                              *)
LEMMA BehaviourInvInit == BehaviourInit => BehaviourInv
<1> SUFFICES ASSUME BehaviourInit PROVE BehaviourInv
  OBVIOUS
<1>1. BehaviourTypeOK
  BY BehaviourAssumption DEF BehaviourInit, BehaviourTypeOK, NoProfile, NoClass, Threats
<1> QED
  BY <1>1 DEF BehaviourInit, BehaviourInv, BannedForCause, NoClass

(* Requests, cleanups and the clock keep it.                                 *)
LEMMA BehaviourInvNext == BehaviourInv /\ [BehaviourNext]_behaviourVars => BehaviourInv'
<1> SUFFICES ASSUME BehaviourInv, [BehaviourNext]_behaviourVars PROVE BehaviourInv'
  OBVIOUS
<1>0. /\ profile \in Profiles /\ class \in [threat : Threats, bot : BOOLEAN, age : 0..MaxAge]
      /\ toolAge \in 0..MaxAge /\ class.age \in Nat /\ toolAge \in Nat
      /\ MaxAge \in Nat /\ CacheTTL \in Nat /\ CacheTTL > 0 /\ BehaviourTypeOK
      /\ class.threat = "critical" => toolAge <= class.age
  BY BehaviourAssumption DEF BehaviourInv, BehaviourTypeOK, Profiles
<1>1. CASE Request
  <2>1. PICK p \in Analyzed(profile) : \E s \in Scores(p), tool \in BOOLEAN :
      /\ profile' = p
      /\ toolAge' = IF tool THEN 0 ELSE toolAge
      /\ \/ s < 2000 /\ verdict' = "behaviour" /\ UNCHANGED class
         \/ /\ s >= 2000 /\ class' \in Classes(s, tool)
            /\ verdict' = IF class'.bot /\ class'.threat = "critical" THEN "critical"
                          ELSE IF class'.bot /\ class'.threat = "high" THEN "challenged"
                          ELSE "passed"
    BY <1>1 DEF Request
  <2>2. PICK s \in Scores(p), tool \in BOOLEAN :
      /\ profile' = p
      /\ toolAge' = IF tool THEN 0 ELSE toolAge
      /\ \/ s < 2000 /\ verdict' = "behaviour" /\ UNCHANGED class
         \/ /\ s >= 2000 /\ class' \in Classes(s, tool)
            /\ verdict' = IF class'.bot /\ class'.threat = "critical" THEN "critical"
                          ELSE IF class'.bot /\ class'.threat = "high" THEN "challenged"
                          ELSE "passed"
    BY <2>1, Zenon
  <2>3. p \in Profiles
    BY <1>0, AnalyzedProfiles
  <2>4. toolAge' \in 0..MaxAge /\ toolAge' <= toolAge /\ (tool => toolAge' = 0)
    BY <1>0, <2>2
  <2>5. CASE s < 2000 /\ verdict' = "behaviour" /\ UNCHANGED class
    <3>1. Suspect(p)
      BY <2>3, <2>5, LowScore
    <3>2. BehaviourTypeOK'
      BY <1>0, <2>2, <2>3, <2>4, <2>5 DEF BehaviourTypeOK, Profiles
    <3>3. BannedForCause'
      BY <2>2, <2>5, <3>1 DEF BannedForCause, Suspect
    <3> QED
      BY <1>0, <2>4, <2>5, <3>2, <3>3 DEF BehaviourInv
  <2>6. CASE /\ s >= 2000 /\ class' \in Classes(s, tool)
             /\ verdict' = IF class'.bot /\ class'.threat = "critical" THEN "critical"
                           ELSE IF class'.bot /\ class'.threat = "high" THEN "challenged"
                           ELSE "passed"
    <3>1. s \in Int
      BY DEF Scores, Told
    <3>2. \/ Kept(class) /\ class' = class
          \/ /\ class' \in [threat : Threats, bot : BOOLEAN, age : {0}]
             /\ class'.threat = "critical" => tool
      BY <2>6, <3>1, CriticalNamed
    <3>3. class' \in [threat : Threats, bot : BOOLEAN, age : 0..MaxAge]
      BY <1>0, <3>2
    <3>4. class'.threat = "critical" => toolAge' <= class'.age /\ toolAge' < CacheTTL
      BY <1>0, <2>4, <3>2 DEF Kept
    <3>5. verdict' \in {"passed", "critical", "challenged"}
          /\ (verdict' = "critical" => class'.threat = "critical")
      BY <2>6
    <3>6. BehaviourTypeOK'
      BY <2>2, <2>3, <2>4, <3>3, <3>5 DEF BehaviourTypeOK, Profiles
    <3> QED
      BY <3>4, <3>5, <3>6 DEF BehaviourInv, BannedForCause
  <2> QED
    BY <2>2, <2>5, <2>6
<1>2. CASE DropProfile
  <2>1. NoProfile \in Profiles
    BY BehaviourAssumption DEF NoProfile, Profiles
  <2> QED
    BY <1>0, <1>2, <2>1 DEF DropProfile, BehaviourInv, BannedForCause, BehaviourTypeOK, Profiles
<1>3. CASE DropClass
  BY <1>0, <1>3 DEF DropClass, BehaviourInv, BannedForCause, BehaviourTypeOK, NoClass, Threats
<1>4. CASE BehaviourTick
  <2>1. /\ class' = [threat |-> class.threat, bot |-> class.bot, age |-> UpTo(class.age, MaxAge)]
        /\ toolAge' = UpTo(toolAge, MaxAge) /\ verdict' = "passed" /\ profile' = profile
    BY <1>0, <1>4 DEF BehaviourTick
  <2>2. class'.threat = class.threat /\ class'.age = UpTo(class.age, MaxAge)
    BY <2>1
  <2>3. BehaviourTypeOK'
    BY <1>0, <2>1 DEF BehaviourTypeOK, UpTo
  <2>4. toolAge <= class.age => toolAge' <= class'.age
    BY <1>0, <2>1, <2>2 DEF UpTo
  <2> QED
    BY <1>0, <2>1, <2>2, <2>3, <2>4 DEF BehaviourInv, BannedForCause
<1>5. CASE UNCHANGED behaviourVars
  BY <1>5 DEF behaviourVars, BehaviourInv, BannedForCause, BehaviourTypeOK
<1> QED
  BY <1>1, <1>2, <1>3, <1>4, <1>5 DEF BehaviourNext

(* BannedForCause in every reachable state: nobody is banned by layers 6 and *)
(* 7 for one sign, whatever the thresholds and the life of a classification. *)
THEOREM NobodyBannedForOneSign == BehaviourSpec => [](BehaviourTypeOK /\ BannedForCause)
<1>1. BehaviourInv => BehaviourTypeOK /\ BannedForCause
  BY DEF BehaviourInv
<1> QED
  BY <1>1, BehaviourInvInit, BehaviourInvNext, PTL DEF BehaviourSpec
-----------------------------------------------------------------------------
(***************************************************************************)
(* Intelligence.                                                           *)
(***************************************************************************)
(* What is left of the trust, and what was counted against the address, in   *)
(* each phase of an evaluation.  A report is as old as its query, a kept     *)
(* answer older by the time the query took.                                  *)
Hosted == IF place.network # "residential" THEN 1500 ELSE 0
Remembered == seen <= RepTTL + Patience

BeforeAnswer(e) ==
  /\ e.against \in 0..2 /\ e.trust \in Nat /\ e.trust <= 7000
  /\ e.against = 0 => e.trust >= 7000
  /\ e.against = 1 => e.trust >= 3000

AfterAnswer(e) ==
  /\ e.against \in 0..3 /\ e.trust \in Int /\ e.trust >= -13500 /\ e.trust <= 7000
  /\ \/ Remembered \/ e.against >= 2
     \/ /\ e.against = 0 => e.trust >= 7000 - Hosted
        /\ e.against = 1 => e.trust >= 3000 - Hosted

EvalOK(e) ==
  /\ e.phase = "idle" => e = NoEval
  /\ e.phase \in {"reputation", "query"} => BeforeAnswer(e)
  /\ e.phase = "query" /\ e.abuse > 0 => seen <= e.since
  /\ e.phase = "asn" => AfterAnswer(e)
  /\ e.phase = "done" => /\ e.trust \in Nat /\ e.trust <= 10000
                         /\ e.trust <= 0 => e.against >= 2 \/ Remembered
  /\ e.phase # "query" => e.since = 0

IntelInv ==
  /\ IntelTypeOK
  /\ reported > 0 => seen = 0
  /\ answer.abuse > 0 => seen <= answer.age + Patience
  /\ \A p \in Procs : EvalOK(eval[p])

(* A step of one request that leaves the world alone keeps the invariant     *)
(* when the request itself stays in order.                                   *)
LEMMA IntelStepOf ==
  ASSUME IntelInv, NEW p \in Procs, NEW e \in Evals, EvalOK(e),
         eval' = [eval EXCEPT ![p] = e],
         UNCHANGED <<place, settings, known, reported, seen, changes>>,
         answer' \in [abuse : Answers, age : 0..MaxSeen],
         answer'.abuse > 0 => seen <= answer'.age + Patience
  PROVE  IntelInv'
<1>1. \A q \in Procs : eval'[q] = IF q = p THEN e ELSE eval[q]
  BY DEF IntelInv, IntelTypeOK, KnowledgeTypeOK
<1>2. \A x : EvalOK(x) => EvalOK(x)'
  BY DEF EvalOK, BeforeAnswer, AfterAnswer, Remembered, Hosted, NoEval
<1>3. \A q \in Procs : EvalOK(eval[q])'
  BY <1>1, <1>2 DEF IntelInv
<1>4. IntelTypeOK'
  <2>1. KnowledgeTypeOK /\ WorldTypeOK
    BY DEF IntelInv, IntelTypeOK
  <2>2. eval' \in [Procs -> Evals]
    BY <2>1 DEF KnowledgeTypeOK
  <2>3. e.phase \in {"idle", "done"} => e.trust \in Nat /\ e.trust <= 10000
    <3>1. e.phase = "idle" => e.trust = 7000
      BY DEF EvalOK, NoEval
    <3>2. e.phase = "done" => e.trust \in Nat /\ e.trust <= 10000
      BY DEF EvalOK
    <3> QED
      BY <3>1, <3>2
  <2>4. KnowledgeTypeOK'
    BY <1>1, <2>1, <2>2, <2>3 DEF KnowledgeTypeOK
  <2>5. WorldTypeOK'
    BY <2>1 DEF WorldTypeOK
  <2> QED
    BY <2>4, <2>5 DEF IntelTypeOK
<1> QED
  BY <1>3, <1>4 DEF IntelInv

(* The same for a request that goes on to a phase other than the query.      *)
LEMMA GoKeeps ==
  ASSUME IntelInv, NEW p \in Procs, NEW phase \in {"reputation", "asn", "done"},
         NEW trust \in Int, NEW signs \in Nat, Go(p, phase, trust, signs),
         eval[p].against + signs \in 0..4,
         \A e \in Evals : /\ e.phase = phase /\ e.trust = trust
                          /\ e.against = eval[p].against + signs /\ e.since = 0
                          => EvalOK(e),
         UNCHANGED <<place, settings, known, reported, seen, changes>>,
         answer' \in [abuse : Answers, age : 0..MaxSeen],
         answer'.abuse > 0 => seen <= answer'.age + Patience
  PROVE  IntelInv'
<1> DEFINE e == [phase |-> phase, trust |-> trust, since |-> 0, abuse |-> Default,
                 against |-> eval[p].against + signs]
<1>1. e \in Evals
  BY IntelAssumption DEF Evals, Answers
<1>2. EvalOK(e)
  BY <1>1
<1>3. eval' = [eval EXCEPT ![p] = e]
  BY DEF Go
<1> QED
  BY <1>1, <1>2, <1>3, IntelStepOf

(* What an answer takes from the trust, at most and without a report.        *)
LEMMA JudgedBounds ==
  ASSUME WorldTypeOK, NEW t \in Nat, t <= 7000, NEW a \in Answers
  PROVE  /\ Judged(t, a) \in Int /\ Judged(t, a) >= -13500 /\ Judged(t, a) <= 7000
         /\ a <= 0 => Judged(t, a) >= t - Hosted - (IF Anonymous(a) = 1 THEN 2000 ELSE 0)
         /\ Anonymous(a) \in 0..1
BY IntelAssumption DEF Judged, Anonymous, Answers, Default, Hosted

(* What an answer, true of the last ticks, makes of a request.               *)
LEMMA AfterJudging ==
  ASSUME WorldTypeOK, NEW e \in Evals, BeforeAnswer(e), NEW a \in Answers,
         a > 0 => Remembered, NEW f, f.trust = Judged(e.trust, a),
         f.against = e.against + Anonymous(a)
  PROVE  AfterAnswer(f)
<1>1. a \in Int
  BY IntelAssumption DEF Answers, Default
<1> DEFINE t == Judged(e.trust, a)   n == Anonymous(a)
<1>2. /\ t \in Int /\ t >= -13500 /\ t <= 7000 /\ n \in 0..1
      /\ a <= 0 => t >= e.trust - Hosted - (IF n = 1 THEN 2000 ELSE 0)
  BY JudgedBounds DEF BeforeAnswer
<1>3. Hosted \in Nat /\ Hosted <= 1500
  BY DEF Hosted
<1>4. f.trust = t /\ f.against = e.against + n
  OBVIOUS
<1> HIDE DEF t, n
<1> QED
  BY <1>1, <1>2, <1>3, <1>4 DEF BeforeAnswer, AfterAnswer

(* Intelligence: the invariant holds at the start.                           *)
LEMMA IntelInvInit == IntelInit => IntelInv
<1> SUFFICES ASSUME IntelInit PROVE IntelInv
  OBVIOUS
<1>1. NoEval \in Evals /\ EvalOK(NoEval) /\ NoEval.trust = 7000
  BY IntelAssumption DEF Evals, EvalOK, NoEval, Answers
<1>2. eval \in [Procs -> Evals] /\ \A p \in Procs : eval[p] = NoEval
  BY <1>1 DEF IntelInit
<1>3. /\ reported \in Abuse /\ reported \in Nat /\ seen \in 0..MaxSeen
      /\ (reported > 0 => seen = 0)
  BY IntelAssumption DEF IntelInit
<1>4. answer \in [abuse : Answers, age : 0..MaxSeen] /\ answer.abuse = -1
  BY IntelAssumption DEF IntelInit, NoAnswer, Default, Answers
<1>5. KnowledgeTypeOK
  BY <1>1, <1>2, <1>3, <1>4 DEF KnowledgeTypeOK
<1>6. WorldTypeOK
  <2>1. known \in BOOLEAN /\ changes \in 0..MaxChanges
    <3>1. known \in BOOLEAN
      BY Zenon DEF IntelInit
    <3>2. changes \in 0..MaxChanges
      BY IntelAssumption DEF IntelInit
    <3> QED
      BY <3>1, <3>2
  <2>2. /\ place \in [list : Lists, network : Networks, tor : BOOLEAN]
        /\ settings \in [country : {"free", "blocked", "notAllowed"}, blockDatacenter : BOOLEAN]
        /\ reported \in Abuse
    BY DEF IntelInit
  <2> QED
    BY <2>1, <2>2 DEF WorldTypeOK
<1> QED
  BY <1>1, <1>2, <1>3, <1>4, <1>5, <1>6 DEF IntelInv, IntelTypeOK

(* Evaluations, answers, feeds, reloads and the clock keep it.               *)
LEMMA IntelInvNext == IntelInv /\ [IntelNext]_intelVars => IntelInv'
<1> SUFFICES ASSUME IntelInv, [IntelNext]_intelVars PROVE IntelInv'
  OBVIOUS
<1>w. WorldTypeOK /\ KnowledgeTypeOK
  BY DEF IntelInv, IntelTypeOK
<1>r. reported \in Abuse /\ reported \in Nat
  BY <1>w, IntelAssumption DEF WorldTypeOK
<1>0. /\ answer \in [abuse : Answers, age : 0..MaxSeen]
      /\ (answer.abuse > 0 => seen <= answer.age + Patience)
      /\ seen \in 0..MaxSeen /\ (reported > 0 => seen = 0)
  BY <1>w DEF IntelInv, KnowledgeTypeOK
<1>a. RepTTL \in Nat /\ Patience \in Nat /\ MaxSeen \in Nat
  BY IntelAssumption
<1>e. ASSUME NEW p \in Procs PROVE eval[p] \in Evals /\ EvalOK(eval[p])
  BY <1>w DEF IntelInv, KnowledgeTypeOK
<1>1. ASSUME NEW p \in Procs, Evaluate(p) PROVE IntelInv'
  <2> DEFINE feed == IF known THEN 1 ELSE 0
             left == IF settings.country = "notAllowed" THEN 1 ELSE 0
  <2>1. eval[p].against = 0
    BY <1>1, <1>e DEF Evaluate, EvalOK, NoEval
  <2>2. UNCHANGED <<place, settings, known, reported, answer, seen, changes>>
    BY <1>1 DEF Evaluate
  <2>3. CASE Go(p, "done", 10000, 0)
    BY <2>1, <2>2, <2>3, <1>0, GoKeeps DEF EvalOK
  <2>4. CASE Go(p, "done", 0, 3)
    BY <2>1, <2>2, <2>4, <1>0, GoKeeps DEF EvalOK
  <2>5. CASE Go(p, "reputation", 7000 - 4000 * feed - 3000 * left, feed + left)
    <3> DEFINE t == 7000 - 4000 * feed - 3000 * left   n == feed + left
    <3>1. t \in Nat /\ t <= 7000 /\ n \in 0..2 /\ (n = 0 => t >= 7000) /\ (n = 1 => t >= 3000)
      OBVIOUS
    <3>2. Go(p, "reputation", t, n)
      BY <2>5
    <3> HIDE DEF t, n
    <3> QED
      BY <3>1, <3>2, <2>1, <2>2, <1>0, GoKeeps DEF EvalOK, BeforeAnswer
  <2> QED
    BY <1>1, <2>3, <2>4, <2>5 DEF Evaluate
<1>2. ASSUME NEW p \in Procs, NEW a \in Answers, a > 0 => Remembered, BeforeAnswer(eval[p]),
             Go(p, "asn", Judged(eval[p].trust, a), Anonymous(a)),
             UNCHANGED <<place, settings, known, reported, seen, changes>>,
             answer' \in [abuse : Answers, age : 0..MaxSeen],
             answer'.abuse > 0 => seen <= answer'.age + Patience
      PROVE  IntelInv'
  <2> DEFINE t == Judged(eval[p].trust, a)   n == Anonymous(a)
  <2>1. t \in Int /\ t >= -13500 /\ t <= 7000 /\ n \in 0..1
    BY <1>w, <1>2, JudgedBounds DEF BeforeAnswer
  <2>2. ASSUME NEW f \in Evals, f.phase = "asn", f.trust = t, f.since = 0,
               f.against = eval[p].against + n
        PROVE  EvalOK(f)
    <3>1. AfterAnswer(f)
      BY <1>w, <1>2, <1>e, <2>2, AfterJudging
    <3> QED
      BY <3>1, <2>2 DEF EvalOK
  <2>3. eval[p].against + n \in 0..4
    BY <1>2, <2>1 DEF BeforeAnswer
  <2>4. Go(p, "asn", t, n)
    BY <1>2
  <2> HIDE DEF t, n
  <2> QED
    BY <2>1, <2>2, <2>3, <2>4, <1>2, GoKeeps
<1>3. ASSUME NEW p \in Procs, UseAnswer(p) PROVE IntelInv'
  <2>1. BeforeAnswer(eval[p])
    BY <1>3, <1>e DEF UseAnswer, EvalOK
  <2>2. answer.abuse \in Answers /\ (answer.abuse > 0 => Remembered)
    BY <1>0, <1>a, <1>3 DEF UseAnswer, Current, Remembered
  <2> QED
    BY <2>1, <2>2, <1>0, <1>2, <1>3 DEF UseAnswer
<1>4. ASSUME NEW p \in Procs, NEW a \in Answers, a > 0 => seen <= Patience, StoreAnswer(p, a)
      PROVE  IntelInv'
  <2>1. BeforeAnswer(eval[p])
    BY <1>4, <1>e DEF StoreAnswer, EvalOK
  <2>2. a > 0 => Remembered
    BY <1>0, <1>a, <1>4 DEF Remembered
  <2>3. /\ answer' \in [abuse : Answers, age : 0..MaxSeen]
        /\ answer'.abuse > 0 => seen <= answer'.age + Patience
    BY <1>0, <1>a, <1>4 DEF StoreAnswer
  <2> QED
    BY <2>1, <2>2, <2>3, <1>2, <1>4 DEF StoreAnswer
<1>5. ASSUME NEW p \in Procs, Answered(p) PROVE IntelInv'
  <2>1. eval[p].abuse \in Answers /\ (eval[p].abuse > 0 => seen <= Patience)
    BY <1>0, <1>a, <1>5, <1>e DEF Answered, StoreAnswer, EvalOK, Evals
  <2> QED
    BY <2>1, <1>4, <1>5 DEF Answered
<1>6. ASSUME NEW p \in Procs, QueryFailed(p) PROVE IntelInv'
  BY <1>4, <1>6 DEF QueryFailed, Answers, Default
<1>7. ASSUME NEW p \in Procs, SendQuery(p) PROVE IntelInv'
  <2> DEFINE f == [eval[p] EXCEPT !.phase = "query", !.abuse = reported]
  <2>1. BeforeAnswer(eval[p]) /\ eval[p].since = 0
    BY <1>7, <1>e DEF SendQuery, EvalOK
  <2>2. /\ f \in Evals /\ f.since = 0 /\ f.abuse = reported /\ f.phase = "query"
        /\ f.trust = eval[p].trust /\ f.against = eval[p].against
    BY <1>0, <1>r, <1>e, <2>1 DEF Evals, Answers
  <2>3. eval' = [eval EXCEPT ![p] = f]
    BY <1>7 DEF SendQuery
  <2> HIDE DEF f
  <2>4. EvalOK(f)
    BY <2>1, <2>2, <1>0 DEF EvalOK, BeforeAnswer
  <2> QED
    BY <2>2, <2>3, <2>4, <1>0, <1>7, IntelStepOf DEF SendQuery
<1>8. ASSUME NEW p \in Procs, AnalyzeASN(p) PROVE IntelInv'
  <2> DEFINE hosting == place.network # "residential"
             trust == eval[p].trust
                      - (IF hosting /\ settings.blockDatacenter THEN 2500 ELSE 0)
                      - (IF place.network = "highRisk" THEN 2000 ELSE 0)
             left == IF trust < 0 THEN 0 ELSE trust
             sign == IF hosting THEN 1 ELSE 0
  <2>1. AfterAnswer(eval[p])
    BY <1>8, <1>e DEF AnalyzeASN, EvalOK
  <2>2. left \in Nat /\ left <= 10000 /\ sign \in 0..1
    BY <2>1 DEF AfterAnswer
  <2>3. left <= 0 => eval[p].against + sign >= 2 \/ Remembered
    BY <2>1 DEF AfterAnswer, Hosted
  <2>4. eval[p].against \in 0..3
    BY <2>1 DEF AfterAnswer
  <2>5. Go(p, "done", left, sign)
    BY <1>8 DEF AnalyzeASN
  <2> HIDE DEF left, sign
  <2> QED
    BY <2>2, <2>3, <2>4, <2>5, <1>0, <1>8, GoKeeps DEF AnalyzeASN, EvalOK
<1>9. ASSUME NEW p \in Procs, Finish(p) PROVE IntelInv'
  <2>1. NoEval \in Evals /\ EvalOK(NoEval)
    BY IntelAssumption DEF Evals, EvalOK, NoEval, Answers
  <2> QED
    BY <2>1, <1>0, <1>9, IntelStepOf DEF Finish
<1>10. CASE UpdateFeeds
  <2>1. \A x : EvalOK(x) => EvalOK(x)'
    BY <1>10 DEF UpdateFeeds, EvalOK, BeforeAnswer, AfterAnswer, Remembered, Hosted
  <2>2. KnowledgeTypeOK'
    BY <1>10, <1>w DEF UpdateFeeds, KnowledgeTypeOK
  <2>3. WorldTypeOK'
    <3>1. known' \in BOOLEAN /\ changes' \in 0..MaxChanges
      BY <1>10, <1>w, IntelAssumption DEF UpdateFeeds, Change, WorldTypeOK
    <3> QED
      BY <3>1, <1>10, <1>w DEF UpdateFeeds, WorldTypeOK
  <2> QED
    BY <1>10, <2>1, <2>2, <2>3 DEF UpdateFeeds, IntelInv, IntelTypeOK
<1>11. ASSUME NEW country \in {"free", "blocked", "notAllowed"}, NEW block \in BOOLEAN,
              UpdateSettings(country, block)
       PROVE  IntelInv'
  <2>1. \A x : EvalOK(x) => EvalOK(x)'
    BY <1>11 DEF UpdateSettings, EvalOK, BeforeAnswer, AfterAnswer, Remembered, Hosted
  <2>2. settings' \in [country : {"free", "blocked", "notAllowed"}, blockDatacenter : BOOLEAN]
    BY <1>11 DEF UpdateSettings
  <2>3. KnowledgeTypeOK'
    BY <1>11, <1>w DEF UpdateSettings, KnowledgeTypeOK
  <2>4. changes' \in 0..MaxChanges
    BY <1>11, <1>w, IntelAssumption DEF UpdateSettings, Change, WorldTypeOK
  <2>5. WorldTypeOK'
    BY <1>11, <1>w, <2>2, <2>4 DEF UpdateSettings, WorldTypeOK
  <2> QED
    BY <1>11, <2>1, <2>3, <2>5 DEF UpdateSettings, IntelInv, IntelTypeOK
<1>12. ASSUME NEW abuse \in Abuse, Report(abuse) PROVE IntelInv'
  <2>1. seen' \in 0..MaxSeen /\ (reported' > 0 => seen' = 0) /\ seen' <= seen
    BY <1>0, <1>a, <1>r, <1>12, IntelAssumption DEF Report
  <2>2. KnowledgeTypeOK' /\ WorldTypeOK'
    <3>1. KnowledgeTypeOK'
      BY <2>1, <1>w, <1>12 DEF Report, KnowledgeTypeOK
    <3>2. changes' \in 0..MaxChanges
      BY <1>12, <1>w, IntelAssumption DEF Report, Change, WorldTypeOK
    <3>3. WorldTypeOK'
      BY <3>2, <1>w, <1>12 DEF Report, WorldTypeOK
    <3> QED
      BY <3>1, <3>3
  <2>3. ASSUME NEW p \in Procs PROVE EvalOK(eval[p])'
    BY <1>0, <1>a, <1>12, <1>e, <2>1 DEF Report, EvalOK, Evals, BeforeAnswer, AfterAnswer,
                                         Remembered, Hosted
  <2>4. answer.abuse > 0 => seen' <= answer.age + Patience
    BY <1>0, <1>a, <2>1
  <2> QED
    BY <1>12, <2>1, <2>2, <2>3, <2>4 DEF Report, IntelInv, IntelTypeOK
<1>13. CASE IntelTick
  <2>1. seen' \in 0..MaxSeen /\ seen' <= seen + 1 /\ (reported > 0 => seen' = 0)
    BY <1>0, <1>a, <1>r, <1>13 DEF IntelTick
  <2>2. /\ answer' \in [abuse : Answers, age : 0..MaxSeen] /\ answer'.abuse = answer.abuse
        /\ answer'.age = (IF answer.age < MaxSeen THEN answer.age + 1 ELSE answer.age)
    BY <1>0, <1>a, <1>13 DEF IntelTick
  <2>3. answer'.abuse > 0 => seen' <= answer'.age + Patience
    BY <1>0, <1>a, <2>1, <2>2
  <2>4. ASSUME NEW p \in Procs PROVE eval'[p] \in Evals /\ EvalOK(eval[p])'
    <3>1. CASE eval[p].phase = "query"
      <4> DEFINE f == [eval[p] EXCEPT !.since = @ + 1]
      <4>1. eval'[p] = f /\ eval[p].since < Patience
        BY <1>13, <3>1 DEF IntelTick
      <4>2. /\ f \in Evals /\ f.since = eval[p].since + 1
            /\ f.phase = "query" /\ f.abuse = eval[p].abuse
            /\ f.trust = eval[p].trust /\ f.against = eval[p].against
        BY <1>a, <1>e, <3>1, <4>1 DEF Evals
      <4>3. eval[p].abuse > 0 => seen' <= f.since
        BY <1>0, <1>a, <1>e, <2>1, <3>1, <4>2 DEF EvalOK, Evals
      <4>4. BeforeAnswer(f)
        BY <1>e, <3>1, <4>2 DEF EvalOK, BeforeAnswer
      <4> HIDE DEF f
      <4> QED
        BY <4>1, <4>2, <4>3, <4>4 DEF EvalOK, BeforeAnswer
    <3>2. CASE eval[p].phase = "idle"
      <4>1. eval'[p] = eval[p]
        BY <1>13, <3>2 DEF IntelTick
      <4> QED
        BY <4>1, <1>e, <3>2 DEF EvalOK, NoEval
    <3> QED
      BY <1>13, <3>1, <3>2 DEF IntelTick
  <2>5. eval' \in [Procs -> Evals]
    BY <1>13, <2>4 DEF IntelTick
  <2>6. \A p \in Procs : eval'[p].phase \in {"idle", "done"}
                         => eval'[p].trust >= 0 /\ eval'[p].trust <= 10000
    <3>1. NoEval.trust = 7000
      BY DEF NoEval
    <3> SUFFICES ASSUME NEW p \in Procs
                 PROVE  eval'[p].phase \in {"idle", "done"}
                          => eval'[p].trust >= 0 /\ eval'[p].trust <= 10000
      OBVIOUS
    <3>2. EvalOK(eval[p])'
      BY <2>4
    <3>3. eval'[p].phase = "idle" => eval'[p].trust = 7000
      BY <3>1, <3>2 DEF EvalOK, NoEval
    <3>4. eval'[p].phase = "done" => eval'[p].trust \in Nat /\ eval'[p].trust <= 10000
      BY <3>2 DEF EvalOK
    <3> QED
      BY <3>3, <3>4
  <2>7. KnowledgeTypeOK' /\ WorldTypeOK'
    <3>1. WorldTypeOK'
      BY <1>w, <1>13 DEF IntelTick, WorldTypeOK
    <3>2. KnowledgeTypeOK'
      BY <2>1, <2>2, <2>5, <2>6 DEF KnowledgeTypeOK
    <3> QED
      BY <3>1, <3>2
  <2> QED
    BY <1>13, <2>1, <2>3, <2>4, <2>7 DEF IntelTick, IntelInv, IntelTypeOK
<1>14. CASE UNCHANGED intelVars
  <2>1. \A x : EvalOK(x) => EvalOK(x)'
    BY <1>14 DEF intelVars, EvalOK, BeforeAnswer, AfterAnswer, Remembered, Hosted
  <2>2. KnowledgeTypeOK' /\ WorldTypeOK'
    BY <1>14, <1>w DEF intelVars, KnowledgeTypeOK, WorldTypeOK
  <2> QED
    BY <1>14, <2>1, <2>2 DEF intelVars, IntelInv, IntelTypeOK
<1> QED
  BY <1>1, <1>3, <1>5, <1>6, <1>7, <1>8, <1>9, <1>10, <1>11, <1>12, <1>13, <1>14 DEF IntelNext

(* RefusedForCause in every reachable state: an address is refused for its   *)
(* trust only when two signs speak against it or the service has had reports *)
(* of it, not longer ago than an answer is kept and a query takes.           *)
THEOREM AddressRefusedForCause == IntelSpec => [](IntelTypeOK /\ RefusedForCause)
<1>1. ASSUME IntelInv PROVE IntelTypeOK /\ RefusedForCause
  <2>1. ASSUME NEW p \in Procs, Refused(p)
        PROVE  eval[p].against >= 2 \/ seen <= RepTTL + Patience
    <3>1. EvalOK(eval[p]) /\ eval[p].phase = "done" /\ eval[p].trust <= 0
      BY <1>1, <2>1 DEF IntelInv, Refused
    <3> QED
      BY <3>1 DEF EvalOK, Remembered
  <2> QED
    BY <1>1, <2>1 DEF IntelInv, RefusedForCause
<1> QED
  BY <1>1, IntelInvInit, IntelInvNext, PTL DEF IntelSpec
-----------------------------------------------------------------------------
(***************************************************************************)
(* All of them.                                                            *)
(***************************************************************************)
(* TypeOK in every reachable state of the signals taken together.            *)
THEOREM SignalsTypeCorrect == Spec => []TypeOK
<1> DEFINE SignalsInv == RuleInv /\ PrintInv /\ BehaviourInv /\ IntelInv
<1>1. Init => SignalsInv
  BY RuleInvInit, PrintInvInit, BehaviourInvInit, IntelInvInit DEF Init
<1>2. SignalsInv /\ [Next]_vars => SignalsInv'
  <2>1. [Next]_vars => /\ [RuleNext]_ruleVars /\ [PrintNext]_printVars
                       /\ [BehaviourNext]_behaviourVars /\ [IntelNext]_intelVars
    BY DEF Next, Inspections, Handshakes, Behaviours, Reputations, vars
  <2> QED
    BY <2>1, RuleInvNext, PrintInvNext, BehaviourInvNext, IntelInvNext
<1>3. SignalsInv => TypeOK
  BY DEF RuleInv, PrintInv, BehaviourInv, IntelInv, TypeOK
<1> QED
  BY <1>1, <1>2, <1>3, PTL DEF Spec
==============================================================================
