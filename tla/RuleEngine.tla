----------------------------- MODULE RuleEngine -----------------------------
(***************************************************************************)
(* The WAF rules (rules/engine.go, custom.go, owasp.go): what is loaded at *)
(* the start, what a hot reload (core/server.go) changes of it, and the    *)
(* inspection of a request, rule by rule, while reloads go on.             *)
(*                                                                         *)
(* Text is the set of words it contains; a pattern is the set of words of  *)
(* which it finds any.                                                     *)
(***************************************************************************)
EXTENDS Integers, Sequences, FiniteSets

CONSTANTS
  Words,        \* what patterns, keywords and texts are told apart by
  Owasp,        \* the rules of owasp.go, a sequence
  Custom,       \* the entries of the custom rules file, a sequence
  Requests,     \* requests, with the words of their raw text and arguments
  NoWord,       \* a rule without a required keyword
  Levels,       \* paranoia levels of the configurations
  MaxReloads    \* bound: hot reloads

(* A rule: its level, what it looks for and where, whether it blocks, what  *)
(* it scores, whether it is enabled.                                        *)
Rules == [level : 0..4, op : {"rx", "!rx"}, words : SUBSET Words,
          key : Words \cup {NoWord}, target : {"ARGS", "RAW"}, blocks : BOOLEAN,
          score : Int, enabled : BOOLEAN]

ASSUME RulesAssumption ==
  /\ Requests \subseteq [static : BOOLEAN, raw : SUBSET Words, args : SUBSET Words]
  /\ Levels \subseteq 1..4 /\ MaxReloads \in Nat
  /\ Owasp \in Seq(Rules) /\ Custom \in Seq(Rules)
  /\ \A i \in DOMAIN Owasp : Owasp[i].level # 0 /\ Owasp[i].key = NoWord

VARIABLES
  rules,       \* e.rules
  engineOn,    \* WAF.Enabled of the configuration the engine was made with
  level,       \* its ParanoiaLevel
  shieldOn,    \* WAF.Enabled of the shield's configuration
  pending,     \* of ReloadConfig: the level it has yet to give to the engine
  reloads,
  looking,     \* the request under inspection, or NoWord
  next,        \* the rule it comes to
  blocked,     \* the result so far
  score,
  low, high    \* history: the levels of the engine during the inspection

loaded     == <<rules, engineOn>>
inspection == <<looking, next, blocked, score, low, high>>
ruleVars   == <<loaded, level, shieldOn, pending, reloads, inspection>>

RuleTypeOK ==
  /\ engineOn \in BOOLEAN /\ shieldOn \in BOOLEAN
  /\ level \in 1..4 /\ pending \in Levels \cup {0}
  /\ reloads \in 0..MaxReloads
  /\ looking \in Requests \cup {NoWord}
  /\ next \in 1..Len(rules) + 1 /\ blocked \in BOOLEAN /\ score \in Int
  /\ low \in 1..level /\ high \in level..4
-----------------------------------------------------------------------------
(* loadOWASPRules: the rules above the level of the start are not kept.     *)
loadOWASPRules(l) ==
  LET kept[i \in 0..Len(Owasp)] ==
        IF i = 0 THEN <<>>
        ELSE IF Owasp[i].level <= l THEN Append(kept[i - 1], Owasp[i]) ELSE kept[i - 1]
  IN  kept[Len(Owasp)]

(* LoadCustomRules: an entry without a level is of the first.               *)
LoadCustomRules ==
  [i \in DOMAIN Custom |-> IF Custom[i].level = 0 THEN [Custom[i] EXCEPT !.level = 1]
                                                  ELSE Custom[i]]

RuleInit ==
  /\ engineOn \in BOOLEAN /\ shieldOn = engineOn
  /\ level \in Levels
  /\ rules = (IF engineOn THEN loadOWASPRules(level) ELSE <<>>) \o LoadCustomRules
  /\ pending = 0 /\ reloads = 0
  /\ looking = NoWord /\ next = 1 /\ blocked = FALSE /\ score = 0
  /\ low = level /\ high = level

(* ReloadConfig exchanges the shield's configuration ... *)
ReloadShield(on, l) ==
  /\ pending = 0 /\ reloads < MaxReloads /\ reloads' = reloads + 1
  /\ shieldOn' = on /\ pending' = l
  /\ UNCHANGED <<loaded, level, inspection>>

(* ... then the level of the engine, which keeps its own configuration.     *)
SetParanoiaLevel ==
  /\ pending # 0
  /\ level' = pending /\ pending' = 0
  /\ low' = IF pending < low THEN pending ELSE low
  /\ high' = IF pending > high THEN pending ELSE high
  /\ UNCHANGED <<loaded, shieldOn, reloads, looking, next, blocked, score>>
-----------------------------------------------------------------------------
(* The text a rule looks at: arguments are decoded, the rest is as received. *)
Text(r, q) == IF r.target = "ARGS" THEN q.args ELSE q.raw

matchOperator(r, text) ==
  IF r.op = "!rx" THEN r.words \cap text = {}
  ELSE r.words \cap text # {} /\ (r.key = NoWord \/ r.key \in text)

(* The filter in front of the rules looks at the raw text only. *)
Prefiltered(r, q) == r.key # NoWord /\ r.key \notin q.raw

Matches(r, q) == ~Prefiltered(r, q) /\ matchOperator(r, Text(r, q))

(* The shield asks the engine while its configuration says so. *)
Inspect(q) ==
  /\ looking = NoWord /\ shieldOn
  /\ engineOn /\ ~q.static
  /\ looking' = q /\ next' = 1 /\ blocked' = FALSE /\ score' = 0
  /\ low' = level /\ high' = level
  /\ UNCHANGED <<loaded, level, shieldOn, pending, reloads>>

Applies(r) == r.enabled /\ r.level <= level

(* Mutant of InspectRule: the first rule above the level ends the loop. *)
InspectRuleOrStop ==
  /\ looking # NoWord /\ next <= Len(rules)
  /\ LET r   == rules[next]
         hit == Applies(r) /\ Matches(r, looking)
     IN  /\ blocked' = (blocked \/ (hit /\ r.blocks))
         /\ score' = score + IF hit THEN r.score ELSE 0
         /\ next' = IF r.level > level THEN Len(rules) + 1 ELSE next + 1
  /\ UNCHANGED <<loaded, level, shieldOn, pending, reloads, looking, low, high>>

(* One turn of the loop; the level is read again for each rule. *)
InspectRule ==
  /\ looking # NoWord /\ next <= Len(rules)
  /\ LET hit == Applies(rules[next]) /\ Matches(rules[next], looking)
     IN  /\ blocked' = (blocked \/ (hit /\ rules[next].blocks))
         /\ score' = score + IF hit THEN rules[next].score ELSE 0
  /\ next' = next + 1
  /\ UNCHANGED <<loaded, level, shieldOn, pending, reloads, looking, low, high>>

Inspected == looking # NoWord /\ next > Len(rules)

EndInspect ==
  /\ Inspected
  /\ looking' = NoWord /\ next' = 1 /\ blocked' = FALSE /\ score' = 0
  /\ low' = level /\ high' = level
  /\ UNCHANGED <<loaded, level, shieldOn, pending, reloads>>

RuleNext ==
  \/ \E on \in BOOLEAN, l \in Levels : ReloadShield(on, l)
  \/ SetParanoiaLevel
  \/ \E q \in Requests : Inspect(q)
  \/ InspectRule \/ EndInspect
  \/ (reloads = MaxReloads /\ looking = NoWord /\ pending = 0 /\ UNCHANGED ruleVars)

RuleSpec == RuleInit /\ [][RuleNext]_ruleVars
-----------------------------------------------------------------------------
Blocking(l) == {i \in DOMAIN rules : /\ rules[i].enabled /\ rules[i].blocks
                                     /\ rules[i].level <= l
                                     /\ Matches(rules[i], looking)}

(* An inspection during which the level is changed, once or again, is judged *)
(* within the levels it has seen: whatever blocks at the lowest of them      *)
(* blocks, and nothing blocks that does not at the highest.                  *)
JudgedWithinLevels ==
  Inspected => /\ Blocking(low) # {} => blocked
               /\ blocked => Blocking(high) # {}
===============================================================================
