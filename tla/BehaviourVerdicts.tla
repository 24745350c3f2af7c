-------------------------- MODULE BehaviourVerdicts --------------------------
(***************************************************************************)
(* What an address does over time: its profile and the score computed from *)
(* it (detection/behavior.go), the classification of its requests, which   *)
(* is kept for the address for a while (detection/classifier.go), and what *)
(* layers 6 and 7 of the pipeline (core/pipeline.go) make of them.         *)
(*                                                                         *)
(* One address is modelled; several clients may send from it.  Regularity, *)
(* entropy and rate are those of floating-point sums; a request meets any  *)
(* of the penalties they may come to.  A request works on a profile under  *)
(* its lock; when the cleanup drops the profile under it, the request came *)
(* before the cleanup.                                                     *)
(***************************************************************************)
EXTENDS Integers, FiniteSets

CONSTANTS
  Enough, Several, Many, Lots,   \* requests: 5, 10, 20, 50
  Rates,        \* requests a second, with their penalties: 10, 20, 50, 100
  UniqueRatio,  \* requests for each URL that make them few, 20
  MaxTotal,     \* bound: requests counted in a profile
  MaxURLs,      \* bound: URLs told apart
  CacheTTL,     \* ticks for which a classification is kept, 30 s
  MaxAge        \* bound: age of a classification that is told apart

(* More than 60 of 100 is the penalty of rates that take Lots of requests.  *)
ASSUME BehaviourAssumption ==
  /\ Enough \in Nat /\ Several \in Nat /\ Many \in Nat /\ Lots \in Nat
  /\ \A r \in Rates : /\ r.rate \in Nat /\ r.penalty \in Nat /\ r.penalty <= 100
                      /\ r.penalty > 60 => r.rate >= Lots
  /\ UniqueRatio \in Nat /\ MaxTotal \in Nat /\ MaxURLs \in Nat \ {0}
  /\ CacheTTL \in Nat \ {0} /\ MaxAge \in Nat /\ MaxAge > CacheTTL

VARIABLES
  profile,     \* of the address
  class,       \* its classification: [threat, bot, age], age from MaxAge on: none
  verdict,     \* of the request just judged: behaviour, critical, challenged,
               \* else passed
  toolAge      \* history: ticks since a client of the address named a tool

behaviourVars == <<profile, class, verdict, toolAge>>

NoProfile == [total |-> 0, urls |-> 0, methods |-> {}, agents |-> 0,
              static |-> FALSE, api |-> FALSE, dynamic |-> FALSE]
Threats == {"none", "medium", "high", "critical"}
NoClass == [threat |-> "none", bot |-> FALSE, age |-> MaxAge]

BehaviourTypeOK ==
  /\ profile \in [total : 0..MaxTotal, urls : 0..MaxURLs, methods : SUBSET {"GET", "POST"},
                  agents : 0..4, static : BOOLEAN, api : BOOLEAN, dynamic : BOOLEAN]
  /\ class \in [threat : Threats, bot : BOOLEAN, age : 0..MaxAge]
  /\ verdict \in {"passed", "behaviour", "critical", "challenged"}
  /\ toolAge \in 0..MaxAge

BehaviourInit ==
  /\ profile = NoProfile /\ class = NoClass
  /\ verdict = "passed" /\ toolAge = MaxAge
-----------------------------------------------------------------------------
UpTo(n, max) == IF n < max THEN n + 1 ELSE n

(* Analyze counts the request in the profile. *)
Counted(p, kind, method, newURL, newAgent) ==
  [total   |-> UpTo(p.total, MaxTotal),
   urls    |-> IF newURL \/ p.urls = 0 THEN UpTo(p.urls, MaxURLs) ELSE p.urls,
   methods |-> p.methods \cup {method},
   agents  |-> IF newAgent \/ p.agents = 0 THEN UpTo(p.agents, 4) ELSE p.agents,
   static  |-> p.static \/ kind = "static",
   api     |-> p.api \/ kind = "api",
   dynamic |-> p.dynamic \/ kind # "static"]

Analyzed(p) == {Counted(p, kind, method, newURL, newAgent) :
                  kind \in {"static", "api", "page"}, method \in {"GET", "POST"},
                  newURL \in BOOLEAN, newAgent \in BOOLEAN}

Timings(p)   == IF p.total <= Several THEN {0} ELSE {0, 20, 50, 80, 100}
Entropies(p) == IF p.urls = 1 THEN {80} ELSE {0, 30, 60, 90}
Speeds(p)    == {0} \cup {r.penalty : r \in {s \in Rates : p.total > s.rate}}
Clamped(n)   == IF n > 100 THEN 100 ELSE n

(* Mutant of Diversity: the penalties of the parts are added up. *)
DiversitySum(p) ==
  (IF Cardinality(p.methods) = 1 THEN 20 ELSE 0)
  + (IF ~p.static /\ p.total > Many THEN 40 ELSE 0)
  + (IF p.dynamic /\ ~p.static /\ p.api THEN 30 ELSE 0)
  + (IF p.total > Lots /\ p.urls * UniqueRatio < p.total THEN 40 ELSE 0)

Diversity(p) == Clamped(
  (IF Cardinality(p.methods) = 1 THEN 20 ELSE 0)
  + (IF ~p.static /\ p.total > Many THEN 40 ELSE 0)
  + (IF p.dynamic /\ ~p.static /\ p.api THEN 30 ELSE 0)
  + (IF p.total > Lots /\ p.urls * UniqueRatio < p.total THEN 40 ELSE 0))

Agents(p) == IF p.agents > 3 THEN 60 ELSE 0

(* Scores are told apart by what the pipeline and the classifier ask of them. *)
Told(s) == IF s < 2000 THEN 0 ELSE IF s < 3000 THEN 2000
           ELSE IF s < 4000 THEN 3000 ELSE 4000

(* computeVerdict, in hundredths.  The pipeline analyses a request before it  *)
(* is answered and reports 200, so errors never count.                        *)
Scores(p) ==
  IF p.total < Enough THEN {Told(7000)}
  ELSE {Told(10000 - 25 * t - 20 * e - 20 * Diversity(p) - 15 * s - 10 * Agents(p)) :
          t \in Timings(p), e \in Entropies(p), s \in Speeds(p)}
-----------------------------------------------------------------------------
Higher(t, u) == IF t = "critical" \/ u = "critical" THEN "critical"
                ELSE IF "high" \in {t, u} THEN "high"
                ELSE IF "medium" \in {t, u} THEN "medium" ELSE "none"

(* What the signatures make of a request: how many match, the gravest of     *)
(* them, and what score and fingerprint add.                                 *)
Matched(signs, tool, print, s) ==
  signs + (IF tool THEN 1 ELSE 0) + print
  + (IF s < 4000 THEN 2 ELSE 0) + (IF s < 3000 THEN 2 ELSE 0)

Classified(signs, gravest, tool, print, s) ==
  LET n == Matched(signs, tool, print, s)
  IN  [bot |-> n >= 2, age |-> 0,
       threat |-> IF n >= 3 THEN Higher(gravest, IF tool THEN "critical" ELSE "none")
                            ELSE "none"]

Kept(c) == c.age < CacheTTL

(* Layer 7, of a request with this score: the classification that is kept,    *)
(* or a new one; signatures match that name no tool, gravely or not.         *)
Classes(s, tool) ==
  IF Kept(class) THEN {class}
  ELSE {Classified(IF g = "none" THEN 0 ELSE 1, g, tool, print, s) :
          g \in {"none", "medium", "high"}, print \in {0, 2}}

(* Layers 6 and 7, for a request of the address: its profile, its score, its *)
(* classification and what follows.                                          *)
Request ==
  \E p \in Analyzed(profile) :
    \E s \in Scores(p), tool \in BOOLEAN :
      /\ profile' = p
      /\ toolAge' = IF tool THEN 0 ELSE toolAge
      /\ \/ s < 2000 /\ verdict' = "behaviour" /\ UNCHANGED class
         \/ /\ s >= 2000 /\ class' \in Classes(s, tool)
            /\ verdict' = IF class'.bot /\ class'.threat = "critical" THEN "critical"
                          ELSE IF class'.bot /\ class'.threat = "high" THEN "challenged"
                          ELSE "passed"

(* BehaviorAnalyzer.Cleanup, of an address that has been idle. *)
DropProfile ==
  /\ profile # NoProfile
  /\ profile' = NoProfile /\ verdict' = "passed"
  /\ UNCHANGED <<class, toolAge>>

(* CleanupCache drops what is no longer used. *)
DropClass ==
  /\ class # NoClass /\ ~Kept(class)
  /\ class' = NoClass /\ verdict' = "passed"
  /\ UNCHANGED <<profile, toolAge>>

BehaviourTick ==
  /\ class' = [class EXCEPT !.age = UpTo(@, MaxAge)]
  /\ toolAge' = UpTo(toolAge, MaxAge) /\ verdict' = "passed"
  /\ UNCHANGED profile

BehaviourNext == Request \/ DropProfile \/ DropClass \/ BehaviourTick

BehaviourSpec == BehaviourInit /\ [][BehaviourNext]_behaviourVars
-----------------------------------------------------------------------------
(* Nobody is banned for one sign.  An address is banned for its behaviour   *)
(* only when all signs come together, several user agents among them (all   *)
(* penalties but that of the user agents leave it 22 of 100), and as a tool *)
(* only when a client of it has named itself one not long ago, in this      *)
(* request or in the one whose classification is kept.                      *)
BannedForCause ==
  /\ verdict = "behaviour" =>
       /\ profile.agents > 3 /\ profile.total > Lots
       /\ ~profile.static
       /\ profile.urls * UniqueRatio < profile.total \/ profile.api
  /\ verdict = "critical" => toolAge < CacheTTL
===============================================================================
