----------------------------- MODULE AddressIntel -----------------------------
(***************************************************************************)
(* What is known of an address (intelligence/): lists, threat feeds that   *)
(* are fetched every hour, the country of a built-in table, the reputation *)
(* that an outside service reports and that is kept for a time, the kind   *)
(* of its network.  Requests of the address are evaluated at the same time *)
(* while reports come and go, queries fail or are slow, and the            *)
(* configuration is reloaded.                                              *)
(*                                                                         *)
(* One address is modelled.  Its lists are those of the start: nothing     *)
(* calls AddBlacklist and the like.                                        *)
(***************************************************************************)
EXTENDS Integers, FiniteSets

CONSTANTS
  Procs,        \* requests of the address that are evaluated at the same time
  Abuse,        \* scores the service reports for it, 0..100
  RepTTL,       \* ticks for which an answer is kept, ip_reputation.cache_ttl
  Patience,     \* ticks after which a query fails, 5 s
  MaxSeen,      \* bound: ticks since the address was reported that are told apart
  MaxChanges    \* bound: changes of the report, the feeds or the configuration

ASSUME IntelAssumption ==
  /\ (\A a \in Abuse : a \in Nat /\ a <= 100) /\ RepTTL \in Nat /\ Patience \in Nat
  /\ MaxSeen \in Nat /\ MaxSeen > RepTTL + Patience /\ MaxChanges \in Nat

VARIABLES
  place,        \* of the address: list, network, whether it is an exit of Tor
  settings,     \* blocked and allowed countries, block_datacenter
  known,        \* the feeds that ever listed the address
  reported,     \* what the service says of it now
  answer,       \* the answer that is kept: [abuse, age], age from MaxSeen on: none
  eval,         \* of a request: [phase, trust, since, abuse], and against, a
                \* history: the signs against the address so far
  seen,         \* history: ticks since the service had reports of it
  changes

intelVars == <<place, settings, known, reported, answer, eval, seen, changes>>

Lists    == {"none", "reserved"}
Networks == {"residential", "hosting", "highRisk"}
Default  == -1   \* the answer of a query that failed
Answers  == Abuse \cup {Default}
NoAnswer == [abuse |-> Default, age |-> MaxSeen]
NoEval   == [phase |-> "idle", trust |-> 7000, since |-> 0, abuse |-> Default, against |-> 0]

Evals == [phase : {"idle", "reputation", "query", "asn", "done"},
          trust : Int, since : 0..Patience, abuse : Answers, against : 0..4]

WorldTypeOK ==
  /\ place \in [list : Lists, network : Networks, tor : BOOLEAN]
  /\ settings \in [country : {"free", "blocked", "notAllowed"}, blockDatacenter : BOOLEAN]
  /\ known \in BOOLEAN /\ reported \in Abuse /\ changes \in 0..MaxChanges

KnowledgeTypeOK ==
  /\ answer \in [abuse : Answers, age : 0..MaxSeen] /\ seen \in 0..MaxSeen
  /\ eval \in [Procs -> Evals]
  /\ \A p \in Procs : eval[p].phase \in {"idle", "done"} => eval[p].trust >= 0 /\ eval[p].trust <= 10000

IntelTypeOK == WorldTypeOK /\ KnowledgeTypeOK

IntelInit ==
  /\ place \in [list : Lists, network : Networks, tor : BOOLEAN]
  /\ settings \in [country : {"free", "blocked", "notAllowed"}, blockDatacenter : BOOLEAN]
  /\ known = FALSE /\ reported \in Abuse
  /\ answer = NoAnswer
  /\ eval = [p \in Procs |-> NoEval]
  /\ seen = (IF reported > 0 THEN 0 ELSE MaxSeen)
  /\ changes = 0
-----------------------------------------------------------------------------
Go(p, phase, trust, signs) ==
  eval' = [eval EXCEPT ![p] = [phase |-> phase, trust |-> trust, since |-> 0,
                               abuse |-> Default, against |-> @.against + signs]]

(* Evaluate, up to the country: lists first, and a blocked country refuses.  *)
Evaluate(p) ==
  LET feed == IF known THEN 1 ELSE 0
      left == IF settings.country = "notAllowed" THEN 1 ELSE 0
  IN  /\ eval[p].phase = "idle"
      /\ \/ place.list = "reserved" /\ Go(p, "done", 10000, 0)
         \/ place.list = "none" /\ settings.country = "blocked" /\ Go(p, "done", 0, 3)
         \/ /\ place.list = "none" /\ settings.country # "blocked"
            /\ Go(p, "reputation", 7000 - 4000 * feed - 3000 * left, feed + left)
      /\ UNCHANGED <<place, settings, known, reported, answer, seen, changes>>

(* Mutant of Current: an answer is used until the cleanup that never comes. *)
CurrentForever(c) == c.age < MaxSeen

Current(c) == c.age < RepTTL

(* What an answer takes from the trust; the service knows exits of Tor and   *)
(* datacenters.                                                              *)
Judged(trust, abuse) ==
  IF abuse = Default THEN trust
  ELSE trust - (IF abuse > 50 THEN 5000 ELSE 0) - (IF place.tor THEN 2000 ELSE 0)
             - (IF place.network # "residential" THEN 1500 ELSE 0) - 50 * abuse

Anonymous(abuse) == IF abuse # Default /\ place.tor THEN 1 ELSE 0

(* Check uses the answer it has ... *)
UseAnswer(p) ==
  /\ eval[p].phase = "reputation" /\ Current(answer)
  /\ Go(p, "asn", Judged(eval[p].trust, answer.abuse), Anonymous(answer.abuse))
  /\ UNCHANGED <<place, settings, known, reported, answer, seen, changes>>

(* ... or asks the service. *)
SendQuery(p) ==
  /\ eval[p].phase = "reputation" /\ ~Current(answer)
  /\ eval' = [eval EXCEPT ![p].phase = "query", ![p].abuse = reported]
  /\ UNCHANGED <<place, settings, known, reported, answer, seen, changes>>

(* The answer, or the default one of a query that failed, is kept from now   *)
(* on, over what another request has stored meanwhile.                       *)
StoreAnswer(p, abuse) ==
  /\ eval[p].phase = "query"
  /\ answer' = [abuse |-> abuse, age |-> 0]
  /\ Go(p, "asn", Judged(eval[p].trust, abuse), Anonymous(abuse))
  /\ UNCHANGED <<place, settings, known, reported, seen, changes>>

Answered(p)    == StoreAnswer(p, eval[p].abuse)
QueryFailed(p) == StoreAnswer(p, Default)

(* Mutant of AnalyzeASN: the score is not limited. *)
AnalyzeASNUnlimited(p) ==
  LET hosting == place.network # "residential"
      trust == eval[p].trust
               - (IF hosting /\ settings.blockDatacenter THEN 2500 ELSE 0)
               - (IF place.network = "highRisk" THEN 2000 ELSE 0)
  IN  /\ eval[p].phase = "asn"
      /\ Go(p, "done", trust, IF hosting THEN 1 ELSE 0)
      /\ UNCHANGED <<place, settings, known, reported, answer, seen, changes>>

(* Analyze of the network, and the limits of the score. *)
AnalyzeASN(p) ==
  LET hosting == place.network # "residential"
      trust == eval[p].trust
               - (IF hosting /\ settings.blockDatacenter THEN 2500 ELSE 0)
               - (IF place.network = "highRisk" THEN 2000 ELSE 0)
  IN  /\ eval[p].phase = "asn"
      /\ Go(p, "done", IF trust < 0 THEN 0 ELSE trust, IF hosting THEN 1 ELSE 0)
      /\ UNCHANGED <<place, settings, known, reported, answer, seen, changes>>

Refused(p) == eval[p].phase = "done" /\ eval[p].trust <= 0

Finish(p) ==
  /\ eval[p].phase = "done"
  /\ eval' = [eval EXCEPT ![p] = NoEval]
  /\ UNCHANGED <<place, settings, known, reported, answer, seen, changes>>
-----------------------------------------------------------------------------
Change == changes < MaxChanges /\ changes' = changes + 1

(* UpdateAll: what a feed lists is added; nothing is taken away. *)
UpdateFeeds ==
  /\ ~known /\ Change /\ known' = TRUE
  /\ UNCHANGED <<place, settings, reported, answer, eval, seen>>

UpdateSettings(country, block) ==
  /\ Change
  /\ settings' = [country |-> country, blockDatacenter |-> block]
  /\ UNCHANGED <<place, known, reported, answer, eval, seen>>

Report(abuse) ==
  /\ abuse # reported /\ Change
  /\ reported' = abuse
  /\ seen' = IF abuse > 0 \/ reported > 0 THEN 0 ELSE seen
  /\ UNCHANGED <<place, settings, known, answer, eval>>

IntelTick ==
  /\ \A p \in Procs : eval[p].phase = "query" => eval[p].since < Patience
  /\ \A p \in Procs : eval[p].phase \in {"idle", "query"}
  /\ eval' = [p \in Procs |-> IF eval[p].phase = "query"
                              THEN [eval[p] EXCEPT !.since = @ + 1] ELSE eval[p]]
  /\ answer' = [answer EXCEPT !.age = IF @ < MaxSeen THEN @ + 1 ELSE @]
  /\ seen' = IF reported > 0 THEN 0 ELSE IF seen < MaxSeen THEN seen + 1 ELSE seen
  /\ UNCHANGED <<place, settings, known, reported, changes>>

IntelNext ==
  \/ \E p \in Procs : Evaluate(p) \/ UseAnswer(p) \/ SendQuery(p) \/ Answered(p)
                        \/ QueryFailed(p) \/ AnalyzeASN(p) \/ Finish(p)
  \/ UpdateFeeds \/ IntelTick
  \/ \E abuse \in Abuse : Report(abuse)
  \/ \E country \in {"free", "blocked", "notAllowed"}, block \in BOOLEAN :
       UpdateSettings(country, block)

IntelSpec == IntelInit /\ [][IntelNext]_intelVars
-----------------------------------------------------------------------------
(* Nobody is refused for one sign (feed, country, Tor, network) unless the   *)
(* country is blocked or the service has reports of the address: now, or not *)
(* longer ago than an answer is kept and a query takes.  A withdrawn report  *)
(* is forgotten, however many requests ask at the same time and store old    *)
(* answers over new ones.                                                    *)
RefusedForCause ==
  \A p \in Procs : Refused(p) => eval[p].against >= 2 \/ seen <= RepTTL + Patience
===============================================================================
