------------------------------ MODULE MCSignals ------------------------------
(***************************************************************************)
(* The signals about a request, for TLC: rules, fingerprints, behaviour,   *)
(* intelligence.  They share no variable, so a behaviour of all is one of  *)
(* each; TLC looks at them one at a time, which makes the states a sum and *)
(* not a product.                                                          *)
(***************************************************************************)
EXTENDS RuleEngine, Fingerprints, BehaviourVerdicts, AddressIntel

VARIABLE part

Rule(l, op, words, key, target, blocks) ==
  [level |-> l, op |-> op, words |-> words, key |-> key, target |-> target,
   blocks |-> blocks, score |-> 1, enabled |-> TRUE]
MCOwasp ==
  << Rule(1, "!rx", {"get"}, NoWord, "RAW", TRUE),
     Rule(3, "rx", {"file", "select"}, NoWord, "ARGS", TRUE),
     [Rule(1, "rx", {"number"}, NoWord, "RAW", TRUE) EXCEPT !.enabled = FALSE],
     Rule(2, "rx", {"select"}, NoWord, "ARGS", TRUE) >>
MCCustom ==
  << Rule(0, "rx", {"admin"}, "admin", "RAW", TRUE),
     Rule(2, "rx", {"file"}, NoWord, "RAW", FALSE) >>
MCRequests ==
  {[static |-> FALSE, raw |-> {"get"} \cup raw, args |-> args] :
     raw \in SUBSET {"file", "admin", "number"}, args \in SUBSET {"select"}}
  \cup {[static |-> s, raw |-> {"post"}, args |-> {"select"}] : s \in BOOLEAN}

(* Chrome sends a value at random first in its lists, and what distinguishes *)
(* it from the others is the order of suites and of extensions.  All offer   *)
(* TLS 1.3 in the list of versions and 1.2 outside it.                       *)
CONSTANTS chrome, curl, other
Hello(suites, exts, grease) ==
  [version |-> 771, versions |-> grease \o <<772, 771>>, suites |-> grease \o suites,
   exts |-> grease \o exts, curves |-> grease \o <<29>>, points |-> <<0>>]
MCHellos ==
  [k \in Kinds |->
     CASE k = chrome -> {Hello(<<4865, 4866>>, <<0, 10, 43>>, <<g>>) : g \in {2570, 6682}}
       [] k = curl   -> {Hello(<<4866, 4865>>, <<0, 10, 43>>, <<>>)}
       [] OTHER      -> {Hello(<<4865, 4866>>, <<10, 0, 43>>, <<>>)}]

MCSpeeds == {[rate |-> 2, penalty |-> 30], [rate |-> 3, penalty |-> 60],
             [rate |-> 4, penalty |-> 100]}

(* What is not looked at starts in one way only. *)
Init ==
  /\ part \in {"rules", "prints", "behaviour", "intel"}
  /\ RuleInit /\ PrintInit /\ BehaviourInit /\ IntelInit
  /\ part # "rules" => engineOn /\ level = 1
  /\ part # "prints" => ~underAttack
  /\ part # "intel" =>
       /\ place = [list |-> "none", network |-> "residential", tor |-> FALSE]
       /\ settings = [country |-> "free", blockDatacenter |-> FALSE]
       /\ reported = 0

Inspections == part = "rules" /\ RuleNext
                 /\ UNCHANGED <<printVars, behaviourVars, intelVars>>
Handshakes == part = "prints" /\ PrintNext
                 /\ UNCHANGED <<ruleVars, behaviourVars, intelVars>>
Behaviours == part = "behaviour" /\ BehaviourNext
                 /\ UNCHANGED <<ruleVars, printVars, intelVars>>
Reputations == part = "intel" /\ IntelNext
                 /\ UNCHANGED <<ruleVars, printVars, behaviourVars>>

Next ==
  UNCHANGED part /\ (Inspections \/ Handshakes \/ Behaviours \/ Reputations)

vars == <<part, ruleVars, printVars, behaviourVars, intelVars>>
Spec == Init /\ [][Next]_vars

(* Every variable of the signals keeps its type. *)
TypeOK == RuleTypeOK /\ PrintTypeOK /\ BehaviourTypeOK /\ IntelTypeOK
===============================================================================
