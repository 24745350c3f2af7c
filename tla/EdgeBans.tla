------------------------------- MODULE EdgeBans -------------------------------
(***************************************************************************)
(* Bans at the edge (core/cloudflare.go, main.go): the queues of bans and  *)
(* unbans, the two workers that main.go starts, the hourly removal of old  *)
(* rules page by page, and a process that may be killed at any moment and  *)
(* remembers nothing.  The rules live at Cloudflare, which is modelled as  *)
(* its API is used: newest first, one rule for an address, any call may    *)
(* fail.  The bans are those of one account, or one zone.                  *)
(***************************************************************************)
EXTENDS Integers, Sequences, FiniteSets

CONSTANTS
  Addresses,    \* addresses that are banned and unbanned
  Workers,      \* RunWorker goroutines, two
  EdgeCap,      \* requests in a queue, 1000
  BanAge,       \* protection.ban.duration
  PerPage,      \* rules on a page, 100
  MaxRules,     \* bound: rules that are made
  MaxCrashes    \* bound: crashes

ASSUME EdgeAssumption ==
  /\ EdgeCap \in Nat \ {0} /\ BanAge \in Nat /\ PerPage \in Nat \ {0}
  /\ MaxRules \in Nat \ {0} /\ MaxCrashes \in Nat

VARIABLES
  edgeUp,               \* the process runs
  banQueue, unbanQueue,
  work,                 \* of a worker: Idle or its request
  rules,                \* at Cloudflare; the newest has the highest id
  made,                 \* rules made so far
  cleaner,              \* of StartAutoCleanup: what it does next
  crashes

edgeVars == <<edgeUp, banQueue, unbanQueue, work, rules, made, cleaner, crashes>>

Idle     == [op |-> "idle", ip |-> {}, ids |-> {}]
RuleIds  == 1..MaxRules
Resting  == [at |-> "rest", page |-> 1, pages |-> 1, doomed |-> {}]
Fetching(p) == [at |-> "fetch", page |-> p, pages |-> 1, doomed |-> {}]

RuleSet   == [id : RuleIds, ip : Addresses, age : 0..BanAge + 1]
Requests  == [op : {"ban", "list", "delete"}, ip : {{a} : a \in Addresses}, ids : SUBSET RuleIds]

EdgeTypeOK ==
  /\ edgeUp \in BOOLEAN
  /\ banQueue \in Seq(Addresses) /\ Len(banQueue) <= EdgeCap
  /\ unbanQueue \in Seq(Addresses) /\ Len(unbanQueue) <= EdgeCap
  /\ work \in [Workers -> Requests \cup {Idle}]
  /\ rules \subseteq RuleSet /\ IsFiniteSet(rules) /\ made \in 0..MaxRules
  /\ cleaner \in [at : {"rest", "fetch", "delete"}, page : Nat, pages : Nat,
                  doomed : SUBSET RuleIds]
  /\ crashes \in 0..MaxCrashes

EdgeInit ==
  /\ edgeUp = TRUE /\ banQueue = <<>> /\ unbanQueue = <<>>
  /\ work = [w \in Workers |-> Idle]
  /\ rules = {} /\ made = 0
  /\ cleaner = Fetching(1) /\ crashes = 0
-----------------------------------------------------------------------------
Offer(q, a) == IF Len(q) < EdgeCap THEN Append(q, a) ELSE q
Without(ids) == {r \in rules : r.id \notin ids}

(* banIP and UnbanIP offer their request; a full queue loses it. *)
OfferBan(a) ==
  /\ edgeUp /\ made < MaxRules
  /\ banQueue' = Offer(banQueue, a)
  /\ UNCHANGED <<edgeUp, unbanQueue, work, rules, made, cleaner, crashes>>

OfferUnban(a) ==
  /\ edgeUp /\ \E r \in rules : r.ip = a
  /\ unbanQueue' = Offer(unbanQueue, a)
  /\ UNCHANGED <<edgeUp, banQueue, work, rules, made, cleaner, crashes>>

(* select takes from any queue that is not empty. *)
TakeBan(w) ==
  /\ edgeUp /\ work[w] = Idle /\ banQueue # <<>>
  /\ work' = [work EXCEPT ![w] = [op |-> "ban", ip |-> {Head(banQueue)}, ids |-> {}]]
  /\ banQueue' = Tail(banQueue)
  /\ UNCHANGED <<edgeUp, unbanQueue, rules, made, cleaner, crashes>>

TakeUnban(w) ==
  /\ edgeUp /\ work[w] = Idle /\ unbanQueue # <<>>
  /\ work' = [work EXCEPT ![w] = [op |-> "list", ip |-> {Head(unbanQueue)}, ids |-> {}]]
  /\ unbanQueue' = Tail(unbanQueue)
  /\ UNCHANGED <<edgeUp, banQueue, rules, made, cleaner, crashes>>

(* A rule that exists already is left as it is, its age included. *)
ProcessBan(w) ==
  /\ work[w].op = "ban"
  /\ work' = [work EXCEPT ![w] = Idle]
  /\ \/ UNCHANGED <<rules, made>>
     \/ /\ made < MaxRules /\ \A r \in rules : r.ip \notin work[w].ip
        /\ \E a \in work[w].ip : rules' = rules \cup {[id |-> made + 1, ip |-> a, age |-> 0]}
        /\ made' = made + 1
  /\ UNCHANGED <<edgeUp, banQueue, unbanQueue, cleaner, crashes>>

(* processUnban asks for the rules of the address ... *)
ListRules(w) ==
  /\ work[w].op = "list"
  /\ \/ work' = [work EXCEPT ![w] = Idle]
     \/ work' = [work EXCEPT ![w] =
                   [op |-> "delete", ip |-> @.ip, ids |-> {r.id : r \in {s \in rules : s.ip \in @.ip}}]]
  /\ UNCHANGED <<edgeUp, banQueue, unbanQueue, rules, made, cleaner, crashes>>

(* ... and deletes them, each or not. *)
DeleteRules(w) ==
  /\ work[w].op = "delete"
  /\ \E gone \in SUBSET work[w].ids : rules' = Without(gone)
  /\ work' = [work EXCEPT ![w] = Idle]
  /\ UNCHANGED <<edgeUp, banQueue, unbanQueue, made, cleaner, crashes>>
-----------------------------------------------------------------------------
Pages == (Cardinality(rules) + PerPage - 1) \div PerPage
Place(r)  == Cardinality({s \in rules : s.id >= r.id})
OnPage(p) == {r \in rules : Place(r) > (p - 1) * PerPage /\ Place(r) <= p * PerPage}

(* cleanExpiredRules: a page is fetched, unless that fails ... *)
FetchPage ==
  LET page == OnPage(cleaner.page) IN
  /\ edgeUp /\ cleaner.at = "fetch"
  /\ cleaner' = IF page = {} THEN Resting
                ELSE [cleaner EXCEPT !.at = "delete", !.pages = Pages,
                        !.doomed = {r.id : r \in {s \in page : s.age > BanAge}}]
  /\ UNCHANGED <<edgeUp, banQueue, unbanQueue, work, rules, made, crashes>>

FetchFails ==
  /\ edgeUp /\ cleaner.at = "fetch" /\ cleaner' = Resting
  /\ UNCHANGED <<edgeUp, banQueue, unbanQueue, work, rules, made, crashes>>

(* ... the old rules on it are deleted one by one ... *)
DeleteRule(id, deleted) ==
  /\ edgeUp /\ cleaner.at = "delete" /\ id \in cleaner.doomed
  /\ rules' = IF deleted THEN Without({id}) ELSE rules
  /\ cleaner' = [cleaner EXCEPT !.doomed = @ \ {id}]
  /\ UNCHANGED <<edgeUp, banQueue, unbanQueue, work, made, crashes>>

(* ... and the next page follows, which by now starts further down. *)
NextPage ==
  /\ edgeUp /\ cleaner.at = "delete" /\ cleaner.doomed = {}
  /\ cleaner' = IF cleaner.page >= cleaner.pages THEN Resting ELSE Fetching(cleaner.page + 1)
  /\ UNCHANGED <<edgeUp, banQueue, unbanQueue, work, rules, made, crashes>>

(* The hour has passed. *)
CleanAgain ==
  /\ edgeUp /\ cleaner = Resting /\ cleaner' = Fetching(1)
  /\ UNCHANGED <<edgeUp, banQueue, unbanQueue, work, rules, made, crashes>>
-----------------------------------------------------------------------------
EdgeCrash ==
  /\ edgeUp /\ crashes < MaxCrashes /\ crashes' = crashes + 1
  /\ edgeUp' = FALSE
  /\ banQueue' = <<>> /\ unbanQueue' = <<>> /\ work' = [w \in Workers |-> Idle]
  /\ cleaner' = Resting
  /\ UNCHANGED <<rules, made>>

(* Mutant of EdgeRestart: the queues are served, the old rules are left. *)
EdgeRestartIdle ==
  /\ ~edgeUp /\ edgeUp' = TRUE
  /\ cleaner' = [Resting EXCEPT !.page = 2]
  /\ UNCHANGED <<banQueue, unbanQueue, work, rules, made, crashes>>

(* The removal of old rules starts with the process. *)
EdgeRestart ==
  /\ ~edgeUp /\ edgeUp' = TRUE
  /\ cleaner' = Fetching(1)
  /\ UNCHANGED <<banQueue, unbanQueue, work, rules, made, crashes>>

EdgeAge ==
  /\ \E r \in rules : r.age <= BanAge
  /\ rules' = {[r EXCEPT !.age = IF @ <= BanAge THEN @ + 1 ELSE @] : r \in rules}
  /\ UNCHANGED <<edgeUp, banQueue, unbanQueue, work, made, cleaner, crashes>>

EdgeNext ==
  \/ \E a \in Addresses : OfferBan(a) \/ OfferUnban(a)
  \/ \E w \in Workers : TakeBan(w) \/ TakeUnban(w) \/ ProcessBan(w)
                          \/ ListRules(w) \/ DeleteRules(w)
  \/ FetchPage \/ FetchFails \/ NextPage \/ CleanAgain
  \/ \E id \in RuleIds, deleted \in BOOLEAN : DeleteRule(id, deleted)
  \/ EdgeCrash \/ EdgeRestart \/ EdgeAge
-----------------------------------------------------------------------------
(* No ban at the edge is for ever: each rule is removed some time after it  *)
(* was made, although unbans are lost, workers race, pages shift while they *)
(* are read, calls fail and the process that made the rule is killed.       *)
EdgeBanEnds ==
  \A n \in RuleIds :
    (\E r \in rules : r.id = n) ~> ~(\E r \in rules : r.id = n)
===============================================================================
