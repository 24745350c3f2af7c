------------------------------- MODULE MeshBans -------------------------------
(***************************************************************************)
(* Bans shared by the nodes of a mesh (cluster/gossip.go with the handlers *)
(* that main.go installs).  The ban table of a node is reduced to the time *)
(* each ban has left; what happens inside one node is BanPipeline's story. *)
(*                                                                         *)
(* The gossip library retransmits a queued message to random peers: one    *)
(* that was sent may reach a peer once, several times, late or never, so a *)
(* message in flight stays in net until it is too old to be accepted.  All *)
(* clocks show the same time; a restarted node has forgotten its bans.     *)
(***************************************************************************)
EXTENDS Integers, FiniteSets

CONSTANTS
  Nodes, IPs,
  NodeName,     \* cluster.node_name of each node, the Source of its messages
  White,        \* the addresses each node's configuration protects
  Durations,    \* ban durations
  Fresh,        \* oldest age at which a message is still obeyed (60 s)
  MaxBans, MaxUnbans, MaxRestarts  \* bounds

ASSUME MeshAssumption ==
  /\ White \in [Nodes -> SUBSET IPs]
  /\ Durations \subseteq Nat \ {0}
  /\ Fresh \in Nat
  /\ MaxBans \in Nat /\ MaxUnbans \in Nat /\ MaxRestarts \in Nat

VARIABLES
  banned,   \* time left of each ban of each node, 0 without one
  net,      \* messages in flight
  reliable, \* whether the network loses no ban: each reaches every peer while
            \* it is fresh
  left,     \* history: time left of the longest ban decided for the address
  ago,      \* history: time since an administrator last unbanned the address
  owed,     \* history: <<p, ip>> when p has yet to hear of a decision
  bans, unbans, restarts  \* counters for the bounds

counters == <<bans, unbans, restarts>>
vars     == <<banned, net, reliable, left, ago, owed, counters>>

(* BanMessage; from is the sender, age the time since SentAt, seen the peers *)
(* it has reached.  ip and dur mean nothing in "unban_all".                  *)
Messages ==
  [action : {"ban", "unban", "unban_all"}, ip : IPs, dur : Nat,
   from : Nodes, age : 0..Fresh, seen : SUBSET Nodes]

TypeOK ==
  /\ banned \in [Nodes -> [IPs -> Nat]]
  /\ net \subseteq Messages
  /\ reliable \in BOOLEAN
  /\ left \in [IPs -> Int]
  /\ ago \in [IPs -> 0..Fresh + 1]
  /\ owed \subseteq Nodes \X IPs
  /\ bans \in 0..MaxBans /\ unbans \in 0..MaxUnbans /\ restarts \in 0..MaxRestarts

Init ==
  /\ banned = [n \in Nodes |-> [ip \in IPs |-> 0]]
  /\ net = {}
  /\ reliable \in BOOLEAN
  /\ left = [ip \in IPs |-> -Fresh]
  /\ ago = [ip \in IPs |-> Fresh + 1]
  /\ owed = {}
  /\ bans = 0 /\ unbans = 0 /\ restarts = 0
-----------------------------------------------------------------------------
Message(action, n, ip, d) ==
  [action |-> action, ip |-> ip, dur |-> d, from |-> n, age |-> 0, seen |-> {}]

Broadcast(m, rest) == net' = rest \cup {m}

Longer(a, b) == IF a > b THEN a ELSE b

(* BanIPLocal: an attacker was caught on n. *)
BanIPLocal(n, ip, d) ==
  /\ bans < MaxBans
  /\ ip \notin White[n]
  /\ banned' = [banned EXCEPT ![n][ip] = d]
  /\ Broadcast(Message("ban", n, ip, d), net)
  /\ left' = [left EXCEPT ![ip] = Longer(@, d)]
  /\ owed' = owed \cup {<<p, ip>> : p \in {q \in Nodes \ {n} : ip \notin White[q]}}
  /\ bans' = bans + 1
  /\ UNCHANGED <<reliable, ago, unbans, restarts>>

(* The administrator unbans an address, or all of them, on n. *)
AdminUnban(n, ip) ==
  /\ unbans < MaxUnbans
  /\ banned' = [banned EXCEPT ![n][ip] = 0]
  /\ Broadcast(Message("unban", n, ip, 0), net)
  /\ ago' = [ago EXCEPT ![ip] = 0]
  /\ owed' = {o \in owed : o[2] # ip}
  /\ unbans' = unbans + 1
  /\ UNCHANGED <<reliable, left, bans, restarts>>

AdminUnbanAll(n, ip) ==
  /\ unbans < MaxUnbans
  /\ banned' = [banned EXCEPT ![n] = [i \in IPs |-> 0]]
  /\ Broadcast(Message("unban_all", n, ip, 0), net)
  /\ ago' = [i \in IPs |-> 0]
  /\ owed' = {}
  /\ unbans' = unbans + 1
  /\ UNCHANGED <<reliable, left, bans, restarts>>

(* What the dashboard asks for by an address, or by the word "all".  Its     *)
(* answer does not tell whether anything was banned.                         *)
handleUnban(n, ip) == AdminUnban(n, ip) \/ AdminUnbanAll(n, ip)
-----------------------------------------------------------------------------
(* Mutant of Accepts: an address already banned here is none of our business. *)
AcceptsNew(n, m) == NodeName[m.from] # NodeName[n] /\ banned[n][m.ip] = 0

(* NotifyMsg.  A message carrying the receiver's own name is dropped. *)
Accepts(n, m) == NodeName[m.from] # NodeName[n]

(* Whom a message has reached matters for bans that may not get lost.       *)
Seen(n, m) ==
  IF ~reliable \/ m.action # "ban" THEN net
  ELSE (net \ {m}) \cup {[m EXCEPT !.seen = @ \cup {n}]}

Ignore(n, m) ==
  /\ ~Accepts(n, m)
  /\ net' = Seen(n, m)
  /\ UNCHANGED <<reliable, banned, left, ago, owed, counters>>

(* Mutant of BanIPRemote: it tells the mesh, as BanIPLocal does. *)
BanIPRemoteEcho(n, m) ==
  /\ Accepts(n, m) /\ m.action = "ban"
  /\ banned' = IF m.ip \in White[n] THEN banned
               ELSE [banned EXCEPT ![n][m.ip] = m.dur]
  /\ Broadcast(Message("ban", n, m.ip, m.dur), Seen(n, m))
  /\ owed' = owed \ {<<n, m.ip>>}
  /\ UNCHANGED <<reliable, left, ago, counters>>

(* BanIPRemote: bans unless protected, and tells nobody. *)
BanIPRemote(n, m) ==
  /\ Accepts(n, m) /\ m.action = "ban"
  /\ banned' = IF m.ip \in White[n] THEN banned
               ELSE [banned EXCEPT ![n][m.ip] = m.dur]
  /\ net' = Seen(n, m)
  /\ owed' = owed \ {<<n, m.ip>>}
  /\ UNCHANGED <<reliable, left, ago, counters>>

(* The unban handlers call what the administrator's commands call, which    *)
(* broadcasts.                                                              *)
UnbanRemote(n, m) ==
  /\ Accepts(n, m) /\ m.action = "unban"
  /\ banned' = [banned EXCEPT ![n][m.ip] = 0]
  /\ Broadcast(Message("unban", n, m.ip, 0), Seen(n, m))
  /\ UNCHANGED <<reliable, left, ago, owed, counters>>

UnbanAllRemote(n, m) ==
  /\ Accepts(n, m) /\ m.action = "unban_all"
  /\ banned' = [banned EXCEPT ![n] = [i \in IPs |-> 0]]
  /\ Broadcast(Message("unban_all", n, m.ip, 0), Seen(n, m))
  /\ UNCHANGED <<reliable, left, ago, owed, counters>>

NotifyMsg(n, m) ==
  /\ n # m.from
  /\ Ignore(n, m) \/ BanIPRemote(n, m) \/ UnbanRemote(n, m) \/ UnbanAllRemote(n, m)
-----------------------------------------------------------------------------
(* A node restarts with an empty table. *)
Restart(n) ==
  /\ restarts < MaxRestarts
  /\ banned' = [banned EXCEPT ![n] = [ip \in IPs |-> 0]]
  /\ restarts' = restarts + 1
  /\ UNCHANGED <<reliable, net, left, ago, owed, bans, unbans>>

Arrived(m) == m.action = "ban" => Nodes \ {m.from} \subseteq m.seen

(* Mutant of Older: the age of a message is not looked at. *)
OlderUnchecked == {[m EXCEPT !.age = @ + 1] : m \in net}

Older == {[m EXCEPT !.age = @ + 1] : m \in {k \in net : k.age < Fresh}}

(* Time passes: bans run down, and messages too old to be obeyed are gone. *)
Tick ==
  /\ reliable => \A m \in net : m.age = Fresh => Arrived(m)
  /\ banned' = [n \in Nodes |->
       [ip \in IPs |-> IF banned[n][ip] > 0 THEN banned[n][ip] - 1 ELSE 0]]
  /\ net' = Older
  /\ left' = [ip \in IPs |-> IF left[ip] > -Fresh THEN left[ip] - 1 ELSE left[ip]]
  /\ ago' = [ip \in IPs |-> IF ago[ip] <= Fresh THEN ago[ip] + 1 ELSE ago[ip]]
  /\ UNCHANGED <<reliable, owed, counters>>

Next ==
  \/ \E n \in Nodes, ip \in IPs :
       \/ \E d \in Durations : BanIPLocal(n, ip, d)
       \/ handleUnban(n, ip)
  \/ \E n \in Nodes, m \in net : NotifyMsg(n, m)
  \/ \E n \in Nodes : Restart(n)
  \/ Tick

Spec == Init /\ [][Next]_vars

(* Time passes, and a peer processes every ban that reaches it, however many *)
(* unbans reach it as well.                                                  *)
Fairness ==
  /\ WF_vars(Tick)
  /\ \A n \in Nodes : WF_vars(\E m \in net :
       m.action = "ban" /\ n \notin m.seen /\ NotifyMsg(n, m))

FairSpec == Spec /\ Fairness
-----------------------------------------------------------------------------
(* Peers start the duration anew when a message reaches them, possibly more *)
(* than once.  Yet no ban outlives the longest decision behind it by more   *)
(* than the age at which messages are refused: bans do not echo.            *)
NoBanOutlivesDecision ==
  \A n \in Nodes, ip \in IPs : banned[n][ip] > 0 => banned[n][ip] <= left[ip] + Fresh

(* Where the network loses no ban, every peer whose name no other node has  *)
(* hears of every decision to ban an address it does not protect, unless an *)
(* administrator takes it back.                                             *)
NamedPeer(p) == \A q \in Nodes \ {p} : NodeName[q] # NodeName[p]

BanReachesNamedPeers ==
  \A p \in {q \in Nodes : NamedPeer(q)}, ip \in IPs :
    reliable /\ <<p, ip>> \in owed ~> <<p, ip>> \notin owed
=============================================================================
