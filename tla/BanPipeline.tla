----------------------------- MODULE BanPipeline -----------------------------
(***************************************************************************)
(* The ban table of one node (core/pipeline.go) with the XDP kernel map    *)
(* and the BannedIPs gauge that are kept beside it.  Request goroutines,   *)
(* the admin API and the mesh callbacks all enter the same functions, and  *)
(* only the single map operations inside them are atomic: an operation is  *)
(* a sequence of steps here, one per access to shared state.               *)
(*                                                                         *)
(* A ban's expiry is kept as the time it has left, so the table needs no   *)
(* absolute clock: 0 means that the expiry lies in the past.  The IPs are  *)
(* IPv4 addresses, the only ones the kernel map can hold, and XDP is       *)
(* enabled; the iptables queue that replaces it otherwise is not modelled. *)
(***************************************************************************)
EXTENDS Integers, FiniteSets

CONSTANTS
  IPs,          \* client addresses
  Threads,      \* goroutines serving requests, the admin API and the mesh
  Cleaner,      \* the cleanupWorker goroutine
  NoIP,
  Ops,          \* the entry points the environment uses
  Durations,    \* ban durations
  MaxBans,      \* bound: bans begun
  MaxReloads,   \* bound: configuration reloads
  MaxActive     \* bound: operations in flight at once (1: they never overlap)

Removers == {"cleanup", "unban", "unbanall"}
BanOps  == {"local", "remote", "limit"}
OpKinds == BanOps \cup {"check", "list"} \cup Removers
Procs   == Threads \cup {Cleaner}

ASSUME BanAssumption ==
  /\ Cleaner \notin Threads
  /\ NoIP \notin IPs
  /\ Ops \subseteq OpKinds
  /\ Durations \subseteq Nat \ {0}
  /\ MaxBans \in Nat /\ MaxReloads \in Nat /\ MaxActive \in Nat

Absent == -1

VARIABLES
  trustedProxies, whitelistIPs,  \* the configuration p.cfg points to
  reloads,
  ipTrust,     \* IPState.IsTrustedProxy: "none" while the IP has no IPState
  banned,      \* time left of the entry, or Absent
  xdp,         \* keys of the kernel blacklist
  announced,   \* IPs whose ban was sent to the mesh or to Cloudflare
  bannedIPs,   \* stats.BannedIPs
  pc, op, arg, dur, todo,  \* per goroutine: step, operation and its locals
  prot,        \* history: the configuration has protected arg ever since the
               \* operation began
  begun,       \* number of bans begun
  used         \* history: the Removers begun so far

config == <<trustedProxies, whitelistIPs, reloads>>
table  == <<banned, xdp, announced, bannedIPs>>
locals == <<op, arg, dur, todo, prot>>
history == <<begun, used>>
vars   == <<config, ipTrust, table, pc, locals, history>>

Steps == {"idle", "guard", "enter", "put", "count", "renew", "kernel",
          "drop", "list", "unkernel", "clear", "unkernelall", "reset",
          "purge", "uncount", "purgekernel"}

TypeOK ==
  /\ trustedProxies \subseteq IPs /\ whitelistIPs \subseteq IPs
  /\ reloads \in 0..MaxReloads
  /\ ipTrust \in [IPs -> {"none", "yes", "no"}]
  /\ banned \in [IPs -> {Absent} \cup Nat]
  /\ xdp \subseteq IPs /\ announced \subseteq IPs
  /\ bannedIPs \in Int
  /\ pc \in [Procs -> Steps]
  /\ op \in [Procs -> OpKinds]
  /\ arg \in [Procs -> IPs \cup {NoIP}]
  /\ dur \in [Procs -> Nat]
  /\ todo \in [Procs -> SUBSET IPs]
  /\ prot \in [Procs -> BOOLEAN]
  /\ begun \in 0..MaxBans /\ used \subseteq Removers

Init ==
  /\ trustedProxies \in SUBSET IPs /\ whitelistIPs \in SUBSET IPs /\ reloads = 0
  /\ ipTrust = [ip \in IPs |-> "none"]
  /\ banned = [ip \in IPs |-> Absent]
  /\ xdp = {} /\ announced = {} /\ bannedIPs = 0
  /\ pc = [t \in Procs |-> "idle"]
  /\ op = [t \in Procs |-> "check"]
  /\ arg = [t \in Procs |-> NoIP]
  /\ dur = [t \in Procs |-> 0]
  /\ todo = [t \in Procs |-> {}]
  /\ prot = [t \in Procs |-> FALSE]
  /\ begun = 0 /\ used = {}
-----------------------------------------------------------------------------
(* Trust.  getState creates the IPState with the configuration of that     *)
(* moment; isTrustedProxy answers from the state, however old it is.       *)

StateTrust(ip) ==
  IF ipTrust[ip] # "none" THEN ipTrust[ip]
  ELSE IF ip \in trustedProxies THEN "yes" ELSE "no"

TouchState(ip) == ipTrust' = [ipTrust EXCEPT ![ip] = StateTrust(ip)]

isTrustedProxy(ip)      == StateTrust(ip) = "yes"
checkIsTrustedProxy(ip) == ip \in trustedProxies
isWhitelisted(ip)       == ip \in whitelistIPs
Protected(ip)           == ip \in trustedProxies \cup whitelistIPs

RefusedWhite(ip)   == isWhitelisted(ip)                           \* mutant of RefusedByBanIP

RefusedLocal(ip)  == isTrustedProxy(ip) \/ checkIsTrustedProxy(ip) \/ isWhitelisted(ip)
RefusedRemote(ip) == isTrustedProxy(ip) \/ isWhitelisted(ip)
RefusedByBanIP(ip) == isTrustedProxy(ip) \/ isWhitelisted(ip)

(* ReloadConfig swaps the configuration; no IPState is refreshed. *)
Reload(T, W) ==
  /\ reloads < MaxReloads
  /\ reloads' = reloads + 1
  /\ trustedProxies' = T /\ whitelistIPs' = W
  /\ prot' = [t \in Procs |-> prot[t] /\ arg[t] \in T \cup W]
  /\ UNCHANGED <<ipTrust, table, pc, op, arg, dur, todo, history>>
-----------------------------------------------------------------------------
Active == {t \in Procs : pc[t] # "idle"}

Begin(t, kind, ip, step) ==
  /\ pc[t] = "idle"
  /\ kind \in Ops
  /\ Cardinality(Active) < MaxActive
  /\ pc'  = [pc EXCEPT ![t] = step]
  /\ op'  = [op EXCEPT ![t] = kind]
  /\ arg' = [arg EXCEPT ![t] = ip]
  /\ used' = used \cup ({kind} \cap Removers)

(* Returning forgets the locals. *)
Finish(t) ==
  /\ pc'   = [pc EXCEPT ![t] = "idle"]
  /\ op'   = [op EXCEPT ![t] = "check"]
  /\ arg'  = [arg EXCEPT ![t] = NoIP]
  /\ dur'  = [dur EXCEPT ![t] = 0]
  /\ todo' = [todo EXCEPT ![t] = {}]
  /\ prot' = [prot EXCEPT ![t] = FALSE]

Goto(t, step) == pc' = [pc EXCEPT ![t] = step] /\ UNCHANGED locals

(* BanIPLocal (verdicts of the pipeline), BanIPRemote (mesh) and the direct *)
(* call of banIP by the connection limit of layer 1.                        *)
BeginBan(t, kind, ip, d) ==
  /\ kind \in BanOps
  /\ begun < MaxBans
  /\ begun' = begun + 1
  /\ Begin(t, kind, ip, IF kind = "limit" THEN "enter" ELSE "guard")
  /\ dur'  = [dur EXCEPT ![t] = d]
  /\ prot' = [prot EXCEPT ![t] = Protected(ip)]
  /\ UNCHANGED <<config, ipTrust, table, todo>>

Guard(t) ==
  /\ pc[t] = "guard"
  /\ TouchState(arg[t])
  /\ \/ /\ \/ op[t] = "local"  /\ RefusedLocal(arg[t])
           \/ op[t] = "remote" /\ RefusedRemote(arg[t])
        /\ Finish(t)
     \/ /\ \/ op[t] = "local"  /\ ~RefusedLocal(arg[t])
           \/ op[t] = "remote" /\ ~RefusedRemote(arg[t])
        /\ Goto(t, "enter")
  /\ UNCHANGED <<config, table, history>>

(* banIP repeats the guard; BanIPLocal tells the mesh even if it refuses. *)
Enter(t) ==
  /\ pc[t] = "enter"
  /\ TouchState(arg[t])
  /\ \/ /\ RefusedByBanIP(arg[t])
        /\ announced' = announced \cup (IF op[t] = "local" THEN {arg[t]} ELSE {})
        /\ Finish(t)
     \/ /\ ~RefusedByBanIP(arg[t])
        /\ Goto(t, "put")
        /\ UNCHANGED announced
  /\ UNCHANGED <<config, banned, xdp, bannedIPs, history>>

(* banned.LoadOrStore *)
Put(t) ==
  /\ pc[t] = "put"
  /\ \/ /\ banned[arg[t]] = Absent
        /\ banned' = [banned EXCEPT ![arg[t]] = dur[t]]
        /\ Goto(t, "count")
     \/ /\ banned[arg[t]] # Absent
        /\ Goto(t, "renew")
        /\ UNCHANGED banned
  /\ UNCHANGED <<config, ipTrust, xdp, announced, bannedIPs, history>>

Count(t) ==
  /\ pc[t] = "count"
  /\ bannedIPs' = bannedIPs + 1
  /\ Goto(t, "kernel")
  /\ UNCHANGED <<config, ipTrust, banned, xdp, announced, history>>

Renew(t) ==
  /\ pc[t] = "renew"
  /\ banned' = [banned EXCEPT ![arg[t]] = dur[t]]
  /\ Goto(t, "kernel")
  /\ UNCHANGED <<config, ipTrust, xdp, announced, bannedIPs, history>>

(* XDPManager: only what is not in the map is inserted, so that an entry      *)
(* keeps its counter; removing what is not there is no error.                *)
KernelBan(ip)   == xdp' = xdp \cup {ip}
KernelUnban(ip) == xdp' = xdp \ {ip}

(* Mutant of KernelInsert: bans that peers announce stay in user space. *)
KernelInsertLocal(t) ==
  /\ pc[t] = "kernel"
  /\ TouchState(arg[t])
  /\ xdp' = IF op[t] = "remote" THEN xdp ELSE xdp \cup {arg[t]}
  /\ announced' = announced \cup {arg[t]}
  /\ Finish(t)
  /\ UNCHANGED <<config, banned, bannedIPs, history>>

(* xdpMgr.BanIP, then the non-blocking sends to Cloudflare and the mesh. *)
KernelInsert(t) ==
  /\ pc[t] = "kernel"
  /\ TouchState(arg[t])
  /\ IF isTrustedProxy(arg[t]) THEN UNCHANGED xdp ELSE KernelBan(arg[t])
  /\ announced' = announced \cup {arg[t]}
  /\ Finish(t)
  /\ UNCHANGED <<config, banned, bannedIPs, history>>
-----------------------------------------------------------------------------
UnexpiredKeys == {ip \in IPs : banned[ip] > 0}       \* mutant of ExpiredKeys

ExpiredKeys == {ip \in IPs : banned[ip] = 0}
Keys        == {ip \in IPs : banned[ip] # Absent}

Delete(ip) == banned' = [banned EXCEPT ![ip] = Absent]

(* isBanned: the expiry it judges was loaded before it takes the lock again *)
(* to delete.  Nothing else of an expired ban is undone.                    *)
IsBanned(t, ip) ==
  /\ TouchState(ip)
  /\ \/ /\ ~isTrustedProxy(ip) /\ ~isWhitelisted(ip)
        /\ banned[ip] = 0
        /\ Begin(t, "check", ip, "drop")
        /\ UNCHANGED <<dur, todo, prot>>
     \/ /\ isTrustedProxy(ip) \/ isWhitelisted(ip) \/ banned[ip] # 0
        /\ pc[t] = "idle" /\ "check" \in Ops
        /\ UNCHANGED <<pc, locals, used>>
  /\ UNCHANGED <<config, table, begun>>

Drop(t) ==
  /\ pc[t] = "drop"
  /\ Delete(arg[t])
  /\ Finish(t)
  /\ UNCHANGED <<config, ipTrust, xdp, announced, bannedIPs, history>>

(* GetBannedIPsList deletes what its snapshot holds of expired entries. *)
BeginList(t) ==
  /\ ExpiredKeys # {}
  /\ Begin(t, "list", NoIP, "list")
  /\ todo' = [todo EXCEPT ![t] = ExpiredKeys]
  /\ UNCHANGED <<config, ipTrust, table, dur, prot, begun>>

ListDrop(t, ip) ==
  /\ pc[t] = "list"
  /\ ip \in todo[t]
  /\ Delete(ip)
  /\ IF todo[t] = {ip}
     THEN Finish(t)
     ELSE /\ todo' = [todo EXCEPT ![t] = @ \ {ip}]
          /\ UNCHANGED <<pc, op, arg, dur, prot>>
  /\ UNCHANGED <<config, ipTrust, xdp, announced, bannedIPs, history>>

(* Mutant of BeginUnban: the gauge goes down, entry or not. *)
BeginUnbanCounted(t, ip) ==
  /\ Begin(t, "unban", ip, "unkernel")
  /\ Delete(ip)
  /\ bannedIPs' = bannedIPs - 1
  /\ UNCHANGED <<config, ipTrust, xdp, announced, dur, todo, prot, begun>>

(* UnbanIP *)
BeginUnban(t, ip) ==
  /\ Begin(t, "unban", ip, "unkernel")
  /\ Delete(ip)
  /\ UNCHANGED <<config, ipTrust, xdp, announced, bannedIPs, dur, todo, prot, begun>>

UnbanKernel(t) ==
  /\ pc[t] = "unkernel"
  /\ KernelUnban(arg[t])
  /\ Finish(t)
  /\ UNCHANGED <<config, ipTrust, banned, announced, bannedIPs, history>>

(* UnbanAllIPs: snapshot, clear, unban the snapshot's keys, reset the gauge. *)
BeginUnbanAll(t) ==
  /\ Begin(t, "unbanall", NoIP, "clear")
  /\ todo' = [todo EXCEPT ![t] = Keys]
  /\ UNCHANGED <<config, ipTrust, table, dur, prot, begun>>

(* Mutant of Clear: the snapshot's shards go, not their entries. *)
ClearShards(t) ==
  /\ pc[t] = "clear"
  /\ banned' = [ip \in IPs \ todo[t] |-> Absent]
  /\ Goto(t, IF todo[t] = {} THEN "reset" ELSE "unkernelall")
  /\ UNCHANGED <<config, ipTrust, xdp, announced, bannedIPs, history>>

Clear(t) ==
  /\ pc[t] = "clear"
  /\ banned' = [ip \in IPs |-> Absent]
  /\ Goto(t, IF todo[t] = {} THEN "reset" ELSE "unkernelall")
  /\ UNCHANGED <<config, ipTrust, xdp, announced, bannedIPs, history>>

UnbanAllKernel(t, ip) ==
  /\ pc[t] = "unkernelall"
  /\ ip \in todo[t]
  /\ KernelUnban(ip)
  /\ todo' = [todo EXCEPT ![t] = @ \ {ip}]
  /\ pc' = [pc EXCEPT ![t] = IF todo[t] = {ip} THEN "reset" ELSE "unkernelall"]
  /\ UNCHANGED <<config, ipTrust, banned, announced, bannedIPs, op, arg, dur, prot, history>>

ResetGauge(t) ==
  /\ pc[t] = "reset"
  /\ bannedIPs' = 0
  /\ Finish(t)
  /\ UNCHANGED <<config, ipTrust, banned, xdp, announced, history>>
-----------------------------------------------------------------------------
(* Cleanup, run by the cleanup worker alone. *)
BeginCleanup(t) ==
  /\ t = Cleaner
  /\ Begin(t, "cleanup", NoIP, "purge")
  /\ todo' = [todo EXCEPT ![t] = ExpiredKeys]
  /\ UNCHANGED <<config, ipTrust, table, dur, prot, begun>>

Purge(t, ip) ==
  /\ pc[t] = "purge"
  /\ ip \in todo[t]
  /\ Delete(ip)
  /\ pc'  = [pc EXCEPT ![t] = "uncount"]
  /\ arg' = [arg EXCEPT ![t] = ip]
  /\ UNCHANGED <<config, ipTrust, xdp, announced, bannedIPs, op, dur, todo, prot, history>>

Uncount(t) ==
  /\ pc[t] = "uncount"
  /\ bannedIPs' = bannedIPs - 1
  /\ Goto(t, "purgekernel")
  /\ UNCHANGED <<config, ipTrust, banned, xdp, announced, history>>

PurgeKernel(t) ==
  /\ pc[t] = "purgekernel"
  /\ KernelUnban(arg[t])
  /\ todo' = [todo EXCEPT ![t] = @ \ {arg[t]}]
  /\ arg' = [arg EXCEPT ![t] = NoIP]
  /\ pc' = [pc EXCEPT ![t] = "purge"]
  /\ UNCHANGED <<config, ipTrust, banned, announced, bannedIPs, op, dur, prot, history>>

(* ipStates.Cleanup forgets states that were idle for ten minutes: none an  *)
(* operation in flight has just touched.                                    *)
CleanupEnd(t) ==
  /\ pc[t] = "purge"
  /\ todo[t] = {}
  /\ \E idle \in SUBSET {ip \in IPs : \A u \in Active : arg[u] # ip} :
       ipTrust' = [ip \in IPs |-> IF ip \in idle THEN "none" ELSE ipTrust[ip]]
  /\ Finish(t)
  /\ UNCHANGED <<config, table, history>>
-----------------------------------------------------------------------------
(* Time passes. *)
Tick ==
  /\ \E ip \in IPs : banned[ip] > 0
  /\ banned' = [ip \in IPs |-> IF banned[ip] > 0 THEN banned[ip] - 1 ELSE banned[ip]]
  /\ UNCHANGED <<config, ipTrust, xdp, announced, bannedIPs, pc, locals, history>>

(* The steps an operation in flight still has to take. *)
Continue(t) ==
  \/ Guard(t) \/ Enter(t) \/ Put(t) \/ Count(t) \/ Renew(t) \/ KernelInsert(t)
  \/ Drop(t) \/ UnbanKernel(t) \/ Clear(t) \/ ResetGauge(t)
  \/ Uncount(t) \/ PurgeKernel(t) \/ CleanupEnd(t)
  \/ \E ip \in IPs : ListDrop(t, ip) \/ UnbanAllKernel(t, ip) \/ Purge(t, ip)

Next ==
  \/ \E t \in Threads, ip \in IPs :
       \/ \E kind \in BanOps, d \in Durations : BeginBan(t, kind, ip, d)
       \/ IsBanned(t, ip)
       \/ BeginUnban(t, ip)
  \/ \E t \in Threads : BeginList(t) \/ BeginUnbanAll(t)
  \/ \E t \in Procs : BeginCleanup(t) \/ Continue(t)
  \/ \E T, W \in SUBSET IPs : Reload(T, W)
  \/ Tick

Spec == Init /\ [][Next]_vars

(* Goroutines are scheduled, the cleanup ticker fires, time passes. *)
Fairness ==
  /\ WF_vars(Tick)
  /\ WF_vars(BeginCleanup(Cleaner))
  /\ \A t \in Procs : WF_vars(Continue(t))

FairSpec == Spec /\ Fairness
-----------------------------------------------------------------------------
AllIdle == Active = {}

(* Properties. *)

(* Until the configuration is reloaded, an IP that it trusts or whitelists  *)
(* is never in the table or in the kernel map and no ban of it leaves the   *)
(* node, whichever of the three ways into banIP is taken: the promise of    *)
(* pipeline.go:995.                                                         *)
ProtectedNeverBanned ==
  reloads = 0 => \A ip \in trustedProxies \cup whitelistIPs :
    banned[ip] = Absent /\ ip \notin xdp /\ ip \notin announced

(* Across reloads: a ban that is past the guards was not refused protection *)
(* the configuration gave its IP from the start of BanIPLocal until now.    *)
Storing(t) == pc[t] \in {"put", "count", "renew", "kernel"}

LocalBanRespectsConfig ==
  \A t \in Procs : Storing(t) /\ op[t] = "local" => ~prot[t]

(* Until something unbans or reloads, an entry of the table is in the       *)
(* kernel map as well once the bans of its IP have returned: what user      *)
(* space blocks, the NIC drops.                                             *)
Pending(ip) == \E t \in Procs : arg[t] = ip /\ pc[t] \in {"count", "renew", "kernel"}

EnforcedInKernel ==
  reloads = 0 /\ used = {} =>
    \A ip \in IPs : banned[ip] # Absent => ip \in xdp \/ Pending(ip)

(* When nothing is in flight, every entry of the table has been counted,    *)
(* whoever removed and banned it again - until UnbanAllIPs resets the gauge *)
(* or the cleanup worker uncounts under a ban that renews.                  *)
GaugeCoversTable ==
  used \subseteq {"unban"} /\ AllIdle => bannedIPs >= Cardinality(Keys)

(* An expired entry is eventually removed or renewed.                       *)
ExpiredForgotten ==
  \A ip \in IPs : banned[ip] = 0 ~> banned[ip] # 0

(* A ban lasts for its duration: the kernel does not drop an IP for ever    *)
(* when nobody bans it again.                                               *)
KernelBanEnds ==
  \A ip \in IPs : ip \in xdp ~> ip \notin xdp
=============================================================================
