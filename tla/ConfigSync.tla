----------------------------- MODULE ConfigSync -----------------------------
(***************************************************************************)
(* How a saved configuration reaches the dashboards of the other nodes     *)
(* (api/dashboard.go: broadcastConfigToPeers, handleClusterSync).  The     *)
(* whole YAML text is posted to each peer, on both ports of its dashboard, *)
(* by goroutines that nothing orders, without a version and once; a peer   *)
(* that cannot be reached is passed over.  The text includes the section   *)
(* of the cluster, which says where the node that wrote it is.             *)
(*                                                                         *)
(* A node is its address.  What a save does on its own node, with its      *)
(* files and hooks, is in ConfigCenter: here it is one step.  The mesh     *)
(* knows all nodes, the node itself included.                              *)
(***************************************************************************)
EXTENDS Naturals

CONSTANTS
  Nodes,
  Bodies,     \* what a configuration says of anything but the cluster
  Ports,      \* of the dashboard, 9090 and 1234
  NoNode,     \* an empty advertise_ip
  MaxSaves    \* bound: saves and forced synchronisations

ASSUME SyncAssumption ==
  NoNode \notin Nodes /\ Bodies # {} /\ Ports # {} /\ MaxSaves \in Nat

VARIABLES
  config,  \* of a node: the configuration of its centre
  edit,    \* of a node: the save its dashboard is making
  jobs,    \* broadcasts that have not begun
  posts,   \* requests to the peers under way
  syncs,   \* saves and forced synchronisations so far
  last,    \* history: the node that shared its configuration last
  alone    \* history: nothing was under way then, nothing began or was lost since

syncVars == <<config, edit, jobs, posts, syncs, last, alone>>

NodeConfigs == [body : Bodies, advertise_ip : Nodes \cup {NoNode}, join_peers : SUBSET Nodes]
NoEdit(c) == [stage |-> "none", shared |-> FALSE, cfg |-> c]

SyncTypeOK ==
  /\ config \in [Nodes -> NodeConfigs]
  /\ edit \in [Nodes -> [stage : {"none", "write", "share"}, shared : BOOLEAN,
                         cfg : NodeConfigs]]
  /\ \A j \in jobs : j.from \in Nodes /\ j.cfg \in NodeConfigs /\ j.no \in 0..syncs
  /\ \A p \in posts : p.to \in Nodes /\ p.port \in Ports /\ p.cfg \in NodeConfigs
  /\ syncs \in 0..MaxSaves /\ last \in Nodes \cup {NoNode} /\ alone \in BOOLEAN

(* Nodes are installed each with its own configuration, which names the     *)
(* others and the node's own address or, as delivered, none.                 *)
Installed(n, b, own) ==
  [body |-> b, join_peers |-> Nodes \ {n}, advertise_ip |-> IF own THEN n ELSE NoNode]

SyncInit ==
  /\ \E body \in [Nodes -> Bodies], own \in BOOLEAN :
       config = [n \in Nodes |-> Installed(n, body[n], own)]
  /\ edit = [n \in Nodes |-> NoEdit(config[n])]
  /\ jobs = {} /\ posts = {} /\ syncs = 0 /\ last = NoNode /\ alone = FALSE
-----------------------------------------------------------------------------
NothingUnderWay ==
  jobs = {} /\ posts = {} /\ \A n \in Nodes : edit[n].stage = "none"

Share(n) ==
  /\ syncs < MaxSaves /\ syncs' = syncs + 1
  /\ last' = n /\ alone' = NothingUnderWay

(* Mutant of Peers: those that the configuration names. *)
PeersListed(n) == config[n].join_peers \ {config[n].advertise_ip}

(* The peers of the configuration and of the mesh, but for the address that  *)
(* the configuration gives as the node's own.                                *)
Peers(n) ==
  (config[n].join_peers \cup Nodes) \ {config[n].advertise_ip}

(* broadcastConfigToPeers *)
Posted(n, cfg, no) ==
  [to : Peers(n), port : Ports, cfg : {cfg}, no : {no}]

(* A handler clones the configuration, changes it, saves it, and starts a    *)
(* broadcast.  Security rules and a rollback are saved and not broadcast.    *)
BeginEdit(n, b, shared) ==
  /\ edit[n].stage = "none"
  /\ edit' = [edit EXCEPT ![n] = [stage |-> "write", shared |-> shared,
                                  cfg |-> [config[n] EXCEPT !.body = b]]]
  /\ Share(IF shared THEN n ELSE NoNode)
  /\ UNCHANGED <<config, jobs, posts>>

(* UpdateConfig: what the section of the cluster leaves empty stays.         *)
Kept(new, old) ==
  [new EXCEPT
     !.advertise_ip = IF @ = NoNode THEN old.advertise_ip ELSE @,
     !.join_peers = IF @ = {} THEN old.join_peers ELSE @]

WriteEdit(n) ==
  /\ edit[n].stage = "write"
  /\ config' = [config EXCEPT ![n] = Kept(edit[n].cfg, @)]
  /\ edit' = [edit EXCEPT ![n] = IF edit[n].shared THEN [@ EXCEPT !.stage = "share"]
                                                   ELSE NoEdit(config'[n])]
  /\ UNCHANGED <<jobs, posts, syncs, last, alone>>

(* The broadcast takes the text that the centre has by now ... *)
ShareEdit(n) ==
  /\ edit[n].stage = "share"
  /\ jobs' = jobs \cup {[from |-> n, cfg |-> config[n], no |-> syncs]}
  /\ edit' = [edit EXCEPT ![n] = NoEdit(config[n])]
  /\ UNCHANGED <<config, posts, syncs, last, alone>>

(* ... and, when it runs, the peers of the configuration of that time.       *)
Broadcast(j) ==
  /\ j \in jobs /\ jobs' = jobs \ {j}
  /\ posts' = posts \cup Posted(j.from, j.cfg, j.no)
  /\ UNCHANGED <<config, edit, syncs, last, alone>>

(* handleClusterSync *)
ForceSync(n) ==
  /\ Share(n)
  /\ posts' = posts \cup Posted(n, config[n], syncs')
  /\ UNCHANGED <<config, edit, jobs>>

(* handleConfigCenter of the peer saves the text as it is, and does not      *)
(* broadcast what a peer has posted.                                         *)
Receive(p) ==
  /\ p \in posts /\ posts' = posts \ {p}
  /\ config' = [config EXCEPT ![p.to] = p.cfg]
  /\ edit' = [edit EXCEPT ![p.to] = IF @.stage = "none" THEN NoEdit(p.cfg) ELSE @]
  /\ UNCHANGED <<jobs, syncs, last, alone>>

(* The peer is down or does not answer within three seconds. *)
Lose(p) ==
  /\ p \in posts /\ posts' = posts \ {p}
  /\ alone' = FALSE
  /\ UNCHANGED <<config, edit, jobs, syncs, last>>

SyncNext ==
  \/ \E n \in Nodes :
       \/ \E b \in Bodies, shared \in BOOLEAN : BeginEdit(n, b, shared)
       \/ WriteEdit(n) \/ ShareEdit(n) \/ ForceSync(n)
  \/ \E j \in jobs : Broadcast(j)
  \/ \E p \in posts : Receive(p) \/ Lose(p)

SyncSpec == SyncInit /\ [][SyncNext]_syncVars
-----------------------------------------------------------------------------
(* A node that shares its configuration while nothing else is under way      *)
(* brings all nodes to it, whatever overlapping saves, lost requests and     *)
(* changes that were not shared have made of them before (dashboard.go:1522: *)
(* "saved & hot-reloaded successfully across cluster"), with one exception:  *)
(* the node whose address the configuration claims as its own.  That is the  *)
(* sharing node itself as long as no other has overwritten its address.      *)
SharedReachesAll ==
  last # NoNode /\ alone /\ NothingUnderWay =>
    \A n \in Nodes : n # config[last].advertise_ip => config[n] = config[last]
=============================================================================
