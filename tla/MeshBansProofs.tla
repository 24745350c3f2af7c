---------------------------- MODULE MeshBansProofs ----------------------------
(* Theorems about the mesh, for any number of nodes, any names, any network  *)
(* and any value of the bounds.                                              *)
EXTENDS MeshBans, TLAPS

(* A message just built is well typed, whoever sends it. *)
LEMMA MessageType ==
  ASSUME NEW action \in {"ban", "unban", "unban_all"}, NEW n \in Nodes,
         NEW ip \in IPs, NEW d \in Nat
  PROVE  Message(action, n, ip, d) \in Messages
BY MeshAssumption DEF Message, Messages

(* Reaching a peer keeps a message, but for the peers it has reached. *)
LEMMA SeenType ==
  ASSUME net \subseteq Messages, NEW n \in Nodes, NEW m \in net
  PROVE  /\ Seen(n, m) \subseteq Messages
         /\ \A k \in Seen(n, m) : \E o \in net :
              k.action = o.action /\ k.ip = o.ip /\ k.dur = o.dur /\ k.age = o.age
<1> DEFINE s == [m EXCEPT !.seen = @ \cup {n}]
<1>1. m \in Messages
  OBVIOUS
<1>2. s \in Messages /\ s.action = m.action /\ s.ip = m.ip /\ s.dur = m.dur /\ s.age = m.age
  BY <1>1 DEF Messages
<1>3. Seen(n, m) \subseteq net \cup {s}
  BY DEF Seen
<1> HIDE DEF s
<1> QED
  BY <1>2, <1>3

(* Ageing keeps the messages that stay in flight, but for their age. *)
LEMMA OlderType ==
  ASSUME net \subseteq Messages
  PROVE  /\ Older \subseteq Messages
         /\ \A k \in Older : \E o \in net :
              k.action = o.action /\ k.ip = o.ip /\ k.dur = o.dur /\ k.age = o.age + 1
<1> SUFFICES ASSUME NEW o \in net, o.age < Fresh, NEW k, k = [o EXCEPT !.age = @ + 1]
             PROVE  /\ k \in Messages
                    /\ k.action = o.action /\ k.ip = o.ip
                    /\ k.dur = o.dur /\ k.age = o.age + 1
  BY DEF Older
<1>1. o \in Messages /\ o.age \in 0..Fresh /\ Fresh \in Nat
  BY MeshAssumption DEF Messages
<1>2. o.age + 1 \in 0..Fresh
  BY <1>1
<1> QED
  BY <1>1, <1>2 DEF Messages

LEMMA TypeInit == Init => TypeOK
BY MeshAssumption DEF Init, TypeOK

LEMMA TypeNext == TypeOK /\ [Next]_vars => TypeOK'
<1> SUFFICES ASSUME TypeOK, [Next]_vars PROVE TypeOK'
  OBVIOUS
<1> USE MeshAssumption
<1>1. ASSUME NEW n \in Nodes, NEW ip \in IPs, NEW d \in Durations, BanIPLocal(n, ip, d)
      PROVE  TypeOK'
  <2>1. d \in Nat /\ Message("ban", n, ip, d) \in Messages
    BY MessageType
  <2>2. banned' \in [Nodes -> [IPs -> Nat]]
    BY <1>1, <2>1 DEF BanIPLocal, TypeOK
  <2>3. left' \in [IPs -> Int]
    BY <1>1, <2>1 DEF BanIPLocal, TypeOK, Longer
  <2>4. net' \subseteq Messages /\ owed' \subseteq Nodes \X IPs /\ bans' \in 0..MaxBans
    BY <1>1, <2>1 DEF BanIPLocal, TypeOK, Broadcast
  <2> QED
    BY <1>1, <2>2, <2>3, <2>4 DEF BanIPLocal, TypeOK
<1>2. ASSUME NEW n \in Nodes, NEW ip \in IPs, AdminUnban(n, ip)
      PROVE  TypeOK'
  <2>1. Message("unban", n, ip, 0) \in Messages
    BY MessageType
  <2> QED
    BY <1>2, <2>1 DEF AdminUnban, TypeOK, Broadcast
<1>3. ASSUME NEW n \in Nodes, NEW ip \in IPs, AdminUnbanAll(n, ip)
      PROVE  TypeOK'
  <2>1. Message("unban_all", n, ip, 0) \in Messages
    BY MessageType
  <2> QED
    BY <1>3, <2>1 DEF AdminUnbanAll, TypeOK, Broadcast
<1>4. ASSUME NEW n \in Nodes, NEW m \in net, NotifyMsg(n, m)
      PROVE  TypeOK'
  <2>1. m \in Messages /\ m.ip \in IPs /\ m.dur \in Nat
    BY DEF TypeOK, Messages
  <2>2. Seen(n, m) \subseteq Messages
    BY SeenType DEF TypeOK
  <2>3. CASE Ignore(n, m)
    BY <2>2, <2>3 DEF Ignore, TypeOK, counters
  <2>4. CASE BanIPRemote(n, m)
    BY <2>1, <2>2, <2>4 DEF BanIPRemote, TypeOK, counters
  <2>5. CASE UnbanRemote(n, m)
    <3>1. Message("unban", n, m.ip, 0) \in Messages
      BY <2>1, MessageType
    <3> QED
      BY <2>1, <2>2, <2>5, <3>1 DEF UnbanRemote, TypeOK, Broadcast, counters
  <2>6. CASE UnbanAllRemote(n, m)
    <3>1. Message("unban_all", n, m.ip, 0) \in Messages
      BY <2>1, MessageType
    <3> QED
      BY <2>1, <2>2, <2>6, <3>1 DEF UnbanAllRemote, TypeOK, Broadcast, counters
  <2> QED
    BY <1>4, <2>3, <2>4, <2>5, <2>6 DEF NotifyMsg
<1>5. ASSUME NEW n \in Nodes, Restart(n)
      PROVE  TypeOK'
  BY <1>5 DEF Restart, TypeOK
<1>6. CASE Tick
  <2>1. net' \subseteq Messages
    BY <1>6, OlderType DEF Tick, TypeOK
  <2>2. banned' \in [Nodes -> [IPs -> Nat]]
    BY <1>6 DEF Tick, TypeOK
  <2>3. left' \in [IPs -> Int] /\ ago' \in [IPs -> 0..Fresh + 1]
    BY <1>6 DEF Tick, TypeOK
  <2> QED
    BY <1>6, <2>1, <2>2, <2>3 DEF Tick, TypeOK, counters
<1>7. CASE UNCHANGED vars
  BY <1>7 DEF vars, counters, TypeOK
<1> QED
  BY <1>1, <1>2, <1>3, <1>4, <1>5, <1>6, <1>7 DEF Next, handleUnban

(* The mesh's variables always have their types. *)
THEOREM MeshTypeCorrect == Spec => []TypeOK
BY TypeInit, TypeNext, PTL DEF Spec
-----------------------------------------------------------------------------
(* The message of a ban promises no more time than its decision has left;   *)
(* unbans promise none.                                                     *)
MessageBound ==
  \A m \in net : m.action = "ban" => m.dur - m.age <= left[m.ip]

Bound == TypeOK /\ MessageBound /\ NoBanOutlivesDecision

LEMMA BoundNext == Bound /\ [Next]_vars => Bound'
<1> SUFFICES ASSUME Bound, [Next]_vars
             PROVE  MessageBound' /\ NoBanOutlivesDecision'
  BY TypeNext DEF Bound
<1> USE MeshAssumption
<1>t. TypeOK /\ MessageBound /\ NoBanOutlivesDecision
  BY DEF Bound
<1>m. \A m \in net : m \in Messages /\ m.ip \in IPs /\ m.dur \in Nat /\ m.age \in 0..Fresh
  BY <1>t DEF TypeOK, Messages
<1>n. ASSUME NEW o \in Messages, o.action # "ban",
             net' \subseteq net \cup {o}, UNCHANGED left
      PROVE  MessageBound'
  BY <1>n, <1>t DEF MessageBound
<1>s. ASSUME NEW n \in Nodes, NEW m \in net, NEW o \in Messages, o.action # "ban",
             net' \subseteq Seen(n, m) \cup {o}, UNCHANGED left
      PROVE  MessageBound'
  <2>1. \A k \in Seen(n, m) : k.action = "ban" => k.dur - k.age <= left[k.ip]
    BY <1>t, SeenType DEF TypeOK, MessageBound
  <2> QED
    BY <1>s, <2>1 DEF MessageBound
<1>z. ASSUME NEW n \in Nodes, UNCHANGED left,
             \A p \in Nodes, ip \in IPs : banned'[p][ip] = banned[p][ip] \/ banned'[p][ip] = 0
      PROVE  NoBanOutlivesDecision'
  BY <1>z, <1>t DEF NoBanOutlivesDecision
<1>1. ASSUME NEW n \in Nodes, NEW ip \in IPs, NEW d \in Durations, BanIPLocal(n, ip, d)
      PROVE  MessageBound' /\ NoBanOutlivesDecision'
  <2>1. d \in Nat /\ left[ip] \in Int /\ left \in [IPs -> Int]
    BY <1>t DEF TypeOK
  <2>2. /\ left'[ip] >= d
        /\ \A i \in IPs : left'[i] \in Int /\ left'[i] >= left[i]
    BY <1>1, <2>1 DEF BanIPLocal, Longer
  <2>3. MessageBound'
    <3>1. \A m \in net : m.action = "ban" => m.dur - m.age <= left'[m.ip]
      BY <1>t, <1>m, <2>1, <2>2 DEF MessageBound
    <3>2. Message("ban", n, ip, d).dur - Message("ban", n, ip, d).age
            <= left'[Message("ban", n, ip, d).ip]
      BY <2>1, <2>2 DEF Message
    <3> QED
      BY <1>1, <3>1, <3>2 DEF BanIPLocal, Broadcast, MessageBound
  <2>4. NoBanOutlivesDecision'
    <3> SUFFICES ASSUME NEW p \in Nodes, NEW i \in IPs, banned'[p][i] > 0
                 PROVE  banned'[p][i] <= left'[i] + Fresh
      BY DEF NoBanOutlivesDecision
    <3>1. CASE p = n /\ i = ip
      BY <1>1, <1>t, <2>1, <2>2, <3>1 DEF BanIPLocal, TypeOK
    <3>2. CASE ~(p = n /\ i = ip)
      <4>1. banned'[p][i] = banned[p][i] /\ banned[p][i] \in Nat
        BY <1>1, <1>t, <3>2 DEF BanIPLocal, TypeOK
      <4>2. banned[p][i] <= left[i] + Fresh
        BY <1>t, <4>1 DEF NoBanOutlivesDecision
      <4> QED
        BY <2>1, <2>2, <4>1, <4>2
    <3> QED
      BY <3>1, <3>2
  <2> QED
    BY <2>3, <2>4
<1>2. ASSUME NEW n \in Nodes, NEW ip \in IPs, AdminUnban(n, ip) \/ AdminUnbanAll(n, ip)
      PROVE  MessageBound' /\ NoBanOutlivesDecision'
  <2>1. PICK action \in {"unban", "unban_all"} :
          net' = net \cup {Message(action, n, ip, 0)}
    BY <1>2 DEF AdminUnban, AdminUnbanAll, Broadcast
  <2>2. Message(action, n, ip, 0) \in Messages /\ Message(action, n, ip, 0).action # "ban"
    BY MessageType DEF Message
  <2>3. UNCHANGED left
    BY <1>2 DEF AdminUnban, AdminUnbanAll
  <2>4. \A p \in Nodes, i \in IPs : banned'[p][i] = banned[p][i] \/ banned'[p][i] = 0
    <3>1. CASE AdminUnban(n, ip)
      BY <3>1, <1>t DEF AdminUnban, TypeOK
    <3>2. CASE AdminUnbanAll(n, ip)
      BY <3>2, <1>t DEF AdminUnbanAll, TypeOK
    <3> QED
      BY <1>2, <3>1, <3>2
  <2> QED
    BY <2>1, <2>2, <2>3, <2>4, <1>n, <1>z
<1>3. ASSUME NEW n \in Nodes, NEW m \in net, NotifyMsg(n, m)
      PROVE  MessageBound' /\ NoBanOutlivesDecision'
  <2>1. UNCHANGED left
    BY <1>3 DEF NotifyMsg, Ignore, BanIPRemote, UnbanRemote, UnbanAllRemote
  <2>2. m.ip \in IPs /\ m.dur \in Nat /\ m.age \in 0..Fresh
    BY <1>m
  <2>3. Message("unban", n, m.ip, 0) \in Messages /\ Message("unban", n, m.ip, 0).action # "ban"
    BY <2>2, MessageType DEF Message
  <2>4. Message("unban_all", n, m.ip, 0) \in Messages
          /\ Message("unban_all", n, m.ip, 0).action # "ban"
    BY <2>2, MessageType DEF Message
  <2>5. MessageBound'
    <3>1. CASE Ignore(n, m) \/ BanIPRemote(n, m)
      BY <3>1, <2>1, <2>3, <1>s DEF Ignore, BanIPRemote
    <3>2. CASE UnbanRemote(n, m)
      BY <3>2, <2>1, <2>3, <1>s DEF UnbanRemote, Broadcast
    <3>3. CASE UnbanAllRemote(n, m)
      BY <3>3, <2>1, <2>4, <1>s DEF UnbanAllRemote, Broadcast
    <3> QED
      BY <1>3, <3>1, <3>2, <3>3 DEF NotifyMsg
  <2>6. NoBanOutlivesDecision'
    <3>1. CASE BanIPRemote(n, m) /\ m.ip \notin White[n]
      <4> SUFFICES ASSUME NEW p \in Nodes, NEW i \in IPs, banned'[p][i] > 0
                   PROVE  banned'[p][i] <= left[i] + Fresh
        BY <2>1 DEF NoBanOutlivesDecision
      <4>1. m.dur - m.age <= left[m.ip] /\ left[m.ip] \in Int
        BY <1>t, <2>2, <3>1 DEF MessageBound, BanIPRemote, TypeOK
      <4>2. m.dur <= left[m.ip] + Fresh
        BY <2>2, <4>1
      <4>3. banned'[p][i] = IF p = n /\ i = m.ip THEN m.dur ELSE banned[p][i]
        BY <1>t, <2>2, <3>1 DEF BanIPRemote, TypeOK
      <4> QED
        BY <1>t, <4>2, <4>3 DEF NoBanOutlivesDecision
    <3>2. CASE ~(BanIPRemote(n, m) /\ m.ip \notin White[n])
      <4>1. \A p \in Nodes, i \in IPs : banned'[p][i] = banned[p][i] \/ banned'[p][i] = 0
        BY <1>3, <1>t, <2>2, <3>2
           DEF NotifyMsg, Ignore, BanIPRemote, UnbanRemote, UnbanAllRemote, TypeOK
      <4> QED
        BY <4>1, <2>1, <1>z
    <3> QED
      BY <3>1, <3>2
  <2> QED
    BY <2>5, <2>6
<1>4. ASSUME NEW n \in Nodes, Restart(n)
      PROVE  MessageBound' /\ NoBanOutlivesDecision'
  BY <1>4, <1>t DEF Restart, MessageBound, NoBanOutlivesDecision, TypeOK
<1>5. CASE Tick
  <2>1. \A i \in IPs : /\ left[i] \in Int
                       /\ left'[i] = IF left[i] > -Fresh THEN left[i] - 1 ELSE left[i]
    BY <1>5, <1>t DEF Tick, TypeOK
  <2>2. MessageBound'
    <3> SUFFICES ASSUME NEW k \in Older, k.action = "ban"
                 PROVE  k.dur - k.age <= left'[k.ip]
      BY <1>5 DEF Tick, MessageBound
    <3>1. PICK o \in net : /\ k.action = o.action /\ k.ip = o.ip
                           /\ k.dur = o.dur /\ k.age = o.age + 1
      BY <1>t, OlderType DEF TypeOK
    <3>2. o.dur - o.age <= left[o.ip]
      BY <1>t, <3>1 DEF MessageBound
    <3> QED
      BY <1>m, <2>1, <3>1, <3>2
  <2>3. NoBanOutlivesDecision'
    <3> SUFFICES ASSUME NEW p \in Nodes, NEW i \in IPs, banned'[p][i] > 0
                 PROVE  banned'[p][i] <= left'[i] + Fresh
      BY DEF NoBanOutlivesDecision
    <3>1. banned[p][i] \in Nat /\ banned[p][i] > 0 /\ banned'[p][i] = banned[p][i] - 1
      BY <1>5, <1>t DEF Tick, TypeOK
    <3>2. banned[p][i] <= left[i] + Fresh
      BY <1>t, <3>1 DEF NoBanOutlivesDecision
    <3> QED
      BY <2>1, <3>1, <3>2
  <2> QED
    BY <2>2, <2>3
<1>6. CASE UNCHANGED vars
  BY <1>6, <1>t DEF vars, MessageBound, NoBanOutlivesDecision
<1> QED
  BY <1>1, <1>2, <1>3, <1>4, <1>5, <1>6 DEF Next, handleUnban

(* However often and in whatever order messages arrive, no ban of any node  *)
(* outlives the longest decision behind it by more than Fresh.              *)
THEOREM BansDoNotEcho == Spec => []NoBanOutlivesDecision
<1>1. Init => Bound
  BY TypeInit DEF Init, Bound, MessageBound, NoBanOutlivesDecision
<1>2. Bound => NoBanOutlivesDecision
  BY DEF Bound
<1> QED
  BY <1>1, <1>2, BoundNext, PTL DEF Spec
=============================================================================
