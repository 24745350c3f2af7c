--------------------------- MODULE BanPipelineProofs ---------------------------
(* Theorems about the ban table, for every set of addresses, every number of *)
(* goroutines and every value of the bounds.                                 *)
EXTENDS BanPipeline, FiniteSetTheorems, TLAPS

LocalsOK ==
  /\ pc \in [Procs -> Steps]
  /\ op \in [Procs -> OpKinds]
  /\ arg \in [Procs -> IPs \cup {NoIP}]
  /\ dur \in [Procs -> Nat]
  /\ todo \in [Procs -> SUBSET IPs]
  /\ prot \in [Procs -> BOOLEAN]

(* Returning leaves the locals well typed. *)
LEMMA FinishType ==
  ASSUME LocalsOK, NEW t \in Procs, Finish(t)
  PROVE  LocalsOK'
BY DEF LocalsOK, Finish, Steps, OpKinds, BanOps

(* So does moving on to another step. *)
LEMMA GotoType ==
  ASSUME LocalsOK, NEW t \in Procs, NEW step \in Steps, Goto(t, step)
  PROVE  LocalsOK'
BY DEF LocalsOK, Goto, locals

(* And beginning an operation, as far as Begin sets them. *)
LEMMA BeginType ==
  ASSUME LocalsOK, NEW t \in Procs, NEW kind, NEW ip \in IPs \cup {NoIP},
         NEW step \in Steps, Begin(t, kind, ip, step)
  PROVE  /\ pc' \in [Procs -> Steps]
         /\ op' \in [Procs -> OpKinds]
         /\ arg' \in [Procs -> IPs \cup {NoIP}]
         /\ used \subseteq Removers => used' \subseteq Removers
BY BanAssumption DEF LocalsOK, Begin

(* Reading an IP's cached trust may create its state, of the right type. *)
LEMMA TouchType ==
  ASSUME ipTrust \in [IPs -> {"none", "yes", "no"}], NEW ip \in IPs, TouchState(ip)
  PROVE  ipTrust' \in [IPs -> {"none", "yes", "no"}]
BY DEF TouchState, StateTrust

(* A goroutine past the beginning of a ban, a lookup or an unban works on an *)
(* address, never on NoIP.                                                   *)
HasArg == {"guard", "enter", "put", "count", "renew", "kernel", "drop",
           "unkernel", "uncount", "purgekernel"}
ArgOK == \A t \in Procs : pc[t] \in HasArg => arg[t] \in IPs

TypeInv == TypeOK /\ ArgOK

LEMMA TypeInvInit == Init => TypeInv
BY BanAssumption
   DEF Init, TypeInv, TypeOK, ArgOK, HasArg, Steps, OpKinds, BanOps, Absent, Procs

LEMMA TypeInvNext == TypeInv /\ [Next]_vars => TypeInv'
<1> SUFFICES ASSUME TypeInv, [Next]_vars PROVE TypeInv'
  OBVIOUS
<1> USE DEF TypeInv
<1>t. TypeOK /\ ArgOK /\ LocalsOK
  BY DEF TypeOK, LocalsOK
<1>1. ASSUME NEW t \in Threads, NEW ip \in IPs, NEW kind \in BanOps, NEW d \in Durations,
             BeginBan(t, kind, ip, d)
      PROVE  TypeInv'
  <2>1. t \in Procs /\ d \in Nat /\ (kind = "limit" \/ kind # "limit")
    BY BanAssumption DEF Procs
  <2>2. /\ pc' \in [Procs -> Steps]
        /\ op' \in [Procs -> OpKinds]
        /\ arg' \in [Procs -> IPs \cup {NoIP}]
        /\ used \subseteq Removers => used' \subseteq Removers
    BY <1>1, <1>t, <2>1, BeginType DEF BeginBan, Steps
  <2> QED
    BY <1>1, <1>t, <2>1, <2>2, BanAssumption
       DEF BeginBan, Begin, TypeOK, ArgOK, config, history, table, Protected
<1>2. ASSUME NEW t \in Threads, NEW ip \in IPs, IsBanned(t, ip)
      PROVE  TypeInv'
  <2>1. t \in Procs /\ "drop" \in Steps
    BY DEF Procs, Steps
  <2>2. ipTrust' \in [IPs -> {"none", "yes", "no"}]
    BY <1>2, <1>t, TouchType DEF IsBanned, TypeOK
  <2>3. CASE Begin(t, "check", ip, "drop") /\ UNCHANGED <<dur, todo, prot>>
    <3>1. /\ pc' \in [Procs -> Steps]
          /\ op' \in [Procs -> OpKinds]
          /\ arg' \in [Procs -> IPs \cup {NoIP}]
          /\ used \subseteq Removers => used' \subseteq Removers
      BY <1>t, <2>1, <2>3, BeginType
    <3> QED
      BY <1>2, <1>t, <2>1, <2>2, <2>3, <3>1 DEF IsBanned, Begin, TypeOK, ArgOK, config, history, table
  <2>4. CASE UNCHANGED <<pc, locals, used>>
    BY <1>2, <1>t, <2>2, <2>4 DEF IsBanned, TypeOK, ArgOK, config, history, table, locals
  <2> QED
    BY <1>2, <2>3, <2>4 DEF IsBanned
<1>3. ASSUME NEW t \in Threads, NEW ip \in IPs, BeginUnban(t, ip)
      PROVE  TypeInv'
  <2>1. t \in Procs /\ "unkernel" \in Steps
    BY DEF Procs, Steps
  <2>2. /\ pc' \in [Procs -> Steps]
        /\ op' \in [Procs -> OpKinds]
        /\ arg' \in [Procs -> IPs \cup {NoIP}]
        /\ used \subseteq Removers => used' \subseteq Removers
    BY <1>3, <1>t, <2>1, BeginType DEF BeginUnban
  <2> QED
    BY <1>3, <1>t, <2>1, <2>2 DEF BeginUnban, Begin, Delete, TypeOK, ArgOK, config, history, Absent
<1>4. ASSUME NEW t \in Procs, NEW kind, NEW step \in {"list", "clear", "purge"},
             Begin(t, kind, NoIP, step), todo' \in [Procs -> SUBSET IPs],
             UNCHANGED <<config, ipTrust, table, dur, prot, begun>>
      PROVE  TypeInv'
  <2>1. step \in Steps /\ step \notin HasArg
    BY DEF Steps, HasArg
  <2>2. /\ pc' \in [Procs -> Steps]
        /\ op' \in [Procs -> OpKinds]
        /\ arg' \in [Procs -> IPs \cup {NoIP}]
        /\ used \subseteq Removers => used' \subseteq Removers
    BY <1>4, <1>t, <2>1, BeginType
  <2> QED
    BY <1>4, <1>t, <2>1, <2>2 DEF Begin, TypeOK, ArgOK, config, history, table
<1>5. ASSUME NEW t \in Threads, BeginList(t)
      PROVE  TypeInv'
  BY <1>4, <1>5, <1>t DEF BeginList, Procs, TypeOK, ExpiredKeys
<1>6. ASSUME NEW t \in Threads, BeginUnbanAll(t)
      PROVE  TypeInv'
  BY <1>4, <1>6, <1>t DEF BeginUnbanAll, Procs, TypeOK, Keys
<1>7. ASSUME NEW t \in Procs, BeginCleanup(t)
      PROVE  TypeInv'
  BY <1>4, <1>7, <1>t DEF BeginCleanup, TypeOK, ExpiredKeys
<1>8. ASSUME NEW t \in Procs, Continue(t)
      PROVE  TypeInv'
  <2>s. \A step \in {"enter", "put", "count", "renew", "kernel", "purgekernel",
                     "reset", "unkernelall"} : step \in Steps
    BY DEF Steps
  <2>a. pc[t] \in HasArg => arg[t] \in IPs
    BY <1>t DEF ArgOK
  <2>f. ASSUME Finish(t) PROVE LocalsOK' /\ ArgOK'
    <3>1. LocalsOK'
      BY <1>t, <2>f, FinishType
    <3>2. ArgOK'
      BY <1>t, <2>f DEF Finish, ArgOK, LocalsOK, HasArg
    <3> QED
      BY <3>1, <3>2
  <2>g. ASSUME NEW step \in Steps, Goto(t, step), pc[t] \in HasArg \/ step \notin HasArg
        PROVE  LocalsOK' /\ ArgOK'
    <3>1. LocalsOK'
      BY <1>t, <2>g, GotoType
    <3>2. ArgOK'
      BY <1>t, <2>g DEF Goto, ArgOK, LocalsOK, locals
    <3> QED
      BY <3>1, <3>2
  <2>1. CASE Guard(t)
    <3>1. pc[t] \in HasArg /\ arg[t] \in IPs
      BY <2>1, <2>a DEF Guard, HasArg
    <3>2. ipTrust' \in [IPs -> {"none", "yes", "no"}]
      BY <2>1, <3>1, <1>t, TouchType DEF Guard, TypeOK
    <3>3. LocalsOK' /\ ArgOK'
      BY <2>1, <2>f, <2>g, <2>s, <3>1 DEF Guard
    <3> QED
      BY <2>1, <1>t, <3>2, <3>3 DEF Guard, TypeOK, LocalsOK, config, history, table
  <2>2. CASE Enter(t)
    <3>1. pc[t] \in HasArg /\ arg[t] \in IPs
      BY <2>2, <2>a DEF Enter, HasArg
    <3>2. ipTrust' \in [IPs -> {"none", "yes", "no"}]
      BY <2>2, <3>1, <1>t, TouchType DEF Enter, TypeOK
    <3>3. LocalsOK' /\ ArgOK'
      BY <2>2, <2>f, <2>g, <2>s, <3>1 DEF Enter
    <3>4. announced' \subseteq IPs
      BY <2>2, <3>1, <1>t DEF Enter, TypeOK
    <3> QED
      BY <2>2, <1>t, <3>2, <3>3, <3>4 DEF Enter, TypeOK, LocalsOK, config, history
  <2>3. CASE Put(t)
    <3>1. pc[t] \in HasArg
      BY <2>3 DEF Put, HasArg
    <3>2. LocalsOK' /\ ArgOK'
      BY <2>3, <2>g, <2>s, <3>1 DEF Put
    <3> QED
      BY <2>3, <1>t, <3>2 DEF Put, TypeOK, LocalsOK, config, history
  <2>4. CASE Count(t)
    <3>1. pc[t] \in HasArg
      BY <2>4 DEF Count, HasArg
    <3>2. LocalsOK' /\ ArgOK'
      BY <2>4, <2>g, <2>s, <3>1 DEF Count
    <3> QED
      BY <2>4, <1>t, <3>2 DEF Count, TypeOK, LocalsOK, config, history
  <2>5. CASE Renew(t)
    <3>1. pc[t] \in HasArg
      BY <2>5 DEF Renew, HasArg
    <3>2. LocalsOK' /\ ArgOK'
      BY <2>5, <2>g, <2>s, <3>1 DEF Renew
    <3> QED
      BY <2>5, <1>t, <3>2 DEF Renew, TypeOK, LocalsOK, config, history
  <2>6. CASE KernelInsert(t)
    <3>1. arg[t] \in IPs
      BY <2>6, <2>a DEF KernelInsert, KernelBan, HasArg
    <3>2. ipTrust' \in [IPs -> {"none", "yes", "no"}]
      BY <2>6, <3>1, <1>t, TouchType DEF KernelInsert, KernelBan, TypeOK
    <3>3. LocalsOK' /\ ArgOK'
      BY <2>6, <2>f DEF KernelInsert, KernelBan
    <3> QED
      BY <2>6, <1>t, <3>1, <3>2, <3>3 DEF KernelInsert, KernelBan, TypeOK, LocalsOK, config, history
  <2>7. CASE Drop(t)
    BY <2>7, <2>f, <1>t DEF Drop, Delete, TypeOK, LocalsOK, config, history, Absent
  <2>8. CASE UnbanKernel(t)
    BY <2>8, <2>f, <1>t DEF UnbanKernel, KernelUnban, TypeOK, LocalsOK, config, history
  <2>9. CASE Clear(t)
    <3>1. LocalsOK' /\ ArgOK'
      <4>1. CASE todo[t] = {}
        BY <2>9, <2>g, <2>s, <4>1 DEF Clear, HasArg
      <4>2. CASE todo[t] # {}
        BY <2>9, <2>g, <2>s, <4>2 DEF Clear, HasArg
      <4> QED
        BY <4>1, <4>2
    <3> QED
      BY <2>9, <1>t, <3>1 DEF Clear, TypeOK, LocalsOK, config, history, Absent
  <2>10. CASE ResetGauge(t)
    BY <2>10, <2>f, <1>t DEF ResetGauge, TypeOK, LocalsOK, config, history
  <2>11. CASE Uncount(t)
    <3>1. pc[t] \in HasArg
      BY <2>11 DEF Uncount, HasArg
    <3>2. LocalsOK' /\ ArgOK'
      BY <2>11, <2>g, <2>s, <3>1 DEF Uncount
    <3> QED
      BY <2>11, <1>t, <3>2 DEF Uncount, TypeOK, LocalsOK, config, history
  <2>12. CASE PurgeKernel(t)
    BY <2>12, <1>t DEF PurgeKernel, KernelUnban, TypeOK, ArgOK, HasArg, Steps, config, history
  <2>13. CASE CleanupEnd(t)
    <3>1. ipTrust' \in [IPs -> {"none", "yes", "no"}]
      BY <2>13, <1>t DEF CleanupEnd, TypeOK
    <3> QED
      BY <2>13, <2>f, <1>t, <3>1 DEF CleanupEnd, TypeOK, LocalsOK, config, history, table
  <2>14. ASSUME NEW ip \in IPs, ListDrop(t, ip) PROVE TypeInv'
    <3>1. LocalsOK' /\ ArgOK'
      <4>1. CASE todo[t] = {ip}
        BY <2>14, <2>f, <4>1 DEF ListDrop
      <4>2. CASE todo[t] # {ip}
        BY <2>14, <1>t, <4>2 DEF ListDrop, LocalsOK, ArgOK
      <4> QED
        BY <4>1, <4>2
    <3> QED
      BY <2>14, <1>t, <3>1 DEF ListDrop, Delete, TypeOK, LocalsOK, config, history, Absent
  <2>15. ASSUME NEW ip \in IPs, UnbanAllKernel(t, ip) PROVE TypeInv'
    BY <2>15, <1>t DEF UnbanAllKernel, KernelUnban, TypeOK, ArgOK, HasArg, Steps, config, history
  <2>16. ASSUME NEW ip \in IPs, Purge(t, ip) PROVE TypeInv'
    BY <2>16, <1>t DEF Purge, Delete, TypeOK, ArgOK, HasArg, Steps, config, history, Absent
  <2> QED
    BY <1>8, <2>1, <2>2, <2>3, <2>4, <2>5, <2>6, <2>7, <2>8, <2>9, <2>10, <2>11,
       <2>12, <2>13, <2>14, <2>15, <2>16 DEF Continue
<1>9. ASSUME NEW T \in SUBSET IPs, NEW W \in SUBSET IPs, Reload(T, W)
      PROVE  TypeInv'
  BY <1>9, <1>t, BanAssumption DEF Reload, TypeOK, ArgOK, table, history
<1>10. ASSUME Tick PROVE TypeInv'
  BY <1>10, <1>t DEF Tick, TypeOK, ArgOK, locals, config, history, Absent
<1>11. CASE UNCHANGED vars
  BY <1>11, <1>t DEF vars, TypeOK, ArgOK, config, history, table, locals
<1> QED
  BY <1>1, <1>2, <1>3, <1>5, <1>6, <1>7, <1>8, <1>9, <1>10, <1>11 DEF Next

(* The variables of the ban table always have their types. *)
THEOREM TypeCorrect == Spec => []TypeOK
<1>1. TypeInv => TypeOK
  BY DEF TypeInv
<1> QED
  BY <1>1, TypeInvInit, TypeInvNext, PTL DEF Spec
-----------------------------------------------------------------------------
(* A goroutine whose ban has passed all the guards. *)
Stored  == {"put", "count", "renew", "kernel"}
Guarded == {"enter"} \cup Stored

(* prot speaks of a ban in flight whose IP is protected now.  A local ban   *)
(* past its guard has lost that protection at some moment since it began.   *)
ProtOK == \A t \in Procs : prot[t] =>
            pc[t] \in {"guard"} \cup Guarded /\ Protected(arg[t])
LocalOK == \A t \in Procs : pc[t] \in Guarded /\ op[t] = "local" => ~prot[t]

LocalInv == TypeInv /\ ProtOK /\ LocalOK

LEMMA LocalInvNext == LocalInv /\ [Next]_vars => LocalInv'
<1> SUFFICES ASSUME LocalInv, [Next]_vars PROVE ProtOK' /\ LocalOK'
  BY TypeInvNext DEF LocalInv
<1> USE DEF LocalInv
<1>t. TypeOK /\ ArgOK /\ ProtOK /\ LocalOK
  BY DEF TypeInv
<1>i. ASSUME NEW t \in Procs, Finish(t), UNCHANGED config
      PROVE  ProtOK' /\ LocalOK'
  BY <1>i, <1>t DEF Finish, ProtOK, LocalOK, TypeOK, Protected, config, history, Guarded, Stored
<1>g. ASSUME NEW t \in Procs, NEW step, Goto(t, step), UNCHANGED config,
             step \in Guarded \/ ~prot[t],
             pc[t] \in Guarded \/ ~prot[t] \/ op[t] # "local"
      PROVE  ProtOK' /\ LocalOK'
  BY <1>g, <1>t DEF Goto, ProtOK, LocalOK, TypeOK, Protected, config, history, locals
<1>b. ASSUME NEW t \in Procs, NEW kind, NEW ip, NEW step, Begin(t, kind, ip, step),
             UNCHANGED <<config, prot>>
      PROVE  ProtOK' /\ LocalOK'
  <2>1. ~prot[t]
    BY <1>b, <1>t DEF Begin, ProtOK, Guarded, Stored
  <2> QED
    BY <1>b, <1>t, <2>1 DEF Begin, ProtOK, LocalOK, TypeOK, Protected, config, history
<1>1. ASSUME NEW t \in Threads, NEW ip \in IPs, NEW kind \in BanOps, NEW d \in Durations,
             BeginBan(t, kind, ip, d)
      PROVE  ProtOK' /\ LocalOK'
  <2>1. t \in Procs
    BY DEF Procs
  <2>2. ProtOK'
    BY <1>1, <1>t, <2>1
       DEF BeginBan, Begin, ProtOK, TypeOK, Protected, config, history, Guarded, Stored
  <2>3. LocalOK'
    BY <1>1, <1>t, <2>1 DEF BeginBan, Begin, LocalOK, TypeOK, Guarded, Stored
  <2> QED
    BY <2>2, <2>3
<1>2. ASSUME NEW t \in Threads, NEW ip \in IPs, IsBanned(t, ip)
      PROVE  ProtOK' /\ LocalOK'
  BY <1>2, <1>b, <1>t DEF IsBanned, Procs, ProtOK, LocalOK, Protected, config, history, locals
<1>3. ASSUME NEW t \in Procs,
             \/ \E ip \in IPs : BeginUnban(t, ip)
             \/ BeginList(t) \/ BeginUnbanAll(t) \/ BeginCleanup(t)
      PROVE  ProtOK' /\ LocalOK'
  BY <1>3, <1>b DEF BeginUnban, BeginList, BeginUnbanAll, BeginCleanup
<1>4. ASSUME NEW t \in Procs, Continue(t)
      PROVE  ProtOK' /\ LocalOK'
  <2>p. pc[t] \notin {"guard"} \cup Guarded => ~prot[t]
    BY <1>t DEF ProtOK
  <2>1. CASE Guard(t)
    <3>1. CASE Finish(t)
      BY <2>1, <3>1, <1>i DEF Guard
    <3>2. CASE op[t] = "local" /\ ~RefusedLocal(arg[t]) /\ Goto(t, "enter")
      <4>1. ~Protected(arg[t])
        BY <3>2 DEF RefusedLocal, checkIsTrustedProxy, isWhitelisted, Protected
      <4> QED
        BY <2>1, <3>2, <4>1, <1>g, <1>t DEF Guard, ProtOK, Guarded
    <3>3. CASE op[t] = "remote" /\ Goto(t, "enter")
      BY <2>1, <3>3, <1>g DEF Guard, Guarded
    <3> QED
      BY <2>1, <3>1, <3>2, <3>3 DEF Guard
  <2>2. CASE Enter(t) \/ Put(t) \/ Count(t) \/ Renew(t)
    <3>1. pc[t] \in Guarded
      BY <2>2 DEF Enter, Put, Count, Renew, Guarded, Stored
    <3> QED
      BY <2>2, <3>1, <1>i, <1>g DEF Enter, Put, Count, Renew, Guarded, Stored
  <2>3. CASE KernelInsert(t) \/ Drop(t) \/ UnbanKernel(t) \/ ResetGauge(t) \/ CleanupEnd(t)
    BY <2>3, <1>i DEF KernelInsert, KernelBan, Drop, UnbanKernel, KernelUnban, ResetGauge,
       CleanupEnd
  <2>4. CASE Clear(t) \/ Uncount(t)
    <3>1. ~prot[t]
      BY <2>4, <2>p DEF Clear, Uncount, Guarded, Stored
    <3> QED
      BY <2>4, <3>1, <1>g DEF Clear, Uncount
  <2>5. CASE PurgeKernel(t) \/ \E ip \in IPs : Purge(t, ip) \/ UnbanAllKernel(t, ip)
    <3>1. ~prot[t]
      BY <2>5, <2>p DEF PurgeKernel, KernelUnban, Purge, UnbanAllKernel, Guarded, Stored
    <3> QED
      BY <2>5, <3>1, <1>t DEF PurgeKernel, KernelUnban, Purge, UnbanAllKernel, ProtOK, LocalOK,
         TypeOK, Protected, config, history
  <2>6. ASSUME NEW ip \in IPs, ListDrop(t, ip) PROVE ProtOK' /\ LocalOK'
    <3>1. CASE todo[t] = {ip}
      BY <2>6, <3>1, <1>i DEF ListDrop
    <3>2. CASE todo[t] # {ip}
      BY <2>6, <3>2, <1>t DEF ListDrop, ProtOK, LocalOK, Protected, config, history
    <3> QED
      BY <3>1, <3>2
  <2> QED
    BY <1>4, <2>1, <2>2, <2>3, <2>4, <2>5, <2>6 DEF Continue
<1>5. ASSUME NEW T \in SUBSET IPs, NEW W \in SUBSET IPs, Reload(T, W)
      PROVE  ProtOK' /\ LocalOK'
  BY <1>5, <1>t DEF Reload, ProtOK, LocalOK, Protected, TypeOK
<1>6. CASE Tick \/ UNCHANGED vars
  BY <1>6, <1>t DEF Tick, vars, ProtOK, LocalOK, Protected, config, history, locals
<1> QED
  BY <1>1, <1>2, <1>3, <1>4, <1>5, <1>6 DEF Next, Procs

(* Whatever the reloads: a ban decided here is stored only if the           *)
(* configuration, at some moment of the call, did not protect its IP.       *)
THEOREM LocalBanSafe == Spec => []LocalBanRespectsConfig
<1>1. Init => LocalInv
  BY TypeInvInit DEF Init, LocalInv, ProtOK, LocalOK
<1>2. LocalInv => LocalBanRespectsConfig
  BY DEF LocalInv, LocalOK, LocalBanRespectsConfig, Storing, Guarded, Stored
<1> QED
  BY <1>1, <1>2, LocalInvNext, PTL DEF Spec
-----------------------------------------------------------------------------
(* Reloads and removers are only ever counted up: a step that ends before   *)
(* the first reload keeps the configuration.                                *)
LEMMA HistoryStep ==
  ASSUME TypeOK, [Next]_vars
  PROVE  (reloads' = 0 => UNCHANGED config) /\ used \subseteq used'
<1>1. CASE \E T, W \in SUBSET IPs : Reload(T, W)
  BY <1>1 DEF Reload, TypeOK, history
<1>2. ASSUME NEW t \in Procs, Continue(t) PROVE UNCHANGED <<config, used>>
  BY <1>2 DEF Continue, Guard, Enter, Put, Count, Renew, KernelInsert, KernelBan, Drop,
     UnbanKernel, KernelUnban, Clear, ResetGauge, Uncount, PurgeKernel, CleanupEnd, ListDrop, UnbanAllKernel, Purge,
     history
<1>3. CASE \E t \in Procs, ip \in IPs :
             \/ \E kind \in BanOps, d \in Durations : BeginBan(t, kind, ip, d)
             \/ IsBanned(t, ip) \/ BeginUnban(t, ip)
  BY <1>3 DEF BeginBan, IsBanned, BeginUnban, Begin
<1>4. CASE \E t \in Procs : BeginList(t) \/ BeginUnbanAll(t) \/ BeginCleanup(t)
  BY <1>4 DEF BeginList, BeginUnbanAll, BeginCleanup, Begin
<1>5. CASE Tick \/ UNCHANGED vars
  BY <1>5 DEF Tick, vars, history
<1> QED
  BY <1>1, <1>2, <1>3, <1>4, <1>5 DEF Next, Procs

(* Cached trust agrees with the configuration.                              *)
TrustOK == \A ip \in IPs :
             ipTrust[ip] \in {"none", IF ip \in trustedProxies THEN "yes" ELSE "no"}

(* A ban past banIP's own guard is of an unprotected address, and so is a   *)
(* local ban past BanIPLocal's: the mesh hears of it whatever banIP does.   *)
Passed(t) == pc[t] \in Stored \/ (pc[t] = "enter" /\ op[t] = "local")
PassedOK  == \A t \in Procs : Passed(t) => ~Protected(arg[t])

(* What holds until the first reload. *)
StaticInv == TypeInv /\ TrustOK /\ PassedOK

LEMMA StaticTouch ==
  ASSUME TypeOK, TrustOK, UNCHANGED config, NEW ip \in IPs, TouchState(ip)
  PROVE  TrustOK' /\ (isTrustedProxy(ip) <=> ip \in trustedProxies)
BY DEF config, TypeOK, TrustOK, TouchState, StateTrust, isTrustedProxy

LEMMA StaticNext == StaticInv /\ reloads' = 0 /\ [Next]_vars => StaticInv'
<1> SUFFICES ASSUME StaticInv, reloads' = 0, [Next]_vars PROVE TrustOK' /\ PassedOK'
  BY TypeInvNext DEF StaticInv
<1> USE DEF StaticInv
<1>t. TypeOK /\ ArgOK /\ TrustOK /\ PassedOK
  BY DEF TypeInv
<1>c. UNCHANGED <<config, trustedProxies, whitelistIPs>>
  BY <1>t, HistoryStep DEF config
<1>b. ASSUME NEW t \in Procs, NEW kind, NEW ip, NEW step, Begin(t, kind, ip, step),
             step \notin Stored, step # "enter" \/ kind # "local"
      PROVE  PassedOK'
  BY <1>b, <1>c, <1>t DEF Begin, PassedOK, Passed, Protected, TypeOK
<1>f. ASSUME NEW t \in Procs, Finish(t)
      PROVE  PassedOK'
  BY <1>f, <1>c, <1>t DEF Finish, PassedOK, Passed, Protected, TypeOK, Stored
<1>g. ASSUME NEW t \in Procs, NEW step, Goto(t, step),
             \/ pc[t] \in Stored
             \/ ~Protected(arg[t])
             \/ (step \notin Stored /\ (step # "enter" \/ op[t] # "local"))
      PROVE  PassedOK'
  BY <1>g, <1>c, <1>t DEF Goto, PassedOK, Passed, TypeOK, Protected, locals
<1>1. ASSUME NEW t \in Threads, NEW ip \in IPs, NEW kind \in BanOps, NEW d \in Durations,
             BeginBan(t, kind, ip, d)
      PROVE  TrustOK' /\ PassedOK'
  <2>1. t \in Procs /\ "enter" \notin Stored /\ "guard" \notin Stored
    BY DEF Procs, Stored
  <2>2. PassedOK'
    <3>1. CASE kind = "limit"
      BY <1>1, <1>b, <2>1, <3>1 DEF BeginBan
    <3>2. CASE kind # "limit"
      BY <1>1, <1>b, <2>1, <3>2 DEF BeginBan
    <3> QED
      BY <3>1, <3>2
  <2> QED
    BY <1>1, <1>c, <1>t, <2>2 DEF BeginBan, TrustOK
<1>2. ASSUME NEW t \in Threads, NEW ip \in IPs, IsBanned(t, ip)
      PROVE  TrustOK' /\ PassedOK'
  <2>1. t \in Procs /\ "drop" \notin Stored
    BY DEF Procs, Stored
  <2>2. TrustOK'
    BY <1>2, <1>c, <1>t, StaticTouch DEF IsBanned
  <2>3. PassedOK'
    BY <1>2, <1>b, <1>c, <1>t, <2>1 DEF IsBanned, PassedOK, Passed, Protected, locals
  <2> QED
    BY <2>2, <2>3
<1>3. ASSUME NEW t \in Procs,
             \/ \E ip \in IPs : BeginUnban(t, ip)
             \/ BeginList(t) \/ BeginUnbanAll(t) \/ BeginCleanup(t)
      PROVE  TrustOK' /\ PassedOK'
  <2>1. PassedOK'
    BY <1>3, <1>b DEF BeginUnban, BeginList, BeginUnbanAll, BeginCleanup, Stored
  <2> QED
    BY <1>3, <1>c, <1>t, <2>1 DEF BeginUnban, BeginList, BeginUnbanAll, BeginCleanup,
       TrustOK
<1>4. ASSUME NEW t \in Procs, Continue(t)
      PROVE  TrustOK' /\ PassedOK'
  <2>2. CASE Guard(t)
    <3>1. TrustOK'
      BY <2>2, <1>c, <1>t, StaticTouch DEF Guard, ArgOK, HasArg
    <3>2. CASE Finish(t)
      BY <3>1, <3>2, <1>f
    <3>3. CASE op[t] = "local" /\ ~RefusedLocal(arg[t]) /\ Goto(t, "enter")
      <4>1. ~Protected(arg[t])
        BY <3>3 DEF RefusedLocal, checkIsTrustedProxy, isWhitelisted, Protected
      <4> QED
        BY <3>1, <3>3, <4>1, <1>g
    <3>4. CASE op[t] = "remote" /\ Goto(t, "enter")
      BY <3>1, <3>4, <1>g DEF Stored
    <3> QED
      BY <2>2, <3>2, <3>3, <3>4 DEF Guard
  <2>3. CASE Enter(t)
    <3>1. TrustOK' /\ (isTrustedProxy(arg[t]) <=> arg[t] \in trustedProxies)
      BY <2>3, <1>c, <1>t, StaticTouch DEF Enter, ArgOK, HasArg
    <3>2. PassedOK'
      <4>1. CASE Finish(t)
        BY <4>1, <1>f
      <4>2. CASE ~RefusedByBanIP(arg[t]) /\ Goto(t, "put")
        <5>1. ~Protected(arg[t])
          BY <4>2, <3>1 DEF RefusedByBanIP, isWhitelisted, Protected
        <5> QED
          BY <4>2, <5>1, <1>g
      <4> QED
        BY <2>3, <4>1, <4>2 DEF Enter
    <3> QED
      BY <3>1, <3>2
  <2>4. CASE Put(t) \/ Count(t) \/ Renew(t)
    <3>1. TrustOK'
      BY <2>4, <1>c, <1>t DEF Put, Count, Renew, TrustOK
    <3> QED
      BY <2>4, <3>1, <1>g DEF Put, Count, Renew, Stored
  <2>5. CASE KernelInsert(t)
    <3>1. TrustOK'
      BY <2>5, <1>c, <1>t, StaticTouch DEF KernelInsert, KernelBan, ArgOK, HasArg
    <3> QED
      BY <2>5, <3>1, <1>f DEF KernelInsert, KernelBan
  <2>6. CASE Drop(t) \/ UnbanKernel(t) \/ ResetGauge(t)
    BY <2>6, <1>f, <1>c, <1>t DEF Drop, UnbanKernel, KernelUnban, ResetGauge, TrustOK
  <2>7. CASE CleanupEnd(t)
    <3>1. PICK idle \in SUBSET IPs :
            ipTrust' = [ip \in IPs |-> IF ip \in idle THEN "none" ELSE ipTrust[ip]]
      BY <2>7 DEF CleanupEnd
    <3>2. TrustOK'
      BY <3>1, <1>c, <1>t DEF TrustOK
    <3> QED
      BY <2>7, <3>2, <1>f DEF CleanupEnd
  <2>8. CASE Clear(t) \/ Uncount(t)
    <3>1. TrustOK'
      BY <2>8, <1>c, <1>t DEF Clear, Uncount, TrustOK
    <3> QED
      BY <2>8, <3>1, <1>g DEF Clear, Uncount, Stored
  <2>9. CASE PurgeKernel(t) \/ \E ip \in IPs : Purge(t, ip) \/ UnbanAllKernel(t, ip)
    BY <2>9, <1>c, <1>t DEF PurgeKernel, KernelUnban, Purge, UnbanAllKernel, TrustOK, PassedOK,
       Passed, Protected, TypeOK, Stored
  <2>10. ASSUME NEW ip \in IPs, ListDrop(t, ip) PROVE TrustOK' /\ PassedOK'
    <3>1. TrustOK'
      BY <2>10, <1>c, <1>t DEF ListDrop, TrustOK
    <3>2. PassedOK'
      BY <2>10, <1>f, <1>c, <1>t DEF ListDrop, PassedOK, Passed, Protected
    <3> QED
      BY <3>1, <3>2
  <2> QED
    BY <1>4, <2>2, <2>3, <2>4, <2>5, <2>6, <2>7, <2>8, <2>9, <2>10 DEF Continue
<1>5. ASSUME NEW T \in SUBSET IPs, NEW W \in SUBSET IPs, Reload(T, W)
      PROVE  FALSE
  BY <1>5, <1>t DEF Reload, TypeOK
<1>6. CASE Tick \/ UNCHANGED vars
  BY <1>6, <1>c, <1>t DEF Tick, vars, TrustOK, PassedOK, Passed, Protected, locals
<1> QED
  BY <1>1, <1>2, <1>3, <1>4, <1>5, <1>6 DEF Next, Procs
(* The table's guarded entries: no protected address anywhere.              *)
LEMMA ProtectedStep ==
  reloads = 0 /\ StaticInv /\ ProtectedNeverBanned /\ [Next]_vars => ProtectedNeverBanned'
<1> SUFFICES ASSUME reloads = 0, StaticInv, ProtectedNeverBanned, [Next]_vars, reloads' = 0,
                    NEW ip \in (trustedProxies \cup whitelistIPs)'
             PROVE  banned'[ip] = Absent /\ ip \notin xdp' /\ ip \notin announced'
  BY DEF ProtectedNeverBanned
<1>t. TypeOK /\ ArgOK /\ PassedOK
  BY DEF StaticInv, TypeInv
<1>c. ip \in IPs /\ Protected(ip)
  BY <1>t, HistoryStep DEF config, TypeOK, Protected
<1>h. ip \in IPs /\ banned[ip] = Absent /\ ip \notin xdp /\ ip \notin announced
  BY <1>c DEF ProtectedNeverBanned, Protected
<1>d. ASSUME NEW j \in IPs, Delete(j) PROVE banned'[ip] = Absent
  BY <1>d, <1>h, <1>t DEF Delete, TypeOK
<1>1. ASSUME NEW t \in Threads, NEW j \in IPs,
             \/ \E kind \in BanOps, d \in Durations : BeginBan(t, kind, j, d)
             \/ IsBanned(t, j) \/ BeginUnban(t, j) \/ BeginList(t) \/ BeginUnbanAll(t)
      PROVE  banned'[ip] = Absent /\ ip \notin xdp' /\ ip \notin announced'
  BY <1>1, <1>d, <1>h
     DEF BeginBan, IsBanned, BeginUnban, BeginList, BeginUnbanAll, table
<1>2. ASSUME NEW t \in Procs, Continue(t)
      PROVE  banned'[ip] = Absent /\ ip \notin xdp' /\ ip \notin announced'
  <2>1. CASE Put(t) \/ Renew(t) \/ KernelInsert(t)
    <3>1. pc[t] \in Stored
      BY <2>1 DEF Put, Renew, KernelInsert, KernelBan, Stored
    <3>2. arg[t] # ip
      BY <3>1, <1>c, <1>t DEF PassedOK, Passed
    <3> QED
      BY <2>1, <3>2, <1>h, <1>t DEF Put, Renew, KernelInsert, KernelBan, TypeOK
  <2>2. CASE Drop(t) \/ \E j \in IPs : ListDrop(t, j) \/ Purge(t, j)
    BY <2>2, <1>d, <1>h, <1>t DEF Drop, ListDrop, Purge, ArgOK, HasArg
  <2>3. CASE \/ Guard(t) \/ Enter(t) \/ Count(t) \/ UnbanKernel(t) \/ Clear(t)
             \/ ResetGauge(t) \/ Uncount(t) \/ PurgeKernel(t) \/ CleanupEnd(t)
             \/ \E j \in IPs : UnbanAllKernel(t, j)
    BY <2>3, <1>c, <1>h, <1>t DEF Guard, Enter, Count, UnbanKernel, KernelUnban, Clear, ResetGauge, Uncount,
       PurgeKernel, CleanupEnd, UnbanAllKernel, table, PassedOK, Passed
  <2> QED
    BY <1>2, <2>1, <2>2, <2>3 DEF Continue
<1>3. CASE \/ \E t \in Procs : BeginCleanup(t)
           \/ \E T, W \in SUBSET IPs : Reload(T, W)
           \/ UNCHANGED vars
  BY <1>3, <1>h DEF BeginCleanup, Reload, vars, table
<1>4. CASE Tick
  BY <1>4, <1>h DEF Tick, Absent
<1> QED
  BY <1>1, <1>2, <1>3, <1>4, <1>h DEF Next

(* Until the first reload, whatever the goroutines do, no address that the  *)
(* configuration trusts or whitelists is ever banned.                       *)
THEOREM StaticProtection == Spec => []ProtectedNeverBanned
<1> DEFINE Inv == TypeInv /\ (reloads = 0 => StaticInv) /\ ProtectedNeverBanned
<1>1. Init => Inv
  BY TypeInvInit
     DEF Init, StaticInv, TrustOK, PassedOK, Passed, Stored, ProtectedNeverBanned, Absent
<1>2. Inv /\ [Next]_vars => Inv'
  <2> SUFFICES ASSUME Inv, [Next]_vars PROVE Inv'
    OBVIOUS
  <2>1. TypeInv'
    BY TypeInvNext
  <2>2. CASE reloads' = 0
    <3>1. reloads = 0
      BY <2>2, HistoryStep DEF config, TypeInv
    <3> QED
      BY <2>1, <2>2, <3>1, StaticNext, ProtectedStep
  <2>3. CASE reloads' # 0
    BY <2>1, <2>3 DEF ProtectedNeverBanned
  <2> QED
    BY <2>2, <2>3
<1>3. Inv => ProtectedNeverBanned
  OBVIOUS
<1> QED
  BY <1>1, <1>2, <1>3, PTL DEF Spec
-----------------------------------------------------------------------------
(* Nobody is inside an operation that takes addresses out of the kernel.    *)
NoUnban == \A t \in Procs :
             pc[t] \notin {"unkernel", "clear", "unkernelall", "reset",
                          "purge", "uncount", "purgekernel"}

LEMMA NoUnbanNext == TypeInv /\ NoUnban /\ used' = {} /\ [Next]_vars => NoUnban'
<1> SUFFICES ASSUME TypeOK, NoUnban, used' = {}, [Next]_vars PROVE NoUnban'
  BY DEF TypeInv
<1>f. ASSUME NEW t \in Procs, Finish(t) PROVE NoUnban'
  BY <1>f DEF Finish, NoUnban, TypeOK
<1>g. ASSUME NEW t \in Procs, NEW step \in {"enter", "put", "count", "renew", "kernel"},
             Goto(t, step)
      PROVE  NoUnban'
  BY <1>g DEF Goto, NoUnban, TypeOK
<1>b. ASSUME NEW t \in Procs, NEW kind, NEW ip, NEW step \in {"guard", "enter", "drop", "list"},
             Begin(t, kind, ip, step)
      PROVE  NoUnban'
  BY <1>b DEF Begin, NoUnban, TypeOK
<1>1. ASSUME NEW t \in Threads, NEW ip \in IPs, NEW kind \in BanOps, NEW d \in Durations,
             BeginBan(t, kind, ip, d)
      PROVE  NoUnban'
  BY <1>1, <1>b DEF BeginBan, Procs
<1>2. ASSUME NEW t \in Threads, NEW ip \in IPs, IsBanned(t, ip) PROVE NoUnban'
  BY <1>2, <1>b DEF IsBanned, Procs, NoUnban
<1>3. ASSUME NEW t \in Threads, BeginList(t) PROVE NoUnban'
  BY <1>3, <1>b DEF BeginList, Procs
<1>4. ASSUME NEW t \in Procs,
             \/ \E ip \in IPs : BeginUnban(t, ip)
             \/ BeginUnbanAll(t) \/ BeginCleanup(t)
      PROVE  FALSE
  BY <1>4 DEF BeginUnban, BeginUnbanAll, BeginCleanup, Begin, Removers
<1>5. ASSUME NEW t \in Procs, Continue(t) PROVE NoUnban'
  <2>1. CASE Guard(t) \/ Enter(t) \/ Put(t) \/ Count(t) \/ Renew(t)
    BY <2>1, <1>f, <1>g DEF Guard, Enter, Put, Count, Renew
  <2>2. CASE KernelInsert(t) \/ Drop(t)
    BY <2>2, <1>f DEF KernelInsert, KernelBan, Drop
  <2>3. ASSUME NEW ip \in IPs, ListDrop(t, ip) PROVE NoUnban'
    BY <2>3, <1>f DEF ListDrop, NoUnban
  <2>4. CASE \/ UnbanKernel(t) \/ Clear(t) \/ ResetGauge(t) \/ Uncount(t)
             \/ PurgeKernel(t) \/ CleanupEnd(t)
             \/ \E ip \in IPs : UnbanAllKernel(t, ip) \/ Purge(t, ip)
    BY <2>4 DEF UnbanKernel, KernelUnban, Clear, ResetGauge, Uncount, PurgeKernel, CleanupEnd,
       UnbanAllKernel, Purge, NoUnban
  <2> QED
    BY <1>5, <2>1, <2>2, <2>3, <2>4 DEF Continue
<1>6. CASE \/ \E T, W \in SUBSET IPs : Reload(T, W)
           \/ Tick \/ UNCHANGED vars
  BY <1>6 DEF Reload, Tick, vars, NoUnban
<1> QED
  BY <1>1, <1>2, <1>3, <1>4, <1>5, <1>6 DEF Next, Procs

(* What user space blocks, the NIC drops. *)
Enforced == \A ip \in IPs : banned[ip] # Absent => ip \in xdp \/ Pending(ip)

LEMMA EnforcedStep ==
  StaticInv /\ NoUnban /\ Enforced /\ reloads' = 0 /\ [Next]_vars => Enforced'
<1> SUFFICES ASSUME StaticInv, NoUnban, Enforced, reloads' = 0, [Next]_vars,
                    NEW ip \in IPs, banned'[ip] # Absent
             PROVE  ip \in xdp' \/ Pending(ip)'
  BY DEF Enforced, Pending
<1>t. TypeOK /\ ArgOK /\ PassedOK /\ TrustOK
  BY DEF StaticInv, TypeInv
<1>h. banned[ip] # Absent => ip \in xdp \/ Pending(ip)
  BY DEF Enforced, Pending
<1>d. ASSUME NEW j \in IPs, Delete(j) PROVE banned[ip] # Absent
  BY <1>d, <1>t DEF Delete, TypeOK
<1>k. ASSUME NEW t \in Procs, pc[t] \notin {"count", "renew", "kernel"},
             UNCHANGED xdp, banned[ip] # Absent,
             \A u \in Procs \ {t} : pc'[u] = pc[u] /\ arg'[u] = arg[u]
      PROVE  ip \in xdp' \/ Pending(ip)'
  BY <1>k, <1>h DEF Pending
<1>o. ASSUME NEW t \in Procs,
             \/ Finish(t) \/ \E step : Goto(t, step)
             \/ \E kind, j, step : Begin(t, kind, j, step)
      PROVE  \A u \in Procs \ {t} : pc'[u] = pc[u] /\ arg'[u] = arg[u]
  BY <1>o, <1>t DEF Finish, Goto, Begin, locals, TypeOK
<1>1. ASSUME NEW t \in Threads, NEW j \in IPs,
             \/ \E kind \in BanOps, d \in Durations : BeginBan(t, kind, j, d)
             \/ IsBanned(t, j) /\ pc' # pc
             \/ BeginList(t) \/ BeginUnbanAll(t)
      PROVE  ip \in xdp' \/ Pending(ip)'
  <2>1. t \in Procs /\ pc[t] = "idle" /\ UNCHANGED <<banned, xdp>>
    BY <1>1 DEF BeginBan, IsBanned, BeginList, BeginUnbanAll, Begin, table, Procs
  <2>2. \E kind, k, step : Begin(t, kind, k, step)
    BY <1>1 DEF BeginBan, IsBanned, BeginList, BeginUnbanAll
  <2> QED
    BY <2>1, <2>2, <1>k, <1>o
<1>2. ASSUME NEW t \in Threads, NEW j \in IPs, BeginUnban(t, j)
      PROVE  ip \in xdp' \/ Pending(ip)'
  <2>1. t \in Procs /\ pc[t] = "idle" /\ UNCHANGED xdp /\ banned[ip] # Absent
    BY <1>2, <1>d DEF BeginUnban, Begin, Procs
  <2>2. \E kind, k, step : Begin(t, kind, k, step)
    BY <1>2 DEF BeginUnban
  <2> QED
    BY <2>1, <2>2, <1>k, <1>o
<1>3. ASSUME NEW t \in Procs, BeginCleanup(t)
      PROVE  ip \in xdp' \/ Pending(ip)'
  BY <1>3, <1>k, <1>o DEF BeginCleanup, Begin, table
<1>4. ASSUME NEW t \in Procs, Continue(t)
      PROVE  ip \in xdp' \/ Pending(ip)'
  <2>1. CASE Guard(t) \/ Enter(t)
    <3>1. /\ pc[t] \in {"guard", "enter"} /\ UNCHANGED <<banned, xdp>>
          /\ Finish(t) \/ \E step : Goto(t, step)
      BY <2>1 DEF Guard, Enter, table
    <3> QED
      BY <3>1, <1>k, <1>o
  <2>2. CASE Put(t) \/ Count(t) \/ Renew(t)
    <3>1. /\ UNCHANGED <<arg, xdp>> /\ pc'[t] \in {"count", "renew", "kernel"}
          /\ \A u \in Procs \ {t} : pc'[u] = pc[u]
          /\ ip # arg[t] => banned'[ip] = banned[ip]
      BY <2>2, <1>t DEF Put, Count, Renew, Goto, locals, TypeOK
    <3> QED
      BY <3>1, <1>h DEF Pending
  <2>3. CASE KernelInsert(t)
    <3>1. arg[t] \in IPs /\ arg[t] \notin trustedProxies
      <4>1. pc[t] \in Stored /\ pc[t] \in HasArg
        BY <2>3 DEF KernelInsert, KernelBan, Stored, HasArg
      <4> QED
        BY <4>1, <1>t DEF ArgOK, PassedOK, Passed, Protected
    <3>2. ~isTrustedProxy(arg[t])
      BY <2>3, <3>1, <1>t, HistoryStep, StaticTouch DEF KernelInsert, KernelBan
    <3>3. xdp' = xdp \cup {arg[t]} /\ banned' = banned
      BY <2>3, <3>2 DEF KernelInsert, KernelBan
    <3>4. \A u \in Procs \ {t} : pc'[u] = pc[u] /\ arg'[u] = arg[u]
      BY <2>3, <1>o DEF KernelInsert, KernelBan
    <3> QED
      BY <3>3, <3>4, <1>h DEF Pending
  <2>4. CASE Drop(t) \/ \E j \in IPs : ListDrop(t, j)
    <3>1. /\ pc[t] \in {"drop", "list"} /\ UNCHANGED xdp /\ banned[ip] # Absent
      BY <2>4, <1>d, <1>t DEF Drop, ListDrop, ArgOK, HasArg
    <3>2. \A u \in Procs \ {t} : pc'[u] = pc[u] /\ arg'[u] = arg[u]
      BY <2>4, <1>o DEF Drop, ListDrop
    <3> QED
      BY <3>1, <3>2, <1>k
  <2>5. CASE \/ UnbanKernel(t) \/ Clear(t) \/ ResetGauge(t) \/ Uncount(t)
             \/ PurgeKernel(t) \/ CleanupEnd(t)
             \/ \E j \in IPs : UnbanAllKernel(t, j) \/ Purge(t, j)
    BY <2>5 DEF UnbanKernel, KernelUnban, Clear, ResetGauge, Uncount, PurgeKernel, CleanupEnd,
       UnbanAllKernel, Purge, NoUnban
  <2> QED
    BY <1>4, <2>1, <2>2, <2>3, <2>4, <2>5 DEF Continue
<1>5. CASE \/ \E T, W \in SUBSET IPs : Reload(T, W)
           \/ UNCHANGED vars
           \/ \E t \in Threads, j \in IPs : IsBanned(t, j) /\ pc' = pc
  <2>1. UNCHANGED <<banned, xdp, pc, arg>>
    BY <1>5, <1>t DEF Reload, vars, table, locals, IsBanned, Begin, TypeOK, Procs
  <2> QED
    BY <2>1, <1>h DEF Pending
<1>6. CASE Tick
  <2>1. banned[ip] # Absent /\ UNCHANGED <<xdp, pc, arg>>
    BY <1>6, <1>t DEF Tick, TypeOK, locals, Absent
  <2> QED
    BY <2>1, <1>h DEF Pending
<1> QED
  BY <1>1, <1>2, <1>3, <1>4, <1>5, <1>6 DEF Next, Procs

(* Until something unbans or reloads, an entry of the table is in the       *)
(* kernel map unless a ban of its address is still under way: expired       *)
(* entries that lookups delete and bans that race to renew them included.   *)
THEOREM KernelEnforces == Spec => []EnforcedInKernel
<1> DEFINE KernelInv == TypeInv /\ (reloads = 0 => StaticInv)
                        /\ (reloads = 0 /\ used = {} => NoUnban /\ Enforced)
<1>1. Init => KernelInv
  BY TypeInvInit
     DEF Init, StaticInv, TrustOK, PassedOK, Passed, Stored, NoUnban, Enforced, Absent
<1>2. KernelInv /\ [Next]_vars => KernelInv'
  <2> SUFFICES ASSUME KernelInv, [Next]_vars PROVE KernelInv'
    OBVIOUS
  <2>1. TypeInv'
    BY TypeInvNext
  <2>2. /\ reloads' = 0 => reloads = 0
        /\ used' = {} => used = {}
    BY HistoryStep DEF config, TypeInv
  <2>3. reloads' = 0 => StaticInv'
    BY <2>2, StaticNext
  <2>4. reloads' = 0 /\ used' = {} => NoUnban' /\ Enforced'
    BY <2>2, NoUnbanNext, EnforcedStep
  <2> QED
    BY <2>1, <2>3, <2>4
<1>3. KernelInv => EnforcedInKernel
  BY DEF EnforcedInKernel, Enforced
<1> QED
  BY <1>1, <1>2, <1>3, PTL DEF Spec
-----------------------------------------------------------------------------
(* Nobody is inside an operation that lowers the gauge. *)
NoUncount == \A t \in Procs :
               pc[t] \notin {"clear", "unkernelall", "reset", "purge", "uncount", "purgekernel"}

LEMMA NoUncountNext ==
  TypeInv /\ NoUncount /\ used' \subseteq {"unban"} /\ [Next]_vars => NoUncount'
<1> SUFFICES ASSUME TypeOK, NoUncount, used' \subseteq {"unban"}, [Next]_vars PROVE NoUncount'
  BY DEF TypeInv
<1>f. ASSUME NEW t \in Procs, Finish(t) PROVE NoUncount'
  BY <1>f DEF Finish, NoUncount, TypeOK
<1>g. ASSUME NEW t \in Procs, NEW step \in {"enter", "put", "count", "renew", "kernel"},
             Goto(t, step)
      PROVE  NoUncount'
  BY <1>g DEF Goto, NoUncount, TypeOK
<1>b. ASSUME NEW t \in Procs, NEW kind, NEW ip,
             NEW step \in {"guard", "enter", "drop", "list", "unkernel"},
             Begin(t, kind, ip, step)
      PROVE  NoUncount'
  BY <1>b DEF Begin, NoUncount, TypeOK
<1>1. ASSUME NEW t \in Threads, NEW ip \in IPs, NEW kind \in BanOps, NEW d \in Durations,
             BeginBan(t, kind, ip, d)
      PROVE  NoUncount'
  BY <1>1, <1>b DEF BeginBan, Procs
<1>2. ASSUME NEW t \in Threads, NEW ip \in IPs, IsBanned(t, ip) \/ BeginUnban(t, ip)
      PROVE  NoUncount'
  BY <1>2, <1>b DEF IsBanned, BeginUnban, Procs, NoUncount
<1>3. ASSUME NEW t \in Threads, BeginList(t) PROVE NoUncount'
  BY <1>3, <1>b DEF BeginList, Procs
<1>4. ASSUME NEW t \in Procs, BeginUnbanAll(t) \/ BeginCleanup(t) PROVE FALSE
  BY <1>4 DEF BeginUnbanAll, BeginCleanup, Begin, Removers
<1>5. ASSUME NEW t \in Procs, Continue(t) PROVE NoUncount'
  <2>1. CASE Guard(t) \/ Enter(t) \/ Put(t) \/ Count(t) \/ Renew(t)
    BY <2>1, <1>f, <1>g DEF Guard, Enter, Put, Count, Renew
  <2>2. CASE KernelInsert(t) \/ Drop(t) \/ UnbanKernel(t)
    BY <2>2, <1>f DEF KernelInsert, Drop, UnbanKernel
  <2>3. ASSUME NEW ip \in IPs, ListDrop(t, ip) PROVE NoUncount'
    BY <2>3, <1>f DEF ListDrop, NoUncount
  <2>4. CASE \/ Clear(t) \/ ResetGauge(t) \/ Uncount(t) \/ PurgeKernel(t) \/ CleanupEnd(t)
             \/ \E ip \in IPs : UnbanAllKernel(t, ip) \/ Purge(t, ip)
    BY <2>4 DEF Clear, ResetGauge, Uncount, PurgeKernel, CleanupEnd, UnbanAllKernel, Purge,
       NoUncount
  <2> QED
    BY <1>5, <2>1, <2>2, <2>3, <2>4 DEF Continue
<1>6. CASE \/ \E T, W \in SUBSET IPs : Reload(T, W)
           \/ Tick \/ UNCHANGED vars
  BY <1>6 DEF Reload, Tick, vars, NoUncount
<1> QED
  BY <1>1, <1>2, <1>3, <1>4, <1>5, <1>6 DEF Next, Procs

(* Every address of the table, and every address about to be renewed there  *)
(* (whose entry an unban may just have taken), has been counted, or is      *)
(* about to be.                                                             *)
Known == Keys \cup {ip \in IPs : \E t \in Procs : pc[t] = "renew" /\ arg[t] = ip}
Counting == {t \in Procs : pc[t] = "count"}

Counted ==
  /\ IsFiniteSet(Known) /\ IsFiniteSet(Counting)
  /\ Cardinality(Known) <= bannedIPs + Cardinality(Counting)

(* A step that adds no address and leaves the gauge and its pending         *)
(* increments alone keeps that.                                             *)
LEMMA CountedKept ==
  ASSUME TypeOK, Counted, Known' \subseteq Known, UNCHANGED <<Counting, bannedIPs>>
  PROVE  Counted'
<1>1. IsFiniteSet(Known') /\ Cardinality(Known') <= Cardinality(Known)
  BY FS_Subset DEF Counted
<1>2. /\ Cardinality(Known) \in Nat /\ Cardinality(Known') \in Nat
      /\ Cardinality(Counting) \in Nat /\ bannedIPs \in Int
  BY <1>1, FS_CardinalityType DEF Counted, TypeOK
<1>3. Counting' = Counting /\ bannedIPs' = bannedIPs
  OBVIOUS
<1> QED
  BY <1>1, <1>2, <1>3 DEF Counted

LEMMA CountedPut ==
  ASSUME TypeInv, Counted, NEW t \in Procs, Put(t)
  PROVE  Counted'
<1> USE DEF TypeInv
<1>1. CASE banned[arg[t]] = Absent
  <2>1. /\ banned' = [banned EXCEPT ![arg[t]] = dur[t]] /\ pc[t] = "put"
        /\ pc' = [pc EXCEPT ![t] = "count"] /\ arg' = arg /\ bannedIPs' = bannedIPs
    BY <1>1 DEF Put, Goto, locals
  <2>2. Known' \subseteq Known \cup {arg[t]}
    BY <2>1 DEF Known, Keys, TypeOK
  <2>3. Counting' = Counting \cup {t} /\ t \notin Counting
    BY <2>1 DEF Counting, TypeOK
  <2>4. /\ IsFiniteSet(Known \cup {arg[t]})
        /\ Cardinality(Known \cup {arg[t]}) <= Cardinality(Known) + 1
    <3>1. IsFiniteSet(Known) /\ Cardinality(Known) \in Nat
      BY FS_CardinalityType DEF Counted
    <3>2. CASE arg[t] \in Known
      <4>1. Known \cup {arg[t]} = Known
        BY <3>2
      <4> QED
        BY <3>1, <4>1
    <3>3. CASE arg[t] \notin Known
      BY <3>1, <3>3, FS_AddElement
    <3> QED
      BY <3>2, <3>3
  <2>5. IsFiniteSet(Known') /\ Cardinality(Known') <= Cardinality(Known \cup {arg[t]})
    BY <2>2, <2>4, FS_Subset
  <2>6. IsFiniteSet(Counting') /\ Cardinality(Counting') = Cardinality(Counting) + 1
    BY <2>3, FS_AddElement DEF Counted
  <2>7. /\ Cardinality(Known) \in Nat /\ Cardinality(Known') \in Nat
        /\ Cardinality(Known \cup {arg[t]}) \in Nat
        /\ Cardinality(Counting) \in Nat /\ bannedIPs \in Int
    BY <2>4, <2>5, FS_CardinalityType DEF Counted, TypeOK
  <2>8. Cardinality(Known) <= bannedIPs + Cardinality(Counting)
    BY DEF Counted
  <2>9. Cardinality(Known') <= bannedIPs' + Cardinality(Counting')
    BY <2>1, <2>4, <2>5, <2>6, <2>7, <2>8
  <2> QED
    BY <2>5, <2>6, <2>9 DEF Counted
<1>2. CASE banned[arg[t]] # Absent
  <2>1. /\ pc[t] = "put" /\ pc' = [pc EXCEPT ![t] = "renew"]
        /\ arg' = arg /\ bannedIPs' = bannedIPs /\ banned' = banned
    BY <1>2 DEF Put, Goto, locals
  <2>2. Known' \subseteq Known
    BY <2>1, <1>2 DEF Known, Keys, TypeOK
  <2>3. Counting' = Counting
    BY <2>1 DEF Counting, TypeOK
  <2> QED
    BY <2>1, <2>2, <2>3, CountedKept
<1> QED
  BY <1>1, <1>2

LEMMA CountedCount ==
  ASSUME TypeInv, Counted, NEW t \in Procs, Count(t)
  PROVE  Counted'
<1> USE DEF TypeInv
<1>1. /\ banned' = banned /\ pc[t] = "count" /\ pc' = [pc EXCEPT ![t] = "kernel"]
      /\ arg' = arg /\ bannedIPs' = bannedIPs + 1
  BY DEF Count, Goto, locals
<1>2. Known' = Known
  BY <1>1 DEF Known, Keys, TypeOK
<1>3. Counting' = Counting \ {t} /\ t \in Counting
  BY <1>1 DEF Counting, TypeOK
<1>4. IsFiniteSet(Counting') /\ Cardinality(Counting') = Cardinality(Counting) - 1
  BY <1>3, FS_RemoveElement DEF Counted
<1>5. /\ Cardinality(Known) \in Nat /\ Cardinality(Counting) \in Nat /\ bannedIPs \in Int
  BY FS_CardinalityType DEF Counted, TypeOK
<1>6. Cardinality(Known) <= bannedIPs' + Cardinality(Counting')
  BY <1>1, <1>4, <1>5 DEF Counted
<1> QED
  BY <1>2, <1>4, <1>6 DEF Counted

LEMMA CountedNext ==
  TypeInv /\ NoUncount /\ Counted /\ used' \subseteq {"unban"} /\ [Next]_vars => Counted'
<1> SUFFICES ASSUME TypeInv, NoUncount, Counted, used' \subseteq {"unban"}, [Next]_vars
             PROVE  Counted'
  OBVIOUS
<1>t. TypeOK /\ ArgOK
  BY DEF TypeInv
<1>k. ASSUME NEW t \in Procs, pc[t] \notin {"count", "renew"},
             pc'[t] \notin {"count", "renew"},
             \A u \in Procs \ {t} : pc'[u] = pc[u] /\ arg'[u] = arg[u],
             Keys' \subseteq Keys, UNCHANGED bannedIPs
      PROVE  Counted'
  <2>1. Known' \subseteq Known /\ Counting' = Counting
    BY <1>k DEF Known, Counting
  <2> QED
    BY <1>k, <1>t, <2>1, CountedKept
<1>o. ASSUME NEW t \in Procs,
             \/ Finish(t)
             \/ \E step \in {"enter", "put"} : Goto(t, step)
             \/ \E step \in {"guard", "enter", "drop", "list", "unkernel"}, kind \in Ops :
                  \E j : Begin(t, kind, j, step)
      PROVE  /\ pc'[t] \notin {"count", "renew"}
             /\ \A u \in Procs \ {t} : pc'[u] = pc[u] /\ arg'[u] = arg[u]
  BY <1>o, <1>t DEF Finish, Goto, Begin, locals, TypeOK
<1>d. ASSUME NEW j \in IPs, Delete(j) PROVE Keys' \subseteq Keys
  BY <1>d, <1>t DEF Delete, Keys, TypeOK
<1>e. ASSUME banned' = banned PROVE Keys' = Keys
  BY <1>e DEF Keys
<1>1. ASSUME NEW t \in Threads, NEW j \in IPs,
             \/ \E kind \in BanOps, d \in Durations : BeginBan(t, kind, j, d)
             \/ IsBanned(t, j) /\ pc' # pc
             \/ BeginUnban(t, j) \/ BeginList(t)
      PROVE  Counted'
  <2>1. t \in Procs /\ pc[t] = "idle" /\ UNCHANGED bannedIPs
    BY <1>1 DEF BeginBan, IsBanned, BeginUnban, BeginList, Begin, table, Procs
  <2>2. \E step \in {"guard", "enter", "drop", "list", "unkernel"}, kind \in Ops :
          \E k : Begin(t, kind, k, step)
    BY <1>1 DEF BeginBan, IsBanned, BeginUnban, BeginList, Begin, locals
  <2>3. Keys' \subseteq Keys
    BY <1>1, <1>d, <1>e DEF BeginBan, IsBanned, BeginUnban, BeginList, table
  <2> QED
    BY <2>1, <2>2, <2>3, <1>k, <1>o
<1>2. ASSUME NEW t \in Procs, BeginUnbanAll(t) \/ BeginCleanup(t) PROVE FALSE
  BY <1>2 DEF BeginUnbanAll, BeginCleanup, Begin, Removers
<1>3. ASSUME NEW t \in Procs, Continue(t) PROVE Counted'
  <2>1. CASE Guard(t) \/ Enter(t) \/ KernelInsert(t) \/ UnbanKernel(t)
    <3>1. /\ pc[t] \in {"guard", "enter", "kernel", "unkernel"}
          /\ UNCHANGED <<banned, bannedIPs>>
          /\ Finish(t) \/ \E step \in {"enter", "put"} : Goto(t, step)
      BY <2>1 DEF Guard, Enter, KernelInsert, UnbanKernel, table
    <3> QED
      BY <3>1, <1>e, <1>k, <1>o
  <2>2. CASE Put(t) \/ Count(t)
    BY <2>2, CountedPut, CountedCount
  <2>3. CASE Renew(t)
    <3>1. /\ banned' = [banned EXCEPT ![arg[t]] = dur[t]] /\ pc[t] = "renew"
          /\ pc' = [pc EXCEPT ![t] = "kernel"] /\ UNCHANGED <<arg, bannedIPs>>
      BY <2>3 DEF Renew, Goto, locals
    <3>2. Known' \subseteq Known /\ Counting' = Counting
      BY <3>1, <1>t DEF Known, Keys, Counting, TypeOK
    <3> QED
      BY <3>1, <3>2, <1>t, CountedKept
  <2>4. CASE Drop(t)
    <3>1. pc[t] = "drop" /\ Finish(t) /\ UNCHANGED bannedIPs /\ Delete(arg[t])
      BY <2>4 DEF Drop
    <3>2. arg[t] \in IPs
      BY <3>1, <1>t DEF ArgOK, HasArg
    <3> QED
      BY <3>1, <3>2, <1>d, <1>k, <1>o
  <2>5. ASSUME NEW j \in IPs, ListDrop(t, j) PROVE Counted'
    <3>1. /\ pc[t] = "list" /\ UNCHANGED bannedIPs /\ Delete(j)
          /\ Finish(t) \/ UNCHANGED <<pc, arg>>
      BY <2>5 DEF ListDrop
    <3>2. /\ pc'[t] \notin {"count", "renew"}
          /\ \A u \in Procs \ {t} : pc'[u] = pc[u] /\ arg'[u] = arg[u]
      BY <3>1, <1>o
    <3> QED
      BY <3>1, <3>2, <1>d, <1>k
  <2>6. CASE \/ Clear(t) \/ ResetGauge(t) \/ Uncount(t) \/ PurgeKernel(t) \/ CleanupEnd(t)
             \/ \E j \in IPs : UnbanAllKernel(t, j) \/ Purge(t, j)
    BY <2>6 DEF Clear, ResetGauge, Uncount, PurgeKernel, CleanupEnd, UnbanAllKernel, Purge,
       NoUncount
  <2> QED
    BY <1>3, <2>1, <2>2, <2>3, <2>4, <2>5, <2>6 DEF Continue
<1>4. CASE \/ \E T, W \in SUBSET IPs : Reload(T, W)
           \/ UNCHANGED vars
           \/ \E t \in Threads, j \in IPs : IsBanned(t, j) /\ pc' = pc
  <2>1. UNCHANGED <<banned, bannedIPs, pc, arg>>
    BY <1>4, <1>t DEF Reload, vars, table, locals, IsBanned, Begin, TypeOK, Procs
  <2>2. Known' = Known /\ Counting' = Counting
    BY <2>1 DEF Known, Keys, Counting
  <2> QED
    BY <2>1, <2>2, <1>t, CountedKept
<1>5. CASE Tick
  <2>1. UNCHANGED <<bannedIPs, pc, arg>> /\ Keys' = Keys
    BY <1>5, <1>t DEF Tick, TypeOK, locals, Absent, Keys
  <2>2. Known' = Known /\ Counting' = Counting
    BY <2>1 DEF Known, Counting
  <2> QED
    BY <2>1, <2>2, <1>t, CountedKept
<1>6. ASSUME NEW t \in Threads, NEW j \in IPs, IsBanned(t, j) PROVE Counted'
  BY <1>1, <1>4, <1>6
<1>7. ASSUME NEW t \in Threads, BeginList(t) PROVE Counted'
  <2>1. PICK j \in IPs : TRUE
    BY <1>7 DEF BeginList, ExpiredKeys
  <2> QED
    BY <1>1, <1>7, <2>1
<1> QED
  BY <1>1, <1>2, <1>3, <1>4, <1>5, <1>6, <1>7 DEF Next, Procs

(* When nothing is in flight, the gauge covers the table until UnbanAllIPs  *)
(* resets it or the cleanup worker lowers it, however bans, unbans, lookups *)
(* and listings of any number of addresses interleaved before.              *)
THEOREM GaugeCovers == Spec => []GaugeCoversTable
<1> DEFINE GaugeInv == TypeInv /\ (used \subseteq {"unban"} => NoUncount /\ Counted)
<1>1. Init => GaugeInv
  <2> SUFFICES ASSUME Init PROVE GaugeInv
    OBVIOUS
  <2>1. NoUncount
    BY DEF Init, NoUncount
  <2>2. Known = {} /\ Counting = {} /\ bannedIPs = 0
    BY DEF Init, Known, Keys, Counting, Absent
  <2>3. Counted
    BY <2>2, FS_EmptySet DEF Counted
  <2> QED
    BY <2>1, <2>3, TypeInvInit
<1>2. GaugeInv /\ [Next]_vars => GaugeInv'
  <2> SUFFICES ASSUME GaugeInv, [Next]_vars PROVE GaugeInv'
    OBVIOUS
  <2>1. TypeInv'
    BY TypeInvNext
  <2>2. used' \subseteq {"unban"} => used \subseteq {"unban"}
    BY HistoryStep DEF TypeInv
  <2>3. used' \subseteq {"unban"} => NoUncount' /\ Counted'
    BY <2>2, NoUncountNext, CountedNext
  <2> QED
    BY <2>1, <2>3
<1>3. GaugeInv => GaugeCoversTable
  <2> SUFFICES ASSUME GaugeInv, used \subseteq {"unban"}, AllIdle
               PROVE  bannedIPs >= Cardinality(Keys)
    BY DEF GaugeCoversTable
  <2>1. Counting = {} /\ Known = Keys
    BY DEF AllIdle, Active, Counting, Known
  <2>2. Cardinality(Keys) \in Nat /\ Cardinality(Counting) = 0 /\ bannedIPs \in Int
    BY <2>1, FS_EmptySet, FS_CardinalityType DEF Counted, TypeInv, TypeOK
  <2> QED
    BY <2>1, <2>2 DEF Counted
<1> QED
  BY <1>1, <1>2, <1>3, PTL DEF Spec
===============================================================================
