---------------------------- MODULE RequestPipeline ----------------------------
(***************************************************************************)
(* What happens to a request: Shield.handleRequest (core/server.go) takes  *)
(* challenge answers and proven visitors first, asks the pipeline for a    *)
(* verdict (core/pipeline.go, ProcessWithFingerprint) and carries it out.  *)
(*                                                                         *)
(* Requests run in goroutines of their own.  A request reads the shared    *)
(* state when it arrives, when it is judged and when its verdict is        *)
(* carried out, and other requests run in between.  What a layer finds in  *)
(* the request itself (a WAF match, a fingerprint, a flood) is left open:  *)
(* any layer that the shared state lets decide may decide.                 *)
(*                                                                         *)
(* How long a ban lasts is left open here (BanPipeline has the durations).  *)
(*                                                                         *)
(* A proof of a visitor, a cookie or an entry of verifiedIPs, is modelled  *)
(* by its grounds: what the visitor got it for.  The program does not keep *)
(* them; they tell the proofs apart in the property.                       *)
(***************************************************************************)
EXTENDS Integers

CONSTANTS
  IPs, Gs,           \* client addresses, request goroutines
  Trusted,           \* addresses in TrustedProxies
  Modes,             \* protection modes to choose from
  Kernel,            \* TRUE: the kernel drops what banned addresses send
  HitCap             \* bound of the page counters: larger values act alike

ASSUME PipelineAssumption ==
  /\ Trusted \subseteq IPs
  /\ Kernel \in BOOLEAN
  /\ HitCap \in Nat /\ HitCap > 2

VARIABLES
  mode,       \* protection mode of the domain
  whitelisted, \* WhitelistIPs
  attack,     \* domainUnderAttack
  banned,     \* the banned addresses
  verified,   \* verifiedIPs: the grounds of an address, "none" if not verified
  cookies,    \* the signed cookies that have been given out and are valid
  fails,      \* challengeFails
  hits,       \* ActiveConns of the IPState of ip + "_ch", the same for all
  pc,         \* what each goroutine is doing
  pages       \* history: challenge pages an address got since it last solved one

config == <<mode, whitelisted>>
visitors == <<verified, cookies>>
vars == <<config, attack, banned, visitors, fails, hits, pc, pages>>

(* The layers in their order: the verdict, and whether the layer bans.       *)
Layer(name, type, bans) == [name |-> name, type |-> type, bans |-> bans]
Layers == <<
  Layer("waf", "block", TRUE),
  Layer("static_asset", "allow", FALSE),
  Layer("emergency_mode", "block", FALSE),
  Layer("conn_limit", "block", TRUE),
  Layer("invalid_request", "block", FALSE),
  Layer("attack_tool_ja3", "drop", TRUE),
  Layer("fp_malicious", "block", TRUE),
  Layer("fp_trusted", "allow", FALSE),
  Layer("intel", "block", TRUE),
  Layer("ddos_flood_xdp", "drop", TRUE),
  Layer("rate_limited", "drop", TRUE),
  Layer("whitelisted", "allow", FALSE),
  Layer("behavior_ddos", "block", TRUE),
  Layer("bot_critical", "drop", TRUE),
  Layer("bot_suspicious", "challenge", FALSE),
  Layer("det_rate_limited", "drop", TRUE),
  Layer("auto_l7_drop", "drop", TRUE),
  Layer("stage", "challenge", FALSE),
  Layer("clean", "allow", FALSE) >>
Names == {Layers[i].name : i \in DOMAIN Layers} \cup {"banned"}

(* A right answer, an allowed request of a time when the domain was not      *)
(* guarded, or else the layer that allowed a request.                        *)
Grounds == {"answer", "calm"} \cup Names

Idle == [at |-> "idle"]
Types == {"allow", "challenge", "block", "drop"}

(* A request at its stations; calm: at some moment of its life the domain    *)
(* was not guarded (below).                                                  *)
Request ==
  [at: {"arrived"}, ip: IPs, calm: BOOLEAN, carries: Grounds \cup {"none"}]
  \cup [at: {"failing"}, ip: IPs, calm: BOOLEAN, carries: Grounds \cup {"none"}, seen: 0..2]
  \cup [at: {"judging"}, ip: IPs, calm: BOOLEAN, attacked: BOOLEAN]
  \cup [at: {"executing"}, ip: IPs, calm: BOOLEAN, type: {"allow"}, grounds: Grounds]
  \cup [at: {"executing"}, ip: IPs, calm: BOOLEAN, type: Types \ {"allow"}, grounds: {"none"}]
  \cup [at: {"passing"}, ip: IPs, calm: BOOLEAN, grounds: Grounds]

TypeOK ==
  /\ mode \in Modes /\ whitelisted \subseteq IPs /\ attack \in BOOLEAN
  /\ banned \subseteq IPs
  /\ verified \in [IPs -> Grounds \cup {"none"}] /\ cookies \subseteq Grounds
  /\ fails \in [IPs -> 0..2] /\ hits \in 0..HitCap
  /\ pc \in [Gs -> Request \cup {Idle}]
  /\ pages \in [IPs -> 0..HitCap]

Init ==
  /\ mode \in Modes /\ whitelisted \in SUBSET IPs /\ attack = FALSE
  /\ banned = {}
  /\ verified = [ip \in IPs |-> "none"] /\ cookies = {}
  /\ fails = [ip \in IPs |-> 0] /\ hits = 0
  /\ pc = [g \in Gs |-> Idle]
  /\ pages = [ip \in IPs |-> 0]
-----------------------------------------------------------------------------
Exempt(ip) == ip \in Trusted \cup whitelisted

BanIPLocal(ip) == banned' = IF Exempt(ip) THEN banned ELSE banned \cup {ip}

UnderAttack(a) == a \/ mode \in {"under_attack", "emergency", "challenge", "captcha"}
IsDomainUnderAttack == UnderAttack(attack)

(* While the domain is guarded, only proven visitors should reach it.        *)
StrictModes == {"silent", "challenge", "captcha", "emergency", "under_attack"}
GuardedWhen(a) == mode \in StrictModes \/ (mode = "auto" /\ a)
Guarded == GuardedWhen(attack)

Verified(ip) == verified[ip] # "none"
hasValidProof(ip, carries) == Verified(ip) \/ carries \in cookies

(* The signature of a cookie covers what is in it, and the address in it is  *)
(* not compared: whoever carries a cookie may use it.  What comes under the  *)
(* name mango_proof makes its address verified, mango_session does not.      *)
VerifyProof(ip, carries) ==
  \/ verified' = verified
  \/ ~Verified(ip) /\ verified' = [verified EXCEPT ![ip] = carries]

Increment(n, cap) == IF n < cap THEN n + 1 ELSE cap
Goto(g, station) == pc' = [pc EXCEPT ![g] = station]
-----------------------------------------------------------------------------
(* A request comes, with a cookie of anybody or without one. *)
Arrive(g, ip, carries) ==
  /\ pc[g] = Idle
  /\ Kernel => ip \notin banned
  /\ carries \in cookies \cup {"none"}
  /\ Goto(g, [at |-> "arrived", ip |-> ip, calm |-> ~Guarded, carries |-> carries])
  /\ UNCHANGED <<config, attack, banned, visitors, fails, hits, pages>>

(* A posted answer that is right: OnVerifySuccess, and back to the page. The *)
(* answer names its own question, so nobody needs a page to give one.        *)
Solve(g, ip) ==
  /\ pc[g] = Idle
  /\ Kernel => ip \notin banned
  /\ verified' = [verified EXCEPT ![ip] = "answer"]
  /\ cookies' = cookies \cup {"answer"}
  /\ fails' = [fails EXCEPT ![ip] = 0]
  /\ banned' = banned \ {ip}
  /\ pages' = [pages EXCEPT ![ip] = 0]
  /\ UNCHANGED <<config, attack, hits, pc>>

(* A request with a wrong answer: OnVerifyFailed loads the number of failures *)
FailLoad(g, ip, carries) ==
  /\ pc[g] = Idle
  /\ Kernel => ip \notin banned
  /\ carries \in cookies \cup {"none"}
  /\ Goto(g, [at |-> "failing", ip |-> ip, calm |-> ~Guarded, carries |-> carries,
              seen |-> fails[ip]])
  /\ UNCHANGED <<config, attack, banned, visitors, fails, hits, pages>>

(* ... and stores one more, or bans; then the request goes on as any other. *)
FailedLate(seen) == seen + 1 > 3        \* mutant of Failed
Failed(seen)     == seen + 1 >= 3

FailStore(g) ==
  LET r == pc[g] IN
  /\ r.at = "failing"
  /\ IF Failed(r.seen)
     THEN /\ BanIPLocal(r.ip)
          /\ fails' = [fails EXCEPT ![r.ip] = 0]
     ELSE /\ fails' = [fails EXCEPT ![r.ip] = r.seen + 1]
          /\ UNCHANGED banned
  /\ Goto(g, [at |-> "arrived", ip |-> r.ip, calm |-> r.calm, carries |-> r.carries])
  /\ UNCHANGED <<config, attack, visitors, hits, pages>>
-----------------------------------------------------------------------------
(* The fast path of proven visitors: rate limited, perhaps banned for an     *)
(* hour, refused by the WAF or let through.                                  *)
FastPath(g) ==
  LET r == pc[g]
      grounds == IF Verified(r.ip) THEN verified[r.ip] ELSE r.carries
  IN
  /\ r.at = "arrived"
  /\ hasValidProof(r.ip, r.carries)
  /\ VerifyProof(r.ip, r.carries)
  /\ \/ Goto(g, Idle) /\ (BanIPLocal(r.ip) \/ UNCHANGED banned)
     \/ /\ Goto(g, [at |-> "passing", ip |-> r.ip, calm |-> r.calm, grounds |-> grounds])
        /\ UNCHANGED banned
  /\ UNCHANGED <<config, attack, cookies, fails, hits, pages>>

Verdict(g, type, why) ==
  LET r == pc[g] IN
  Goto(g, [at |-> "executing", ip |-> r.ip, calm |-> r.calm, type |-> type,
           grounds |-> IF type # "allow" THEN "none"
                       ELSE IF Verified(r.ip) THEN verified[r.ip] ELSE why])

(* Layer 0, and the attack state that the later layers will use. *)
CheckBanned(g) ==
  LET r == pc[g] IN
  /\ r.at = "arrived"
  /\ ~hasValidProof(r.ip, r.carries)
  /\ IF r.ip \in banned
     THEN Verdict(g, "drop", "banned")
     ELSE Goto(g, [at |-> "judging", ip |-> r.ip, calm |-> r.calm,
                   attacked |-> IsDomainUnderAttack])
  /\ UNCHANGED <<config, attack, banned, visitors, fails, hits, pages>>

(* determineStageWithFP: the stages a request may be given. *)
Stages(r) ==
  CASE mode \notin StrictModes \cup {"auto"} -> {0}
    [] Verified(r.ip) -> {0}
    [] mode = "silent" -> {3}
    [] mode = "challenge" -> {1}
    [] mode \in {"captcha", "under_attack"} -> {2}
    [] mode = "emergency" -> {4}
    [] OTHER -> IF r.attacked THEN {1, 2, 4} ELSE {0, 1, 2, 4}

(* The fast track of trusted fingerprints looks at the attack state again.   *)
FastTrackOld(r) == ~UnderAttack(FALSE) /\ mode \in {"off", "auto", "monitor"}  \* mutant
FastTrack(r)    == ~IsDomainUnderAttack /\ mode \in {"off", "auto", "monitor"}

(* Which layers may decide a request that reaches them, and which always do. *)
MayDecide(name, r) ==
  CASE name = "emergency_mode" -> r.attacked /\ r.ip \notin whitelisted /\ mode = "emergency"
    [] name = "fp_trusted" -> FastTrack(r)
    [] name = "ddos_flood_xdp" -> r.ip \notin whitelisted
    [] name = "whitelisted" -> r.ip \in whitelisted
    [] name \in {"bot_suspicious", "det_rate_limited"} -> ~Verified(r.ip)
    [] name = "auto_l7_drop" -> 4 \in Stages(r)
    [] name = "stage" -> Stages(r) \cap {1, 2, 3} # {}
    [] name = "clean" -> 0 \in Stages(r)
    [] OTHER -> TRUE

AlwaysDecide == {"emergency_mode", "whitelisted"}

Reaches(r, i) ==
  \A j \in 1..i - 1 : Layers[j].name \in AlwaysDecide => ~MayDecide(Layers[j].name, r)

Judge(g) ==
  LET r == pc[g] IN
  /\ r.at = "judging"
  /\ \E i \in DOMAIN Layers :
       LET layer == Layers[i] IN
       /\ Reaches(r, i) /\ MayDecide(layer.name, r)
       /\ IF layer.bans THEN BanIPLocal(r.ip) ELSE UNCHANGED banned
       /\ Verdict(g, layer.type, layer.name)
  /\ UNCHANGED <<config, attack, visitors, fails, hits, pages>>
-----------------------------------------------------------------------------
(* Carrying out the verdict. *)
(* Allowed, with a session cookie for whoever has no proof (by now).         *)
Allow(g) ==
  LET r == pc[g] IN
  /\ r.at = "executing" /\ r.type = "allow"
  /\ cookies' = IF Verified(r.ip) THEN cookies
                ELSE cookies \cup {IF r.calm THEN "calm" ELSE r.grounds}
  /\ Goto(g, [at |-> "passing", ip |-> r.ip, calm |-> r.calm, grounds |-> r.grounds])
  /\ UNCHANGED <<config, attack, banned, verified, fails, hits, pages>>

(* Served from the cache or by an upstream. *)
Forward(g) ==
  /\ pc[g].at = "passing"
  /\ Goto(g, Idle)
  /\ UNCHANGED <<config, attack, banned, visitors, fails, hits, pages>>

TooManyPagesLate(n) == n > 3       \* mutant of TooManyPages
TooManyPages(n) == n > 2

Challenge(g) ==
  LET ip == pc[g].ip IN
  /\ pc[g].at = "executing" /\ pc[g].type = "challenge"
  /\ IF Exempt(ip) THEN UNCHANGED <<hits, banned>>
     ELSE /\ hits' = Increment(hits, HitCap)
          /\ IF TooManyPages(hits') THEN BanIPLocal(ip) ELSE UNCHANGED banned
  /\ pages' = [pages EXCEPT ![ip] = Increment(@, HitCap)]
  /\ Goto(g, Idle)
  /\ UNCHANGED <<config, attack, visitors, fails>>

Refuse(g) ==
  /\ pc[g].at = "executing" /\ pc[g].type \in {"block", "drop"}
  /\ BanIPLocal(pc[g].ip)
  /\ Goto(g, Idle)
  /\ UNCHANGED <<config, attack, visitors, fails, hits, pages>>
-----------------------------------------------------------------------------
(* Around the requests: an attack begins or ends, bans and proofs run out,   *)
(* and the counter of pages is forgotten after ten idle minutes.             *)
Live(r) == r # Idle
AttackChange ==
  /\ attack' = ~attack
  /\ pc' = [g \in Gs |-> IF Live(pc[g]) /\ ~GuardedWhen(~attack)
                         THEN [pc[g] EXCEPT !.calm = TRUE] ELSE pc[g]]
  /\ UNCHANGED <<config, banned, visitors, fails, hits, pages>>

Lapse(ip) ==
  /\ ip \in banned /\ banned' = banned \ {ip}
  /\ UNCHANGED <<config, attack, visitors, fails, hits, pc, pages>>

Forget(ip) ==
  /\ Verified(ip) /\ verified' = [verified EXCEPT ![ip] = "none"]
  /\ UNCHANGED <<config, attack, banned, cookies, fails, hits, pc, pages>>

Expire(c) ==
  /\ cookies' = cookies \ {c}
  /\ UNCHANGED <<config, attack, banned, verified, fails, hits, pc, pages>>

CleanupStates ==
  /\ \A g \in Gs : pc[g] = Idle
  /\ hits' = 0 /\ pages' = [ip \in IPs |-> 0]
  /\ UNCHANGED <<config, attack, banned, visitors, fails, pc>>

Next ==
  \/ \E g \in Gs, ip \in IPs :
       \/ \E c \in cookies \cup {"none"} : Arrive(g, ip, c) \/ FailLoad(g, ip, c)
       \/ Solve(g, ip)
  \/ \E g \in Gs : \/ FailStore(g) \/ FastPath(g) \/ CheckBanned(g) \/ Judge(g)
                   \/ Allow(g) \/ Forward(g) \/ Challenge(g) \/ Refuse(g)
  \/ AttackChange \/ CleanupStates
  \/ \E ip \in IPs : Lapse(ip) \/ Forget(ip)
  \/ \E c \in cookies : Expire(c)

Spec == Init /\ [][Next]_vars
-----------------------------------------------------------------------------
(* Whoever gets through while the domain is guarded has earned it: a request *)
(* that finds the domain guarded all along passes, on the fast path or by a  *)
(* verdict, for a static asset, for a whitelisted address, or on a proof,    *)
(* and every proof goes back to a right answer, to a request of a time when  *)
(* the domain was not guarded, to a static asset or to a whitelisted one,    *)
(* through however many requests of however many addresses it was handed on. *)
Earned == {"answer", "calm", "static_asset", "whitelisted"}
OnlyEarnedPass ==
  \A g \in Gs : pc[g].at = "passing" /\ ~pc[g].calm => pc[g].grounds \in Earned

(* Whitelisted addresses are neither banned nor asked to prove themselves.  *)
WhitelistedUnharmed ==
  /\ whitelisted \cap banned = {}
  /\ \A g \in Gs : pc[g].at = "executing" /\ pc[g].type = "challenge" => pc[g].ip \notin whitelisted

(* Whoever is shown a third challenge page without solving one is banned,   *)
(* however many goroutines serve the pages.                                  *)
NonSolversBanned ==
  [][\A g \in Gs : LET ip == pc[g].ip IN
       Challenge(g) /\ ~Exempt(ip) /\ pages'[ip] > 2 => ip \in banned']_vars
=============================================================================
