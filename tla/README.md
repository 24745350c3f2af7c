# Mango Shield in TLA+

Mango Shield is a layer-7 DDoS shield written in Go: a reverse proxy that puts
every HTTP request through a pipeline of detectors, bans addresses in user
space and in the kernel (XDP), shares bans with its peers over a gossip mesh
and with Cloudflare, and is configured by a YAML file that a dashboard may
rewrite while it runs. This directory holds TLA+ models of the parts that
carry state, TLC configurations that check them on small instances, and
theorems about them checked by TLAPS.

Line numbers below are those of the repository at the modelled commit.

## 1. Inventory

### Components, their state and operations

| component | source | state | operations |
|---|---|---|---|
| Ban table | `core/pipeline.go` 860-1131, `core/sharded_map.go`, `core/xdp.go` | `banned` (IP to expiry, 256 locked shards), XDP blacklist map, `stats.BannedIPs`, per-IP cached trust | `BanIPLocal`, `BanIPRemote`, `banIP`, `isBanned`, `GetBannedIPsList`, `UnbanIP`, `UnbanAllIPs`, `Cleanup` |
| Request pipeline | `core/pipeline.go` 313-850, `core/server.go` 661-965 | `IPState` per IP (windows, hit counters, trust score, sessions), dynamic whitelist, protection stage | `ProcessWithFingerprint`, `determineStageWithFP`, `updateRPS`, `CheckConnRate`, `handleRequest` |
| Connection tracker | `core/server.go` 455-506, `core/pipeline.go` 837-857 | connections per IP and in total | `ConnState` callback (new, closed, hijacked) |
| Mesh | `cluster/gossip.go`, wiring in `main.go` 202-219 | peer list, broadcast queue, peer domain metrics | `BroadcastBan`, `BroadcastUnban`, `BroadcastAlert`, `BroadcastDomainMetric`, `NotifyMsg`, `GetPeerDomainMetrics`, `IsLeader` |
| Attack detector | `core/server.go` 611-658, 994-1111 | per-domain attack state, RPS counters, peak values | `rpsCounter`, `attackDetector`, `IsDomainUnderAttack`, `Stop` |
| Alerts | `core/alerts.go` | last-sent times, silence, queue of 1000, workers | `canSend`, `SendDomainAttackStart`/`End`, `RemoteSilence`, `sendAllRich` |
| Challenge | `challenge/` | used proofs, cookies, failure counters | `VerifyProof`, `HandleVerification`, `SetProofCookie`, `ClearCache` |
| Behaviour rate limiter | `detection/detection.go` | tokens, penalty, violations per IP | `CheckRateLimit`, `UpdateConfig`, `CleanupSessions` |
| Behaviour and classifier | `detection/behavior.go`, `detection/classifier.go` | profile per IP, classification kept per IP | `Analyze`, `Classify`, cleanup |
| Token buckets, degrader | `perf/pool.go`, `perf/hardening.go` | tokens per IP, degradation levels | `Allow`, `SetRate`, `Cleanup`, `IsFeatureDisabled` |
| Configuration | `config/config.go`, `config/center.go` | `global`, main file, revisions, index, hooks | `Load`, `SaveYAML`, `UpdateConfig`, `RestoreRevision`, backups, SIGHUP |
| Hot reload | `core/server.go` 232-291 | the pointers every component reads | `ReloadConfig` |
| Upstreams | `core/upstream.go`, `core/proxy.go` | backends, health, connection counts, proxy cache | `UpdateDomains`, `GetNext`, `Release`, health checks |
| Cloudflare sync | `core/cloudflare.go`, `main.go` 169 | ban and unban queues (1000), remote rules | two workers, `processBan`, `processUnban`, `cleanExpiredRules` |
| Traffic log | `core/logstore.go` | ring of events, channel to the worker | `RecordEvent`, worker, `QueryLogs`, `Clear` |
| CDN cache | `core/cache.go` | entries, size | `Get`, `Store`, `Purge`, `ServeFromCache` |
| WAF rules | `rules/` | rule list, paranoia level | loading, `Inspect`, `SetParanoiaLevel` |
| Fingerprinting | `fingerprint/` | TLS fingerprint per remote address, composite score | sniffing, handshake callback, `GetCompositeForRequest` |
| Intelligence | `intelligence/` | lists, feeds, kept reputation answers, ASN and geo tables | `Evaluate`, reputation `Check`, feed refresh |
| Adaptive thresholds | `detection/adaptive.go` | hourly profiles, calibration | `RecordSample`, `GetDecision` |
| Dashboard API | `api/` | sessions, users, prices, domains, audit log | handlers, RBAC, storage, audit trail, cluster sync |
| Process shell | `main.go`, `cmd/`, `logger/`, `test-site/` | signal handling, metrics endpoint, CLI, demo site | start, stop, SIGHUP |

### How they interact

Every request runs in a goroutine of the HTTP server: `handleRequest` reads
the address, consults the ban table and the pipeline (which calls WAF,
fingerprint, intelligence, behaviour and session checks in order), and turns
the verdict into a proxied response, a challenge page, a block page or a ban.
A ban goes to the table, the kernel map, the Cloudflare queue and the mesh.
The mesh's receiving goroutine calls back into the pipeline of the peer. Three
tickers (`rpsCounter` each second, `attackDetector`, `cleanupWorker`) read and
reset what request goroutines count. The dashboard changes the configuration
through the configuration centre, whose hooks run `ReloadConfig`; SIGHUP
replaces the global configuration without running the hooks. Nothing but the
configuration, its revisions, the dashboard's database and the audit log is
persisted: after a restart tables, windows, counters and what has been learnt
are empty. A configuration that was saved is posted to the dashboards of the
other nodes.

### What is hard

- *Interleavings.* Most operations are a sequence of atomic map operations
  with no lock around them: load-or-store, then count, then store, then kernel
  insert; snapshot, then delete; load, then store for counters.
- *Shared windows.* Three counters with different limits share one
  "last reset" instant in `IPState`.
- *Stale state.* Trust is cached when an `IPState` is created; the proxy cache
  outlives the backends it was built for; `Cleanup` works on snapshots.
- *Messages.* Gossip is unordered, may duplicate and lose, and drops what is
  older than a minute; unbans are broadcast by their receivers as well.
- *Two-step updates.* Saving a configuration writes a revision, an index, the
  main file and memory, then runs hooks: each may fail, or the process may die.
- *Copies.* What is kept for an address (classification, reputation, a
  fingerprint, a cached response, a configuration received from a peer) is used
  for others, or after it has ceased to be true.
- *Lossy queues.* Alerts, Cloudflare requests, log events and audit saves are
  dropped when their queue is full, or overtake each other.

## 2. Plan

Most important behaviour first. A module is written so that it can be proved
about: parameters are CONSTANTS with a named assumption, an operation is one
action (or one action per access to shared state where other goroutines can
come in between), invariants are conjunctions of named parts, recursion is
left to folds and recursive functions. The small components of one subject are
composed in an MC module that runs them one at a time: they share no variable,
so nothing is lost, and the states add up where they would multiply.

| | modules | of | composed in | checked by | proofs |
|---|---|---|---|---|---|
| 1 | `BanPipeline` | the ban table of one node, step by step | `MCBanPipeline` | `ban_table`, `ban_v_forever` | `BanPipelineProofs` |
| 2 | `MeshBans` | bans shared by nodes (of 1: the time each ban has left) | `MCMeshBans` | `mesh_bans` | `MeshBansProofs` |
| 3 | `IPWindows`, `PenaltyBuckets`, `TokenBuckets`, `ConnLimits` | what limits an address | `MCLimits` | `limits` | `LimitsProofs` |
| 4 | `RequestPipeline` | a request from arrival to verdict (of 1 and 3: bans and counters) | `MCRequestPipeline` | `pipe_requests` | `RequestPipelineProofs` |
| 5 | `RuleEngine`, `Fingerprints`, `BehaviourVerdicts`, `AddressIntel` | the signs by which 4 decides | `MCSignals` | `signals`, `signals_v_browsers` | `SignalsProofs` |
| 6 | `AttackDetector` | attack state and alerts of a mesh | `MCAttackDetector` | `attack_alerts` | `AttackDetectorProofs` |
| 7 | `ConfigCenter`, `Accounts` (with `AuditTrail`), `ConfigSync` | what the dashboard keeps and shares | `MCConfigCenter` | `config_saves`, `config_v_source`, `accounts_v_audit` | `ConfigCenterProofs` |
| 8 | `UpstreamPools`, `ResponseCache`, `TrafficLog` (implements `EventFeed`), `AlertQueue`, `EdgeBans` | what the shield hands on | `MCDelivery` | `delivery` | `DeliveryProofs` |

All of these are done. What could follow: an abstract ban table (a set of
timed bans) that `BanPipeline` implements until something unbans, and with it
bans of the mesh in terms of that table; a reload as the sequence of the steps
that eight modules now take on their own. Section 7 says what no module will
have.

## 3. The modules and the code

Every module states at its head what it leaves out; `PROJECT.json` maps every
definition to the lines it stands for. A definition introduced as a *mutant of*
another is a plausible bug, used only to show that a property would notice it.

### Bans

**`BanPipeline`**. `banned`, `xdp`, `bannedIPs`, `ipTrust`, `trustedProxies`
and `whitelistIPs` are the shards of `ShardedTimeMap`, the kernel map,
`stats.BannedIPs`, the cached trust in `IPState` and the configuration. A
goroutine's `pc` and `op` say which access to shared state comes next: `Guard`
and `Enter` are the checks of `BanIPLocal`, `BanIPRemote` and `banIP`; `Put`,
`Count`, `Renew`, `KernelInsert` are the single steps of `banIP`; `Purge`,
`Uncount`, `PurgeKernel` those of `Cleanup`; `Clear`, `UnbanAllKernel`,
`ResetGauge` those of `UnbanAllIPs`; `IsBanned` and `ListDrop` the lookups that
delete what has expired. `Reload` is `ReloadConfig`. The expiry is kept as the
time left, counted down by `Tick`.

**`MeshBans`**. The nodes' tables as times left, the messages in flight with
their age and the peers they reached. `BanIPLocal`, `AdminUnban` and
`AdminUnbanAll` (the two forms of `handleUnban`) broadcast; `NotifyMsg` is the
delegate with the callbacks that `main.go` installs, including the unban that
is broadcast again; `Restart` forgets a node's table; `Tick` drops messages
older than `Fresh`. Names are constants since the code recognises its own
messages by a configured name.

**`EdgeBans`**. Bans at Cloudflare: the two queues, the two workers of
`main.go`, `ProcessBan`, `ListRules`/`DeleteRules` (an unban is a list and then
deletions), and the hourly clean-up `FetchPage`, `DeleteRule`, `NextPage`,
`CleanAgain`, page by page while rules are added in front. Every call may fail;
`EdgeCrash` loses queues and workers, the rules stay.

### Limits of an address

**`IPWindows`**. One `IPState`: `CheckConnRate`, `LimitRequest` (layer 3.5) and
`ChallengePage` (`determineStageWithFP`) restart and count in the same window;
`Refresh` is the ticker behind the cached clock, `Tick` the precise clock.

**`PenaltyBuckets`**. `CheckRateLimit` of the detection engine: `LoadBucket`
finds or creates the bucket, `StoreBucket` is the LoadOrStore that may lose to
another request, `TakeToken` the part under the bucket's mutex (refill,
penalty, violation, verdict). `UpdateConfig` drops the buckets that requests
may still hold. The cleanup takes three steps, `RangeBucket`, `CheckIdle` (it
reads `LastRefill` without the bucket's mutex) and `DropIdle`, which deletes the
key; requests use the bucket, or put another in its place, in between.

**`TokenBuckets`**. `perf.IPRateLimiter`: `AllowLook`, `AllowCreate` and
`AllowStore` are `Allow`, in which the rate is read when the bucket is created
and the bucket is stored later under the shard's lock; `SetRate` and `SetShard`
are the reload, first the limiter, then shard by shard; `CleanupShard`.

**`ConnLimits`**. The `ConnState` callback: `Accept`, `IncrementConnCount`,
`ConnClosed` (an atomic decrement) with `Clamp` as a separate store,
`JudgeConnCount` (layer 1), `ForgetState` (the cleanup of idle states),
`ReloadExempt` (a reload changes whether the address is exempt).

### A request

**`RequestPipeline`**. A goroutine's request goes through `Arrive`, `FastPath`,
`CheckBanned`, `Judge` and then `Allow`, `Challenge` or `Refuse`; what is let
through, by `FastPath` or `Allow`, is `Forward`ed. A challenge answer goes
through `Solve`, which needs no page, or `FailLoad` and `FailStore`. A cookie
serves any address that carries it, under either name: `verified` and `cookies`
keep of each proof its grounds, that is, what somebody got it for. `Expire`,
`Forget` and `Lapse` end cookies, verified addresses and bans. `Judge` is
`ProcessWithFingerprint` with its layers in order: a layer that depends on the
shared state decides by it, one that depends on the request may decide.

**`RuleEngine`**. `RuleInit` loads the rules of the level; `ReloadShield` and
`SetParanoiaLevel` are the two steps by which a reload reaches it;
`InspectRule` is one turn of the loop of `Inspect`, which reads the level anew.

**`Fingerprints`**. `Sniff` parses the first bytes, `Handshake` stores the
fingerprint of `extractFromStdlibHello` over it, `GetComposite` computes the
score into the entry that all requests of the remote address share and
`Judge` and `Answer` use it. GREASE values and the two fingerprints (JA3, which
keeps the order, and JA4, which does not) are computed from the hello.

**`BehaviourVerdicts`**. `Request` is layers 6 and 7 for one request of an
address: `Counted` and `Analyzed` the profile and its score, `Classes` and
`Kept` the classifier with its cache; `DropProfile` and `DropClass` the
cleanups.

**`AddressIntel`**. `Evaluate`, `UseAnswer`, `SendQuery`, `StoreAnswer`,
`QueryFailed`, `AnalyzeASN` and `Finish` are `Evaluate` of the intelligence
manager with the reputation query in the middle; `UpdateFeeds`,
`UpdateSettings` and `Report` change what it is asked about.

### Attacks and alerts

**`AttackDetector`**. Per node the tables of both tickers (`rps`, `under`,
`calm`, `peers`), per cluster the last alert. `rpsCounter` and `attackDetector`
run once a second in either order (`due`). `NotifyRate` and `NotifyEnd` deliver
gossip, `NotifyLeave` is the failure detector, `Stop` and `Exit` the steps of a
shutdown.

**`AlertQueue`**. `SendAllRich` hands over or loses, `RunJob` is the worker
that starts a goroutine per enabled channel, `Post` one attempt of it with the
answers it may get, `SetChannels` the reload.

### What the dashboard keeps

**`ConfigCenter`**. The main file, the revision files, their index and the
dashboard's storage on disk; the centre, the shield, the upstream pools in
memory; `save` is the `SaveYAML` that holds the mutex, `req` what each
dashboard request has yet to do. `Accept`, `WriteRevision`, `WriteIndex`,
`WriteMain`, `Reload` are `SaveYAML`, `Refuse` and `RevisionFails` its errors;
`SetStore`, `SaveStore`, `Get`, `Pools` what the handlers do outside the mutex;
`Crash` may cut off every file that is being written, `Restart` is the start of
`main.go` with `NewCenter`.

**`Accounts`**, **`AuditTrail`**. A handler (`handleRegister`, `CreateUser`,
`UpdateUser`, `DeleteUser`, `handleLogin`, `SaveOther`) changes the data under
the mutex; `OpenStorage` and `WriteStorage` are the save that truncates and
writes, `SaveFails` its error, which nobody reads; `Reply` answers. `Start` is
the load with the synchronisation of administrators. Each audit entry starts a
goroutine: `TakeEntries`, `OpenTrail`, `WriteTrail`.

**`ConfigSync`**. `BeginEdit` clones, `WriteEdit` saves, `ShareEdit` and
`ForceSync` choose the peers and post, `Receive` is `handleClusterSync`, `Lose`
a peer that cannot be reached. A configuration is its body and the address its
cluster section claims.

### What the shield hands on

**`UpstreamPools`**. `LookUpPool` and `GetNext` are two steps of a request,
`UpdateDomains` replaces the pool, `StartChecks` and `Check` are the health
checker, which works on the pool it started with, `Answered` ends a request.

**`ResponseCache`**. `Ask` bypasses, hits or misses; `BackendAnswers`, `Store`
and `Fail` are the proxy and `ModifyResponse`; `Evict`, `Toggle`, `Publish` the
rest of the world.

**`TrafficLog`**, **`EventFeed`**. `RecordEvent` numbers, `HandOver` sends or
loses, `WorkerReceives` and `WorkerStores` fill the ring, `Clear` empties it,
`StreamTick` and `Reconnect` are the stream of a viewer. `EventFeed` is what
the stream promises: what is shown was recorded, and is shown once.

## 4. The runs

| run | instance | what it shows |
|---|---|---|
| `ban_table` | 1 address, 2 goroutines and the cleaner, every entry point, 2 bans, 1 reload, 3 operations at once, every initial configuration | protected addresses stay unbanned until a reload (`ProtectedNeverBanned`); the kernel has what the table has (`EnforcedInKernel`); the gauge covers the table while nothing but `UnbanIP` and bans interfere (`GaugeCoversTable`); expired entries go (`ExpiredForgotten`) |
| `mesh_bans` | 3 nodes (two of one name, one protecting the address), 2 bans, 1 unban, 1 restart, messages obeyed up to age 1 | no ban outlives its decision by more than `Fresh`, although each delivery starts it anew (`NoBanOutlivesDecision`); a peer with a name of its own hears of every ban (`BanReachesNamedPeers`) |
| `limits` | two goroutines; windows of limits 2 and 3 over 2 seconds of 2 ticks; penalty buckets of two limits (rates 1 and 2, bursts 2 and 1) over 3 ticks, idle after 2, with one reload and cleanups at any time; three rates with two reloads; 3 connections, at most 1 per address and 2 in all | no request or page of a second goes uncounted while the clocks agree (`NoFloodMissed`); an address gets no more requests through than its rate has earned, and one burst for each cleanup that deletes a bucket in use again (`NoMoreThanEarned`); a reload reaches every bucket (`ReloadsApply`); refused and forgotten connections are not held against the address (`NeverOvercounted`) |
| `pipe_requests` | 1 address, 2 goroutines, five modes (`captcha` and `under_attack` act as `challenge` does here), cookies of all grounds, page counters up to 3 | under guard, on the fast path or by a verdict, only the static, the whitelisted and the holders of proofs pass, and every proof goes back to a right answer, a calm time, a static asset or a whitelisted request (`OnlyEarnedPass`); whoever does not solve is banned at the third page (`NonSolversBanned`) |
| `signals` | rules of two levels with two reloads; 2 connections, one remote address, 2 requests at a time, three kinds of client; profiles of 5 requests; 2 evaluations at a time with 3 changes | inspections stay between the levels they have seen (`JudgedWithinLevels`); a request is judged by the handshake of its own connection and by its own agent, whatever others write into the shared entry (`JudgedByOwn`); nobody is banned for one sign of behaviour (`BannedForCause`); nobody is refused for one sign, or for a report withdrawn long ago (`RefusedForCause`) |
| `attack_alerts` | 2 nodes (loads 1 and up to 2, threshold 1), 1 domain, 2 calm ticks, 1 reload or stop | floods of two seconds are seen (`LocalFloodDetected`), nothing else is an attack (`AttackHasTraffic`), alerts tell what the leader sees (`AlertsFollowLeader`), attacks end (`AttackEnds`), floods that only the sum shows are seen (`SharedFloodDetected`) |
| `config_saves` | 2 administrators, 3 requests, 2 domains, 1 crash; 2 handlers, 3 changes, 2 crashes; 3 nodes, 2 saves, 2 texts | the history stays restorable and unchanged (`ListedRestorable`, `RevisionsKept`); a save reaches shield and file (`SavedEverywhere`); a start finds the last save or the interrupted one (`RestartKeepsSaves`); an account that was promised is there (`AccountsKept`); what is shared while nothing else is under way is what the others then have (`SharedReachesAll`) |
| `delivery` | pools of up to 3 backends, replaced once; 2 clients and 2 versions of a page; 5 events, a channel and a ring of 2, 1 viewer; 2 alerts on 2 channels; 2 addresses, 2 workers, 2 rules, 1 crash | a backend that is up gets its turn (`FairTurn`); nothing personal or too old is shown (`ServedFresh`); the stream implements the feed (`ShownOnce`); every accepted alert settles (`AlertSettles`); no edge ban stays for ever (`EdgeBanEnds`) |
| `ban_v_forever`, `signals_v_browsers`, `config_v_source`, `accounts_v_audit` | small instances | `KernelBanEnds`, `BrowsersRecognised`, `OneSource` and `TrailPersistent` do not hold: section 6 |

Each passing run also checks the type invariants of its modules (`TypeOK`;
`DashboardTypeOK` in `config_saves`).

*Why the bounds are enough.* The entries of the ban table are independent: no
operation but the snapshots looks at two addresses, and a snapshot of one shows
every race of a snapshot. Two goroutines and the cleaner are all the parties of
a race between a ban, an unban or a lookup, and the periodic purge; a third
ban or a second reload repeats a state the history variables already treat as
lost (`used`, `reloads`). Three nodes allow an echo through a third; two bans
and an unban allow each order. One address and two goroutines suffice for the
pipeline, whose only state common to all addresses are the page counter, which
is one counter, and the cookies, which are one set for everybody (section 6). The counters of `IPWindows` restart every
second, so two full seconds show a window that is carried over, restarted late
and restarted early. A bucket is shared by two requests and lost to a third
that creates its own: two buckets and two goroutines. Three connections are one
that is refused, one that is open and one that finishes. The attack detector's
constants 10 and 15 become 2 and 2, the smallest at which a calm tick does not
end an attack and a report survives a second. Rules are judged one by one, so a
rule of each kind (each level, negated, with a keyword, decoded or raw) is
enough. Two requests of one remote address make every race on a fingerprint;
a key used again needs two connections. Two dashboard requests make every race
on the centre; a third lets a rollback or a refused edit follow a race, and one
crash cuts off any file; what a second crash finds is again a state a restart
can be in. In `ConfigSync` every node starts with a configuration of its own,
which stands for any number of earlier saves that reached some nodes and not
others; two saves overlap in every way, and the second port of a peer gets a
copy of the same post, which may come later just as the first may. The ring and
channel of two places overflow with five events and are read in the middle. The
clean-up at the edge needs two rules on pages of one, so that pages shift.
`CHECK_DEADLOCK FALSE` appears only for `MCConfigCenter`: a process whose main
file is empty or without a domain does not start again.

*Fairness.* `ban_table`: goroutines are scheduled, the cleanup ticker fires,
time passes (weak fairness of `Continue`, `BeginCleanup`, `Tick`; no fairness
for requests or bans). `mesh_bans`: time passes and a peer handles a ban that
reached it, in the behaviours where the network loses none (`reliable`).
`attack_alerts`: the two tickers of every node fire (weak fairness of one
round, `TickersRun`); of the rates a node keeps broadcasting each second, some
reach each peer (strong fairness of `NotifyRate`, for the gossip library
retransmits to random peers). `delivery`: the alert worker and the goroutines
that post run (weak fairness; a post itself may fail each time), the process is
started again after a crash, the clean-up's ticker fires and its loop goes on
(weak fairness), and calls of the Cloudflare API that are repeated every hour
do not fail for ever (strong fairness of `FetchPage` and of a deletion that
succeeds). No run assumes that a user, an attacker or an administrator ever
does anything.

## 5. The proofs

Every safety invariant and every action property that a passing run checks is also a
theorem, for any values of the constants that meet the named assumption of the
module. Each rests on an inductive invariant that TLC checked first.

| module | theorem | inductive invariant, and why |
|---|---|---|
| `BanPipelineProofs` | `TypeCorrect` | `TypeOK` |
| | `LocalBanSafe` | `LocalInv`: between the guard and the store a goroutine remembers whether the configuration protected its address all along |
| | `StaticProtection` | `StaticInv`: until a reload the trust that `IPState` caches is the configuration's, and a goroutine past the guards holds an unprotected address |
| | `KernelEnforces` | `EnforcedInKernel` with the fact that nothing has unbanned yet; one lemma sums up what each step does to the table and the kernel map |
| | `GaugeCovers` | `Counted`: the addresses of the table and those about to be renewed there are no more than the gauge and the goroutines about to raise it. A renewal must be among them, for an unban may have taken the entry from under it. Each operation moves one address or one goroutine from one set to the other |
| `MeshBansProofs` | `MeshTypeCorrect` | `TypeOK` |
| | `BansDoNotEcho` | `MessageBound`: a message's duration exceeds the decision's remaining time by no more than its age, which `Fresh` bounds |
| `LimitsProofs` | `WindowsTypeCorrect`, `LimitsTypeCorrect` | the type invariants of the four limiters, each under its own specification |
| | `FloodsAreSeen` | `FloodInv`: the cached clock never runs ahead, and a window begun in the cached second has counted all of it |
| | `NobodyOvercounted` | `CountInv`: the counted connections are finitely many and past their acceptance, and the counter does not exceed their number; a refused connection is counted down without having been counted, which only lowers the counter |
| | `LimitsReload` | `RateInv`: the bucket, and whoever holds the shard's lock to store one, have the limiter's rate, unless a reload still has the shard ahead of it. `LimitsInv`: who is about to store read the current limits, unless a reload came in between |
| | `NothingGivenAway` | `EarnedInv`: what has passed, with what the bucket holds and what it has earned since its last use, is within what was earned in all; without a bucket a whole burst is in hand, which is what a new bucket gives. Deleting a bucket idle for `IdleTTL` is then no gift, since it had earned its burst again; deleting one that was used after the check gives away a burst at most, which `raced` counts |
| `RequestPipelineProofs` | `PipelineTypeCorrect` | `TypeOK` |
| | `GuardedDomain` | `EarnedInv`: what a request in each phase has read, and whether its domain was calm since (`LifeInv`); every cookie and every verified address has its proof on earned grounds (`ProofsEarned`), without which a pass on somebody else's cookie could not be bounded |
| | `WhitelistHolds` | the property itself, with the facts about the order of the layers |
| | `NonSolversAreBanned` | `PagesInv`: the page counter that all addresses share is never behind the pages of one address that is not exempt |
| `SignalsProofs` | `SignalsTypeCorrect` | the type invariants of the four modules, each under its own specification |
| | `RequestsJudgedWithinLevels` | `RuleInv`: of the rules before the loop's place, one that blocks at the lowest level the inspection has seen has blocked it, and if it is blocked then by one that blocks at the highest |
| | `RequestsJudgedByOwn` | `PrintInv`: connections that are not closed have addresses of their own, the entry of an open one is its own, and the hello of `crypto/tls` matches no known client, so that the score of the entry does not depend on who wrote it (`StdlibUnknown`) |
| | `NobodyBannedForOneSign` | `BehaviourInv`: a critical classification is no older than the last time a tool was named, with lemmas on how far the score can fall for one sign |
| | `AddressRefusedForCause` | `IntelInv`: at each phase of an evaluation the trust is bounded below by the number of signs counted so far; an answer kept is no older, and a query no longer under way, than the report it tells of |
| `AttackDetectorProofs` | `TypeCorrect` | `TypeOK` |
| | `OneVoice` | `AlertInv`: until a stop every member list is the whole mesh, hence exactly one leader |
| | `FloodDetected` | `FloodInv`: in every order of the two tickers, one of two loud seconds is in the rates when the detector looks |
| | `AttackFromTraffic` | `TrafficInv`: no rate a node holds, of its own or of a peer, exceeds the busiest second of its origin, and a node holds none of its own among its peers'; with lemmas on sums over the nodes, one is then below the other (`SumBounded`) |
| `ConfigCenterProofs` | `TypeCorrect` | `TypeOK` with `Waiting`: the mutex is held by a request that waits for its save |
| | `ListsAreWhole`, `HistoryKept` | `FilesOld`: every revision file has a version older than the next |
| | `SaveReachesAll`, `StartFindsSaves` | `MainInv`: the main file is the saved configuration, or the one of the save that has just written it; after a crash it may be empty |
| | `AccountsAreKept` | `AccInv`: an account that was answered for is in memory, or in the file when the process is dead, and no request is about it; while the process runs and nobody writes, the file has every account that no request has yet to save. Without the second part a crash could not be shown harmless. `WithoutCopies` says what the loop of a deletion leaves |
| | `ShareReachesAll` | `SyncInv`: a share that began alone and lost nothing is all that goes on, first as its save (`Edited`), then as one broadcast (`Queued`), then as posts, of which each node that is not yet there has one before it (`Spreading`) |
| | `DashboardTypeCorrect` | the type invariants of the three parts, with `Waiting` and `DeadIdle` (a process that does not run handles nothing); `NewestKept` says that the audit trail stays within its size |
| `DeliveryProofs` | `DeliveryTypeCorrect` | the type invariants of the five modules, each under its own specification; for the alert queue `AlertInv`: an alert waits once, and nothing is posted before its turn |
| | `LogTypeCorrect` | `LogTypeOK`, with lemmas on what the ring holds after a store (`Stored`) and what a query returns (`LogsAre`) |
| | `StreamIsFeed` | `FeedInv`: a numbered event waits in one place only (with its recorder, in the channel, in the worker's batch) or is in the ring at one index, and what a viewer has been shown lies behind the event it saw last. With it every step of `TrafficLog` is a step of `EventFeed` or a stutter: the refinement holds for every size of channel, ring and batch |
| | `TurnsAreFair` | `TurnInv`: the requests that have passed over a backend and its distance from the next turn are together less than the size of the pool |
| | `CacheServesFresh` | `CacheInv`: what is kept for all was asked for, answered and stored in this order, and had not been replaced when it was asked for |

*Assumptions.* Besides the kinds of the constants: the bounds of ages exceed
what they must tell apart; the known clients send TLS extensions, a
profile whose rate alone costs more than 60 points makes many requests per
second, and a classification, an answer or a cached response is kept for a
while (as the tables of the code have it); a bucket is idle for longer than a
penalty lasts; the nodes and the domains of the attack detector are finitely
many; the dashboard has a port; a file that cannot be read holds neither
accounts nor a configuration. TLC evaluates them in every run.

*Sums, loops and least elements.* What a loop or a sum computes is proved by
the least counterexample instead of induction: if a recursive function were
wrong somewhere, there would be a least place where it is (`LeastOf`), and its
predecessor is right. So are the sums of `AttackDetector` (`SumIsLoop`), the
least entry of the audit trail and the copy of `DeleteUser`. For this the
modules use recursive functions and the sums of `Functions`, and no recursive
operator.

*Only model-checked.* Liveness (`ExpiredForgotten`, `BanReachesNamedPeers`,
`AttackEnds`, `SharedFloodDetected`, `AlertSettles`, `EdgeBanEnds`) is out of
the prover's reach, as it needs fairness and ENABLED. The refinement of
`EventFeed` is proved; no other module has an abstract specification.

## 6. Where the code and its documentation disagree

Shown by a run (TLC finds the behaviour; `PROJECT.json` quotes the text):

- `ban_v_forever`: the lookup or the ban list that deletes an expired entry
  leaves its address in the kernel map, for `Cleanup` unbans only what it
  still finds. The kernel goes on dropping that address.
- `signals_v_browsers`: the handshake stores a fingerprint without extensions
  over the one that was read from the connection, so no browser of the
  database is recognised and every TLS client has the same low score.
- `config_v_source`: a domain the configuration centre refuses reaches the
  storage and the upstream pools and is reported as saved.
- `accounts_v_audit`: of two goroutines that save the audit trail the one with
  the older entries may write last; the file then lacks the newer for good.

Met while modelling, without a run of their own; the hazards in
`PROJECT.json` refer to them:

- *Bans.* `BanIPRemote` and the connection limit judge by trust cached before
  a reload (`core/pipeline.go:1007`). `UnbanIP`, `isBanned` and the ban list
  do not decrement the gauge that `main.go:320` exports, while `Cleanup` and
  `UnbanAllIPs` may make it undercount. `Cleanup` deletes an entry renewed
  after its snapshot, and a `Renew` after a purge restores an entry that the
  kernel map and the gauge have lost. A ban that falls between `Clear` and the
  end of `UnbanAllIPs` stays in the kernel (`core/pipeline.go:1099`). The
  handler overwrites the pipeline's longer bans (`core/server.go:892`,
  `core/pipeline.go:389`).
- *Mesh.* A node that executes a received unban broadcasts it again with a
  fresh timestamp (`core/pipeline.go:1068`), so it circulates; an unban that
  overtakes its ban has no effect. Own messages are recognised by `node_name`
  (`cluster/gossip.go:99`), which the shipped configuration leaves empty
  everywhere: nodes of one name drop each other's messages, although
  `config/config.yaml:673` promises that bans reach all nodes. They share no
  rates either.
- *Edge.* `main.go:169` starts a second worker on the queues of the first, so
  that calls go out at twice the rate of `core/cloudflare.go:54`, and an unban
  may overtake the ban it revokes; the hourly clean-up is what ends such a ban.
- *Limits.* The windows of connections, requests and pages share
  `ConnLastReset`: a request that starts the window of a second keeps the page
  counter from being restarted, so that pages are counted for ever, and not
  "3 times/sec" (`core/pipeline.go:737`, 742). `CPS` counts the connections of
  several seconds when requests move its window (`core/pipeline.go:972`). The
  other page counter is kept for a string that is no address
  (`core/server.go:869`), which all visitors share, although `866` speaks of
  an IP. A request that is being judged while the limits are reloaded may put a
  bucket of the old limits back. The cleanup reads `LastRefill` without the
  bucket's lock and deletes the key afterwards (`detection/detection.go:359`): a
  bucket used in between is forgotten with what was spent and its penalty, and
  the address has a whole burst again; `NoMoreThanEarned` allows for one burst
  each time. `SetRate` leaves existing buckets their old capacity
  (`perf/pool.go:93`), although `perf/pool.go:186` says that it updates both;
  `ReloadsApply` speaks of the rate.
- *Pipeline.* The whitelist is layer 4, behind bans and connection limits, and
  compares exact strings: CIDR entries never match (`config/config.yaml:180`).
  Failed challenges are loaded and stored in two steps, so that concurrent
  failures count once (`core/server.go:149`, `config/config.yaml:232`). Mode
  `block` passes validation and has no stage. Proofs are not tied to visitors:
  the address in a cookie is not compared with the one that carries it
  (`challenge/challenge.go:98`), a session cookie works under the name
  `mango_proof` and then verifies the address, and an answer is accepted for
  which no page was served. Whoever is let through without a proof gets a
  session cookie (`core/server.go:842`), for a static asset too, and
  the fast path lets it pass later, however the domain is guarded: "all
  unauthenticated traffic" and "ALL unverified traffic" (`core/pipeline.go:709`,
  736, 758) are challenged or dropped only until they have asked for a static
  asset. `OnlyEarnedPass` says what a pass can go back to, and no more.
- *Rules.* The start loads only the rules of its paranoia level, so that a
  reload to a higher level adds none (`rules/engine.go:24`, "updates the WAF
  paranoia level dynamically"; `core/server.go:248`). The keyword that the
  prefilter takes from a pattern may join the letters of its escapes, and such
  a custom rule never matches; the prefilter looks at the raw query, the rule
  at the decoded one.
- *Signs.* The known browsers are loaded by `main.go:124`; the extended
  database, and the HTTP/2 fingerprints, have no caller. The behaviour analyser
  is always told status 200, and only several user agents bring an address
  below the score of a ban. A classification is kept for the address for 30 s,
  whichever client behind it caused it. A session that is found suspicious is
  only logged.
- *Attacks.* Rates that peers report for `example.com` count for `example.co`,
  whose name is its prefix (`cluster/gossip.go:440`, "for a domain" in 433). A
  leader that exits does not leave the mesh, and until the others notice, the
  attacks they see are announced by nobody; the same when only a follower sees
  or configures the domain (`README.md:20` promises that no notification is
  dropped; the alert queue, too, drops what does not fit). `Stop` announces
  ends a second before it cancels the detector, which may announce another
  start or end. A domain that a reload drops stays under attack for ever, and
  when it returns, all the requests since count as one second's. Subdomains are
  counted under their own names. `RemoteSilence` and `BroadcastAlert` have no
  effect on these alerts, whose cooldown is zero.
- *Configuration.* At the start the storage's domains win over the file's:
  a rollback, which does not update the storage, an edit interrupted before
  its save, a refused edit and an edit by hand come out differently in the
  shield's own copy than in the centre. `SaveYAML` accepts what `Load` refuses
  (no domain, an unknown mode, a low threshold, a wrong difficulty): the
  process runs on and never starts again; nor does it when a crash leaves the
  main file empty. A crash in the middle of the index loses the list of
  revisions, and the next save writes an index of one; the files stay and can
  be restored by version. Two administrators' edits start from clones, so the
  later save undoes the earlier (both are told of success), and the slower
  `UpdateUpstreams` leaves pools that the configuration no longer has.
  Restoring an older backup after another of the same name restores the newer.
  SIGHUP (`main.go:363`, "hot reload config") changes neither centre nor
  shield. On a read-only mount the configuration is saved to a file that no
  start reads.
- *Sharing the configuration.* What is posted to the peers includes the
  sender's `cluster` section. A receiver thereby takes over the sender's
  `advertise_ip` and `node_name` (`config/center.go:269` means to keep them, but
  only against empty values), from then on passes the sender over when it
  posts, and posts to itself, as does a node without an `advertise_ip` (`api/dashboard.go:1417`, 1425, while 1522 reports
  "across cluster"). Posts have no version and no order: overlapping saves
  leave nodes with different configurations, until one is shared while nothing
  else is under way. Rules and rollbacks are not posted at all.
- *Accounts.* A crash between the truncation and the write of the database
  leaves a file that the next start replaces by the defaults, and the error of
  a save is ignored, so that a crash later loses what was reported as done. A
  start gives every `super_admin` the name of the configured administrator
  (`api/storage.go:118`). "Cannot delete primary admin account" compares the
  name with case, the deletion without (`api/dashboard.go:1784`, 1793): any
  other spelling of `admin` deletes the account.
- *Cache.* The key has no encoding (`core/cache.go:91`), although
  `core/proxy.go:34` speaks of "Accept-Encoding negotiation semantics". A purge
  from the dashboard purges nothing.
  Of two requests that missed, the one whose body ends last stores, with the
  older content perhaps, for the whole TTL (`core/cache.go:242`).

## 7. What is not modelled

*Data.* Patterns, scores of single signatures, geography and ASN tables, HTML
pages (`api/dashboard_v2.go` is one of them), the arithmetic of proofs,
statistics. *Floating-point statistics.* The adaptive learner
(`detection/adaptive.go`) and the anomaly baseline compute means and deviations
that raise the kind of page, or make the rate limiter lenient, which
`PenaltyBuckets` may be at any time. (The
learner is fed with the rate of all traffic and asked about the rate of one
address, so that "extreme spikes" hardly occur.) *Load.* The degrader switches
inspections off while the load is high: for the modules a request that is not
inspected is one that does not come. *Pure I/O.* Proxying, the copies of a
WebSocket, TLS, HTTP/2 frames, the dashboard's pages and statistics, the log
files, the CLI, the demo site. *Authentication.* Logins, sessions and roles of
the dashboard are left out, but for the accounts as data that must not be lost.
*Environment.* Clock skew between nodes (all clocks show one time), a kernel
map that is full, IPv6 addresses, which the kernel map cannot hold, disks that
fail later than at a revision's file, a file cut off in the middle rather than
emptied (a configuration is one `write`). *Alternatives.* The iptables queue
that replaces XDP. *Code without a caller.* `WhitelistIP` and the dynamic
whitelist, `p.validator`, `detection/signatures.go`, the engine's methods that
enable, disable or remove rules, lists of addresses changed by hand.
*Libraries.* Joining and leaving of the mesh; only what the code reads from its
member list is modelled. *Copies.* `bin/config` is the same code as `config`.
*Composition.* One reload makes its steps in eight modules one after the other;
each module has its own step, and no property relates two of them.

## 8. Running it

Each `.cfg` names its module in `PROJECT.json` (`tlc -config ban_table.cfg
MCBanPipeline`); `attack_alerts` and `config_saves` take about three minutes on
two cores, `limits`, `pipe_requests`, `signals` and `delivery` one, the others
less. `tlapm <Module>Proofs.tla` checks a proof module.
