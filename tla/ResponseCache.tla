----------------------------- MODULE ResponseCache -----------------------------
(***************************************************************************)
(* What clients are shown from the response cache (core/cache.go, used by  *)
(* core/proxy.go): requests that look into it, responses that are stored   *)
(* when they pass the proxy, a backend that replaces its content meanwhile *)
(* and a switch that a reload turns.                                       *)
(*                                                                         *)
(* One key is modelled: a method, a host, a path and a query.  A personal  *)
(* request stands for whatever makes ShouldBypass refuse: another method,  *)
(* a path of a bypass rule, an Authorization or bypass header, a sensitive *)
(* cookie.  The encoding that a client accepts is not part of the key, and *)
(* not of the model.                                                       *)
(***************************************************************************)
EXTENDS Integers

CONSTANTS
  Clients,     \* goroutines with a request for the key
  TTL,         \* of the path: 24 h for a static one, 1 h for what is public
  Static,      \* the path has a static extension
  Marks,       \* what may forbid to store a response: a status other than 200,
               \* private, no-store, no-cache, a cookie, no body, over 5 MB
  MaxVersion,  \* bound: contents of the backend
  MaxNow,      \* bound: ticks
  MaxToggles   \* bound: reloads that turn the cache on or off

ASSUME CacheAssumption ==
  /\ TTL \in Nat \ {0} /\ Static \in BOOLEAN
  /\ MaxVersion \in Nat \ {0} /\ MaxNow \in Nat /\ MaxToggles \in Nat

VARIABLES
  enabled,    \* s.cfg.CDN.Enabled
  cache,      \* the response under the key, NoEntry for none
  client,     \* of a request: none, fetch, reply
  carries,    \* of a request: its kind (personal, keyed when it brought the
              \* key, plain), when it asked, and the version it was answered with
  version,    \* what the backend shows
  retired,    \* history: when a version was replaced, MaxNow + 1 if not yet
  now,
  served,      \* history: what a client was shown last from the cache, if anything
  toggles

cacheVars == <<enabled, cache, client, carries, version, retired, now, served, toggles>>

Contents == 1..MaxVersion
Kinds    == {"personal", "keyed", "plain"}
NoReply  == [kind |-> "plain", asked |-> 0, version |-> 0]
NoEntry  == [kind |-> "plain", asked |-> 0, version |-> 0, stored |-> 0,
             marks |-> {}, public |-> FALSE]
Replies  == [kind : Kinds, asked : 0..MaxNow, version : Contents \cup {0}]
Entries  == [kind : Kinds, asked : 0..MaxNow, version : Contents, stored : 0..MaxNow,
             marks : SUBSET Marks, public : BOOLEAN]

CacheTypeOK ==
  /\ enabled \in BOOLEAN
  /\ cache \in Entries \cup {NoEntry} /\ served \in Entries \cup {NoEntry}
  /\ client \in [Clients -> {"none", "fetch", "reply"}]
  /\ carries \in [Clients -> Replies]
  /\ version \in Contents
  /\ retired \in [Contents -> 0..MaxNow + 1]
  /\ now \in 0..MaxNow
  /\ toggles \in 0..MaxToggles

CacheInit ==
  /\ enabled = TRUE /\ cache = NoEntry /\ served = NoEntry
  /\ client = [c \in Clients |-> "none"]
  /\ carries = [c \in Clients |-> NoReply]
  /\ version = 1 /\ retired = [v \in Contents |-> MaxNow + 1]
  /\ now = 0 /\ toggles = 0
-----------------------------------------------------------------------------
(* Mutant of Expired: an entry is kept for a tick too long. *)
ExpiredLate(e) == now > e.stored + TTL + 1

Expired(e) == now > e.stored + TTL

(* proxyRequest asks the cache, unless it is off or the request bypasses it; *)
(* Get deletes what has expired.                                             *)
Ask(c, personal) ==
  LET lookedUp == enabled /\ ~personal
      hit      == lookedUp /\ cache # NoEntry /\ ~Expired(cache)
      kind     == IF personal THEN "personal" ELSE IF lookedUp THEN "keyed" ELSE "plain"
  IN  /\ client[c] = "none"
      /\ cache' = IF lookedUp /\ ~hit THEN NoEntry ELSE cache
      /\ served' = IF hit THEN cache ELSE NoEntry
      /\ IF hit THEN UNCHANGED <<client, carries>>
         ELSE /\ client' = [client EXCEPT ![c] = "fetch"]
              /\ carries' = [carries EXCEPT ![c] =
                               [kind |-> kind, asked |-> now, version |-> 0]]
      /\ UNCHANGED <<enabled, version, retired, now, toggles>>

(* The backend answers with what it shows at this moment. *)
BackendAnswers(c) ==
  /\ client[c] = "fetch"
  /\ client' = [client EXCEPT ![c] = "reply"]
  /\ carries' = [carries EXCEPT ![c].version = version]
  /\ UNCHANGED <<enabled, cache, version, retired, now, served, toggles>>

(* Mutant of Storable: what forbids to store is not looked at. *)
StorableMarked(marks, public) == Static \/ public

(* Store: nothing forbids it, and somebody allows it. *)
Storable(marks, public) == marks = {} /\ (Static \/ public)

(* ModifyResponse, when the body has been read.  Only a request that brought *)
(* a key and was not let past stores, and only if the cache is still on; the *)
(* cache may refuse to keep what it is given, and the last one to store wins *)
(* whichever response is older.                                              *)
Store(c, marks, public) ==
  LET r == carries[c]
      entry == [kind |-> r.kind, asked |-> r.asked, version |-> r.version,
                stored |-> now, marks |-> marks, public |-> public]
  IN  /\ client[c] = "reply"
      /\ client' = [client EXCEPT ![c] = "none"]
      /\ carries' = [carries EXCEPT ![c] = NoReply]
      /\ IF enabled /\ r.kind = "keyed" /\ Storable(marks, public)
         THEN cache' \in {cache, entry}
         ELSE UNCHANGED cache
      /\ UNCHANGED <<enabled, version, retired, now, served, toggles>>

(* The request fails at the backend or its client has gone. *)
Fail(c) ==
  /\ client[c] \in {"fetch", "reply"}
  /\ client' = [client EXCEPT ![c] = "none"]
  /\ carries' = [carries EXCEPT ![c] = NoReply]
  /\ UNCHANGED <<enabled, cache, version, retired, now, served, toggles>>

(* The cache drops what it needs the room for. *)
Evict ==
  /\ cache # NoEntry /\ cache' = NoEntry
  /\ UNCHANGED <<enabled, client, carries, version, retired, now, served, toggles>>

(* A reload turns the cache off or on again, and purges nothing; nor does    *)
(* the dashboard's request to purge, which only says so.                     *)
Toggle ==
  /\ toggles < MaxToggles /\ toggles' = toggles + 1
  /\ enabled' = ~enabled
  /\ UNCHANGED <<cache, client, carries, version, retired, now, served>>
-----------------------------------------------------------------------------
Publish ==
  /\ version < MaxVersion
  /\ version' = version + 1 /\ retired' = [retired EXCEPT ![version] = now]
  /\ UNCHANGED <<enabled, cache, client, carries, now, served, toggles>>

CacheTick ==
  /\ now < MaxNow /\ now' = now + 1 /\ served' = NoEntry
  /\ UNCHANGED <<enabled, cache, client, carries, version, retired, toggles>>

CacheNext ==
  \/ \E c \in Clients :
       \/ \E personal \in BOOLEAN : Ask(c, personal)
       \/ BackendAnswers(c) \/ Fail(c)
       \/ \E marks \in SUBSET Marks, public \in BOOLEAN : Store(c, marks, public)
  \/ Evict \/ Toggle \/ Publish \/ CacheTick

CacheSpec == CacheInit /\ [][CacheNext]_cacheVars
-----------------------------------------------------------------------------
(* Nobody is shown from the cache what the backend had replaced for longer  *)
(* than the response's time to live and the time its request took, nor what *)
(* was made for one client or marked as not to be shared: whatever stores   *)
(* race, while the backend changes and the cache is turned off and on.      *)
ServedFresh ==
  served # NoEntry =>
    /\ now <= retired[served.version] + TTL + (served.stored - served.asked)
    /\ served.kind # "personal" /\ served.marks = {}
===============================================================================
