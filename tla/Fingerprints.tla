---------------------------- MODULE Fingerprints ----------------------------
(***************************************************************************)
(* TLS fingerprints (fingerprint/): the first bytes of a connection are    *)
(* read for one (early_reject.go), the handshake stores another over it    *)
(* (interceptor.go), and the requests of the connection, some at the same  *)
(* time, are judged by what the store has for their remote address         *)
(* (core/server.go, core/pipeline.go).                                     *)
(*                                                                         *)
(* Nothing ever leaves the store, and addresses with their ports are used  *)
(* again.  Scores are in hundredths.                                       *)
(***************************************************************************)
EXTENDS Integers, FiniteSets, Sequences, SequencesExt

CONSTANTS
  Conns,      \* connections, each is opened once
  Addrs,      \* remote addresses with their ports
  Streams,    \* requests a connection carries at the same time
  Kinds,      \* clients, told apart by their handshake and user agent
  Hellos,     \* of a client: the ClientHello messages that it sends
  Browsers,   \* clients whose fingerprint is in the database, trusted
  Tools,      \* clients whose fingerprint is in the database, of bots
  None

(* The values of an extension that clients send at random: 0x0a0a, 0x1a1a,  *)
(* ..., 0xfafa.                                                              *)
isGREASE(v) == v % 16 = 10 /\ (v \div 256) % 16 = 10

filterGREASE(s) == SelectSeq(s, LAMBDA v : ~isGREASE(v))

ClientHellos == [version : Nat, versions : Seq(Nat), suites : Seq(Nat), exts : Seq(Nat),
                 curves : Seq(Nat), points : Seq(Nat)]

(* A client of the database sends extensions: without the list of versions   *)
(* among them there is no TLS 1.3.                                           *)
ASSUME PrintsAssumption ==
  /\ Browsers \subseteq Kinds /\ Tools \subseteq Kinds /\ Browsers \cap Tools = {}
  /\ None \notin Conns /\ None \notin Kinds /\ None \notin Addrs
  /\ \A k \in Kinds : /\ Hellos[k] # {} /\ Hellos[k] \subseteq ClientHellos
                      /\ None \notin Hellos[k]
  /\ \A k \in Browsers \cup Tools : \A h \in Hellos[k] :
       filterGREASE(h.exts) # filterGREASE(<<>>)

VARIABLES
  conn,        \* of a connection: [stage, addr, kind, hello]
  cache,       \* of an address: [conn, ja3, ja4, total], or None
  stream,      \* of a connection's request: [ua, entry, by, score]
  underAttack

printVars == <<conn, cache, stream, underAttack>>

Stages == {"none", "accepted", "sniffed", "open", "closed"}
ScoreRange == {n \in Nat : n <= 10000}
Sent   == UNION {Hellos[k] : k \in Kinds}

(* ja3 is the client that the database knows by the fingerprint, or None.   *)
Entries == [conn : Conns, ja3 : Kinds \cup {None}, ja4 : BOOLEAN, total : ScoreRange]
Idle    == [ua |-> None, by |-> None, score |-> 0]

PrintTypeOK ==
  /\ conn \in [Conns -> [stage : Stages, addr : Addrs \cup {None},
                         kind : Kinds \cup {None}, hello : Sent \cup {None}]]
  /\ \A c \in Conns : \/ conn[c].kind = None /\ conn[c].hello = None
                      \/ conn[c].kind \in Kinds /\ conn[c].hello \in Hellos[conn[c].kind]
  /\ cache \in [Addrs -> Entries \cup {None}]
  /\ stream \in [Conns \X Streams ->
                   [ua : Kinds \cup {None}, by : Conns \cup {None}, score : ScoreRange]]
  /\ underAttack \in BOOLEAN

PrintInit ==
  /\ conn = [c \in Conns |-> [stage |-> "none", addr |-> None, kind |-> None, hello |-> None]]
  /\ cache = [a \in Addrs |-> None]
  /\ stream = [s \in Conns \X Streams |-> Idle]
  /\ underAttack \in BOOLEAN
-----------------------------------------------------------------------------
(* The version is the highest that the client supports.                      *)
Version(versions, default) ==
  LET vs == Range(filterGREASE(versions)) IN IF vs = {} THEN default ELSE Max(vs)

ParseClientHello(hello) == [hello EXCEPT !.version = Version(hello.versions, @)]

JA3(info) ==
  <<info.version, filterGREASE(info.suites), filterGREASE(info.exts),
    filterGREASE(info.curves), info.points>>

(* JA4 has the counts and the sorted lists of what JA3 has in order, and the *)
(* names asked for; no database has an entry for one.                        *)
JA4Known(hello) == FALSE

(* InitKnownBrowsers: JA3 fingerprints of clients as they are on the wire.   *)
Database(kind) == {JA3(ParseClientHello(h)) : h \in Hellos[kind]}

(* The client that the database has under a fingerprint, if any. *)
Known(ja3) ==
  LET found == {k \in Browsers \cup Tools : ja3 \in Database(k)}
  IN  IF found = {} THEN None ELSE CHOOSE k \in found : TRUE

TrustScore(ja3) == IF ja3 \in Browsers THEN 90 ELSE IF ja3 \in Tools THEN 5 ELSE 20

checkUAConsistency(ja3, ua) ==
  IF ja3 = None THEN 30
  ELSE IF ja3 \in Tools THEN 5 ELSE IF ua = ja3 THEN 95 ELSE 20

(* JA3 counts 30 of 100, JA4 25, HTTP/2, of which nothing is stored, 20, and *)
(* the user agent 25.                                                        *)
CalculateComposite(ja3, ja4, ua) ==
  30 * TrustScore(ja3) + 25 * (IF ja4 THEN 90 ELSE 25) + 20 * 30
    + 25 * checkUAConsistency(ja3, ua)

Prints(info) == [ja3 |-> Known(JA3(info)), ja4 |-> JA4Known(info)]

(* FullFingerprintFromRaw, of the bytes on the wire.                         *)
FromRaw(hello) == Prints(ParseClientHello(hello))

(* extractFromStdlibHello: crypto/tls has no list of the extensions to copy, *)
(* and the version is that of the list alone.                                *)
FromStdlib(hello) ==
  Prints([hello EXCEPT !.version = Version(hello.versions, 0), !.exts = <<>>])

Fresh(c, p) == [conn |-> c, ja3 |-> p.ja3, ja4 |-> p.ja4, total |-> 0]

Remember(c, p) == cache' = [cache EXCEPT ![conn[c].addr] = Fresh(c, p)]

Enter(c, s) == conn' = [conn EXCEPT ![c].stage = s]
-----------------------------------------------------------------------------
Connect(c, a, kind) ==
  /\ conn[c].stage = "none"
  /\ \A d \in Conns : conn[d].addr = a => conn[d].stage = "closed"
  /\ \E h \in Hellos[kind] :
       conn' = [conn EXCEPT ![c] = [stage |-> "accepted", addr |-> a, kind |-> kind, hello |-> h]]
  /\ UNCHANGED <<cache, stream, underAttack>>

(* performSniff at the first Read.  A record longer than the buffer, or one  *)
(* that does not arrive in time, is not looked at.                           *)
Sniff(c) ==
  /\ conn[c].stage = "accepted"
  /\ \/ /\ Remember(c, FromRaw(conn[c].hello))
        /\ Enter(c, IF underAttack /\ FromRaw(conn[c].hello).ja3 \in Tools THEN "closed" ELSE "sniffed")
     \/ Enter(c, "sniffed") /\ UNCHANGED cache
  /\ UNCHANGED <<stream, underAttack>>

(* Mutant of Handshake: what has been read first stays. *)
HandshakeKeeps(c) ==
  /\ conn[c].stage = "sniffed"
  /\ Enter(c, "open")
  /\ IF cache[conn[c].addr] = None THEN Remember(c, FromStdlib(conn[c].hello))
                                   ELSE UNCHANGED cache
  /\ UNCHANGED <<stream, underAttack>>

(* GetConfigForClient of the handshake. *)
Handshake(c) ==
  /\ conn[c].stage = "sniffed"
  /\ Enter(c, "open")
  /\ Remember(c, FromStdlib(conn[c].hello))
  /\ UNCHANGED <<stream, underAttack>>

Close(c) ==
  /\ conn[c].stage \notin {"none", "closed"}
  /\ \A s \in Streams : stream[<<c, s>>].ua = None
  /\ Enter(c, "closed")
  /\ UNCHANGED <<cache, stream, underAttack>>

(* GetCompositeForRequest writes the score of this request into the entry    *)
(* that the requests of the connection share.                                *)
GetComposite(c, s, ua) ==
  LET a == conn[c].addr IN
  /\ conn[c].stage = "open" /\ stream[<<c, s>>] = Idle
  /\ cache[a] # None
  /\ cache' = [cache EXCEPT ![a].total = CalculateComposite(cache[a].ja3, cache[a].ja4, ua)]
  /\ stream' = [stream EXCEPT ![<<c, s>>].ua = ua]
  /\ UNCHANGED <<conn, underAttack>>

(* The pipeline reads it from there. *)
Judge(c, s) ==
  LET e == cache[conn[c].addr] IN
  /\ stream[<<c, s>>].ua # None /\ stream[<<c, s>>].by = None
  /\ stream' = [stream EXCEPT ![<<c, s>>] = [ua |-> @.ua, by |-> e.conn, score |-> e.total]]
  /\ UNCHANGED <<conn, cache, underAttack>>

Answer(c, s) ==
  /\ stream[<<c, s>>].by # None
  /\ stream' = [stream EXCEPT ![<<c, s>>] = Idle]
  /\ UNCHANGED <<conn, cache, underAttack>>

FloodChanges ==
  underAttack' = ~underAttack /\ UNCHANGED <<conn, cache, stream>>

PrintNext ==
  \/ \E c \in Conns :
       \/ \E a \in Addrs, kind \in Kinds : Connect(c, a, kind)
       \/ Sniff(c) \/ Handshake(c) \/ Close(c)
       \/ \E s \in Streams :
            (\E ua \in Kinds : GetComposite(c, s, ua)) \/ Judge(c, s) \/ Answer(c, s)
  \/ FloodChanges

PrintSpec == PrintInit /\ [][PrintNext]_printVars
-----------------------------------------------------------------------------
IsJudged(x) == stream[x].by # None

(* A request is judged by the handshake of its own connection, whoever had   *)
(* the address and port before, and by its own user agent, whatever other    *)
(* requests of the connection write into the entry they share meanwhile.     *)
JudgedByOwn ==
  \A x \in Conns \X Streams : IsJudged(x) =>
    LET own == FromStdlib(conn[x[1]].hello) IN
    /\ stream[x].by = x[1]
    /\ stream[x].score = CalculateComposite(own.ja3, own.ja4, stream[x].ua)

(* pipeline.go:764 speaks of "High trust: known browsers", from 60 on: a     *)
(* browser of the database that says what it is gets there.                  *)
BrowsersRecognised ==
  \A x \in Conns \X Streams :
    IsJudged(x) /\ stream[x].ua = conn[x[1]].kind /\ stream[x].ua \in Browsers
      => stream[x].score >= 6000
===============================================================================
