------------------------------ MODULE IPWindows ------------------------------
(***************************************************************************)
(* The three counters of one IPState (core/pipeline.go) that share the     *)
(* instant ConnLastReset: CPS counts connections, RateLimitHits requests   *)
(* to a domain under attack, ChallengeHits challenge pages.  Each handler  *)
(* runs under state.mu, so it is one step; the handlers of one address run *)
(* in any order, on any goroutine.                                         *)
(*                                                                         *)
(* Requests and pages use a cached clock in whole seconds that a ticker    *)
(* refreshes ten times a second, connections the precise one.              *)
(***************************************************************************)
EXTENDS Integers, FiniteSetsExt

CONSTANTS
  SubTicks,   \* ticks of the precise clock per second
  CPSLimit,   \* 50 in the code
  PageLimit,  \* 3 in the code
  MaxSec, MaxEvents  \* bounds: seconds, events per tick

ASSUME WindowsAssumption ==
  /\ SubTicks \in Nat \ {0}
  /\ CPSLimit \in Nat /\ PageLimit \in Nat
  /\ MaxSec \in Nat /\ MaxEvents \in Nat

VARIABLES
  sec, sub,           \* the precise clock: second and tick within it
  fastSec,            \* fastUnixSec
  lastSec, lastSub,   \* ConnLastReset
  cps, hits, chHits,  \* CPS, RateLimitHits, ChallengeHits
  conns,    \* history: connections at each tick of the last second, newest at 0
  reqs,     \* history: requests of the current cached second
  pages,    \* history: challenge pages of the current cached second
  events,   \* events of the current tick
  kinds,    \* history: the handlers that have run
  trailed   \* history: the cached clock has trailed the precise one

clock  == <<sec, sub, fastSec>>
reset  == <<lastSec, lastSub>>
counts == <<cps, hits, chHits>>
past   == <<conns, reqs, pages>>
used   == <<kinds, trailed>>
windowVars   == <<clock, reset, counts, past, events, used>>

Kinds == {"connection", "request", "page"}

WindowTypeOK ==
  /\ sec \in 0..MaxSec /\ sub \in 0..SubTicks - 1
  /\ fastSec \in {sec - 1, sec}
  /\ lastSec \in Int /\ lastSub \in 0..SubTicks - 1
  /\ cps \in Nat /\ hits \in Nat /\ chHits \in Nat
  /\ conns \in [0..SubTicks - 1 -> Nat] /\ reqs \in Nat /\ pages \in Nat
  /\ events \in 0..MaxEvents /\ kinds \subseteq Kinds /\ trailed \in BOOLEAN

(* A new IPState: ConnLastReset is the zero time, long ago. *)
WindowInit ==
  /\ sec = 0 /\ sub = 0 /\ fastSec = 0
  /\ lastSec = -2 /\ lastSub = 0
  /\ cps = 0 /\ hits = 0 /\ chHits = 0
  /\ conns = [a \in 0..SubTicks - 1 |-> 0] /\ reqs = 0 /\ pages = 0
  /\ events = 0 /\ kinds = {} /\ trailed = FALSE
-----------------------------------------------------------------------------
Event(kind) ==
  /\ events < MaxEvents
  /\ events' = events + 1
  /\ kinds' = kinds \cup {kind}
  /\ UNCHANGED <<clock, trailed>>

(* now.Sub(ConnLastReset) >= time.Second *)
SecondPassed ==
  \/ sec > lastSec + 1
  \/ sec = lastSec + 1 /\ sub >= lastSub

(* CheckConnRate; its verdict is cps' > CPSLimit. *)
CheckConnRate ==
  /\ Event("connection")
  /\ IF SecondPassed
     THEN cps' = 1 /\ lastSec' = sec /\ lastSub' = sub
     ELSE cps' = cps + 1 /\ UNCHANGED reset
  /\ conns' = [conns EXCEPT ![0] = @ + 1]
  /\ UNCHANGED <<hits, chHits, reqs, pages>>

(* nowSec != state.ConnLastReset.Unix(); then the window starts at nowSec. *)
NewInstant == fastSec # lastSec \/ sub # lastSub           \* mutant of NewSecond
StartLate  == lastSec' = fastSec /\ lastSub' = SubTicks    \* mutant of StartSecond

NewSecond == fastSec # lastSec
StartSecond == lastSec' = fastSec /\ lastSub' = 0

(* Layer 3.5 of the pipeline; its verdict compares hits' with the configured *)
(* requests_per_second.                                                      *)
LimitRequest ==
  /\ Event("request")
  /\ IF NewSecond
     THEN hits' = 1 /\ StartSecond
     ELSE hits' = hits + 1 /\ UNCHANGED reset
  /\ reqs' = reqs + 1
  /\ UNCHANGED <<cps, chHits, conns, pages>>

(* determineStageWithFP while the domain is under attack; its verdict is     *)
(* chHits' > PageLimit.                                                      *)
ChallengePage ==
  /\ Event("page")
  /\ IF NewSecond
     THEN chHits' = 1 /\ StartSecond
     ELSE chHits' = chHits + 1 /\ UNCHANGED reset
  /\ pages' = pages + 1
  /\ UNCHANGED <<cps, hits, conns, reqs>>
-----------------------------------------------------------------------------
(* The cached second changes: a new second begins for requests and pages.  *)
NewFastSecond(s) == fastSec' = s /\ reqs' = 0 /\ pages' = 0

Refresh ==
  /\ fastSec # sec
  /\ NewFastSecond(sec)
  /\ UNCHANGED <<sec, sub, reset, counts, conns, events, used>>

WindowTick ==
  /\ fastSec = sec
  /\ \/ /\ sub < SubTicks - 1
        /\ sub' = sub + 1
        /\ UNCHANGED <<sec, fastSec, reqs, pages, trailed>>
     \/ /\ sub = SubTicks - 1 /\ sec < MaxSec
        /\ sub' = 0 /\ sec' = sec + 1
        /\ \/ NewFastSecond(sec + 1) /\ UNCHANGED trailed
           \/ trailed' = TRUE /\ UNCHANGED <<fastSec, reqs, pages>>
  /\ conns' = [a \in 0..SubTicks - 1 |-> IF a = 0 THEN 0 ELSE conns[a - 1]]
  /\ events' = 0
  /\ UNCHANGED <<reset, counts, kinds>>

(* The bound on time: nothing is modelled after the last tick. *)
WindowHorizon == sec = MaxSec /\ sub = SubTicks - 1 /\ UNCHANGED windowVars

WindowNext == CheckConnRate \/ LimitRequest \/ ChallengePage \/ Refresh \/ WindowTick \/ WindowHorizon

WindowSpec == WindowInit /\ [][WindowNext]_windowVars
-----------------------------------------------------------------------------
(* Nobody gets more through than a limit allows: the counters are never     *)
(* behind what was really received in the current second, as long as the    *)
(* two clocks agree or only the handlers of the cached one have run.        *)
NoFloodMissed ==
  ~trailed \/ "connection" \notin kinds => reqs <= hits /\ pages <= chHits
=============================================================================
