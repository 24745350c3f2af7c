---------------------------- MODULE DeliveryProofs ----------------------------
(* Theorems about what the shield hands on: the log of events and its stream *)
(* implement the feed of EventFeed, for any number of recorders and viewers  *)
(* and any size of channel, ring and batch; the backends of a pool have      *)
(* their turns, for any number of them; the cache shows nobody what is not   *)
(* his or too old; the alerts and the bans at the edge keep their types.     *)
EXTENDS MCDelivery, FiniteSetTheorems, TLAPS

(***************************************************************************)
(* The ring read newest first.                                             *)
(***************************************************************************)
LEMMA LogsAre ==
  ASSUME LogTypeOK
  PROVE  /\ QueryLogs \in Seq(EventIds) /\ Len(QueryLogs) = Len(events)
         /\ \A i \in 1..Len(events) :
              LET n == Len(events) IN
              /\ ((head - i + n) % n) + 1 \in 1..n
              /\ QueryLogs[i] = events[((head - i + n) % n) + 1]
<1> DEFINE n == Len(events)
<1>1. n \in Nat /\ events \in [1..n -> EventIds] /\ head \in Int
  BY LogAssumption DEF LogTypeOK
<1>2. ASSUME NEW i \in 1..n PROVE ((head - i + n) % n) + 1 \in 1..n
  BY <1>1
<1>3. QueryLogs = [i \in 1..n |-> events[((head - i + n) % n) + 1]]
  BY DEF QueryLogs
<1>4. QueryLogs \in [1..n -> EventIds]
  BY <1>1, <1>2, <1>3
<1> QED
  BY <1>1, <1>2, <1>3, <1>4

(* A stored event is the newest, and the others move one place back.         *)
LEMMA Stored ==
  ASSUME LogTypeOK, LogTypeOK', WorkerStores
  PROVE  /\ QueryLogs'[1] = inHand /\ Len(events') \in {Len(events), Len(events) + 1}
         /\ \A i \in 2..Len(events') : i - 1 \in 1..Len(events) /\ QueryLogs'[i] = QueryLogs[i - 1]
<1> DEFINE n == Len(events)
           m == Len(events')
           at(i) == ((head - i + n) % n) + 1
           at2(i) == ((head' - i + m) % m) + 1
<1>1. /\ n \in Nat /\ events \in [1..n -> EventIds] /\ head \in 0..RingCap - 1
      /\ n <= RingCap /\ RingCap \in Nat \ {0} /\ (n < RingCap => head = 0)
      /\ inHand \in EventIds
  BY LogAssumption DEF LogTypeOK, WorkerStores
<1>2. \A i \in 1..n : at(i) \in 1..n /\ QueryLogs[i] = events[at(i)]
  BY LogsAre
<1>3. \A i \in 1..m : at2(i) \in 1..m /\ QueryLogs'[i] = events'[at2(i)]
  <2>1. /\ QueryLogs' = [i \in 1..m |-> events'[at2(i)]]
    BY DEF QueryLogs
  <2>2. m \in Nat /\ head' \in Int
    BY LogAssumption DEF LogTypeOK
  <2> QED
    BY <2>1, <2>2
<1>4. ASSUME n < RingCap
      PROVE  /\ QueryLogs'[1] = inHand /\ m \in {n, n + 1}
             /\ \A i \in 2..m : i - 1 \in 1..n /\ QueryLogs'[i] = QueryLogs[i - 1]
  <2>1. events' = Append(events, inHand) /\ head = 0 /\ head' = 0
    BY <1>1, <1>4 DEF WorkerStores
  <2>2. m = n + 1 /\ events'[n + 1] = inHand /\ \A j \in 1..n : events'[j] = events[j]
    BY <1>1, <2>1
  <2>3. at2(1) = n + 1
    BY <1>1, <2>1, <2>2
  <2>4. \A i \in 2..m : at2(i) = n + 2 - i /\ at(i - 1) = n + 2 - i
    BY <1>1, <2>1, <2>2
  <2>5. m \in {n, n + 1} /\ 1 \in 1..m /\ \A i \in 2..m : i \in 1..m /\ i - 1 \in 1..n
    BY <1>1, <2>2
  <2>6. \A i \in 2..m : n + 2 - i \in 1..n
    BY <1>1, <2>2
  <2> HIDE DEF at, at2, m, n
  <2>7. QueryLogs'[1] = inHand
    BY <1>3, <2>2, <2>3, <2>5
  <2>8. \A i \in 2..m : QueryLogs'[i] = QueryLogs[i - 1]
    BY <1>2, <1>3, <2>2, <2>4, <2>5, <2>6
  <2> QED
    BY <2>5, <2>7, <2>8
<1>5. ASSUME n = RingCap
      PROVE  /\ QueryLogs'[1] = inHand /\ m \in {n, n + 1}
             /\ \A i \in 2..m : i - 1 \in 1..n /\ QueryLogs'[i] = QueryLogs[i - 1]
  <2>1. events' = [events EXCEPT ![head + 1] = inHand] /\ head' = (head + 1) % n
    BY <1>1, <1>5 DEF WorkerStores
  <2>2. /\ m = n /\ events'[head + 1] = inHand
        /\ \A j \in 1..n : j # head + 1 => events'[j] = events[j]
    BY <1>1, <1>5, <2>1
  <2>3. head' = IF head + 1 = n THEN 0 ELSE head + 1
    BY <1>1, <1>5, <2>1
  <2>4. at2(1) = head + 1
    BY <1>1, <1>5, <2>2, <2>3
  <2>5. \A i \in 2..m : at2(i) = at(i - 1) /\ at2(i) # head + 1
    <3>1. ASSUME NEW i \in 2..m PROVE at2(i) = at(i - 1) /\ at2(i) # head + 1
      <4>1. at(i - 1) = IF head + 1 - i >= 0 THEN head + 2 - i ELSE head + 2 - i + n
        BY <1>1, <1>5, <2>2
      <4>2. at2(i) = IF head + 1 - i >= 0 THEN head + 2 - i ELSE head + 2 - i + n
        BY <1>1, <1>5, <2>2, <2>3
      <4> QED
        BY <1>1, <1>5, <2>2, <4>1, <4>2
    <3> QED
      BY <3>1
  <2>6. m \in {n, n + 1} /\ 1 \in 1..m /\ \A i \in 2..m : i \in 1..m /\ i - 1 \in 1..n
    BY <1>1, <1>5, <2>2
  <2> HIDE DEF at, at2, m, n
  <2>7. QueryLogs'[1] = inHand
    BY <1>3, <2>2, <2>4, <2>6
  <2>8. \A i \in 2..m : QueryLogs'[i] = QueryLogs[i - 1]
    BY <1>2, <1>3, <2>2, <2>5, <2>6
  <2> QED
    BY <2>6, <2>7, <2>8
<1>6. n < RingCap \/ n = RingCap
  <2>1. n \in Nat /\ RingCap \in Nat /\ n <= RingCap
    BY <1>1
  <2> HIDE DEF n
  <2> QED
    BY <2>1
<1>7. /\ QueryLogs'[1] = inHand /\ m \in {n, n + 1}
      /\ \A i \in 2..m : i - 1 \in 1..n /\ QueryLogs'[i] = QueryLogs[i - 1]
  <2> HIDE DEF m, n
  <2> QED
    BY <1>4, <1>5, <1>6
<1> QED
  BY <1>7
-----------------------------------------------------------------------------
(***************************************************************************)
(* Types.                                                                  *)
(***************************************************************************)
LEMMA LogTypeInit == LogInit => LogTypeOK
<1> SUFFICES ASSUME LogInit PROVE LogTypeOK
  OBVIOUS
<1> USE LogAssumption DEF LogInit
<1>1. shown \in [Viewers -> [EventIds -> Nat]]
  BY DEF Feed!Nothing
<1>2. stamped \in [Recorders -> EventIds \cup {0}] /\ lastSentID \in [Viewers -> EventIds \cup {0}]
  OBVIOUS
<1> QED
  BY <1>1, <1>2 DEF LogTypeOK

LEMMA NewEventIsLog ==
  ASSUME LogTypeOK, NEW v \in Viewers, StreamTick(v)
  PROVE  /\ 1 \in 1..Len(events) /\ QueryLogs[1] \in EventIds
         /\ NewEvents(QueryLogs, lastSentID[v]) \subseteq 1..Len(events)
<1>1. NewEvents(QueryLogs, lastSentID[v]) \subseteq 1..Len(events)
  BY LogsAre DEF NewEvents
<1>2. PICK i \in 1..Len(events) : i \in NewEvents(QueryLogs, lastSentID[v])
  BY <1>1 DEF StreamTick
<1>3. Len(events) \in Nat
  BY DEF LogTypeOK
<1>4. 1 \in 1..Len(events)
  BY <1>2, <1>3
<1> QED
  BY <1>1, <1>3, <1>4, LogsAre

LEMMA LogTypeNext == LogTypeOK /\ [LogNext]_logVars => LogTypeOK'
<1> SUFFICES ASSUME LogTypeOK, [LogNext]_logVars PROVE LogTypeOK'
  OBVIOUS
<1> USE LogAssumption DEF LogTypeOK
<1>1. ASSUME NEW r \in Recorders, RecordEvent(r) PROVE LogTypeOK'
  BY <1>1 DEF RecordEvent
<1>2. ASSUME NEW r \in Recorders, HandOver(r) PROVE LogTypeOK'
  BY <1>2 DEF HandOver
<1>3. CASE WorkerReceives
  BY <1>3 DEF WorkerReceives
<1>4. CASE WorkerStores
  <2>1. inHand \in EventIds /\ inHand' = 0
    BY <1>4 DEF WorkerStores
  <2>2. /\ events' \in Seq(EventIds) /\ Len(events') <= RingCap
        /\ head' \in 0..RingCap - 1 /\ (Len(events') < RingCap => head' = 0)
    <3>1. CASE Len(events) < RingCap
      <4>1. events' = Append(events, inHand) /\ head' = head
        BY <1>4, <3>1 DEF WorkerStores
      <4>2. events' \in Seq(EventIds) /\ Len(events') = Len(events) + 1
        BY <2>1, <4>1
      <4> QED
        BY <3>1, <4>1, <4>2
    <3>2. CASE Len(events) = RingCap
      <4>1. events' = [events EXCEPT ![head + 1] = inHand] /\ head' = (head + 1) % RingCap
        BY <1>4, <3>2 DEF WorkerStores
      <4>2. events \in [1..Len(events) -> EventIds] /\ Len(events) \in Nat
        OBVIOUS
      <4>3. events' \in [1..Len(events) -> EventIds]
        BY <2>1, <4>1, <4>2
      <4>4. events' \in Seq(EventIds) /\ Len(events') = Len(events)
        <5> DEFINE n == Len(events)
        <5>1. n \in Nat /\ events' \in [1..n -> EventIds]
          BY <4>2, <4>3
        <5> HIDE DEF n
        <5>2. events' \in Seq(EventIds) /\ Len(events') = n
          BY <5>1
        <5> QED
          BY <5>2 DEF n
      <4>5. head' \in 0..RingCap - 1
        BY <4>1
      <4> QED
        BY <3>2, <4>4, <4>5
    <3> QED
      BY <3>1, <3>2
  <2> QED
    BY <1>4, <2>1, <2>2 DEF WorkerStores
<1>5. CASE Clear
  BY <1>5 DEF Clear
<1>6. ASSUME NEW v \in Viewers, StreamTick(v) PROVE LogTypeOK'
  <2>1. QueryLogs[1] \in EventIds
    BY <1>6, NewEventIsLog
  <2>2. lastSentID' \in [Viewers -> EventIds \cup {0}]
    BY <1>6, <2>1 DEF StreamTick
  <2>3. shown' \in [Viewers -> [EventIds -> Nat]]
    BY <1>6 DEF StreamTick
  <2> QED
    BY <1>6, <2>2, <2>3 DEF StreamTick
<1>7. ASSUME NEW v \in Viewers, Reconnect(v) PROVE LogTypeOK'
  BY <1>7 DEF Reconnect, Feed!Nothing
<1>8. CASE UNCHANGED logVars
  BY <1>8 DEF logVars
<1> QED
  BY <1>1, <1>2, <1>3, <1>4, <1>5, <1>6, <1>7, <1>8 DEF LogNext, LogHorizon

(* The variables of the log always have their types.                         *)
THEOREM LogTypeCorrect == LogSpec => []LogTypeOK
BY LogTypeInit, LogTypeNext, PTL DEF LogSpec
-----------------------------------------------------------------------------
(***************************************************************************)
(* The stream implements the feed.                                         *)
(***************************************************************************)
(* An event that has been numbered and is not in the ring yet.               *)
Waiting(e) ==
  \/ \E r \in Recorders : stamped[r] = e
  \/ \E i \in 1..Len(channel) : channel[i] = e
  \/ inHand = e

(* Numbered events are on their way once, or in the ring.                    *)
WaitsOnce ==
  /\ \A r, s \in Recorders : stamped[r] # 0 /\ stamped[r] = stamped[s] => r = s
  /\ \A i, j \in 1..Len(channel) : channel[i] = channel[j] => i = j
  /\ \A r \in Recorders, i \in 1..Len(channel) : stamped[r] # channel[i]
  /\ inHand # 0 => /\ \A r \in Recorders : stamped[r] # inHand
                   /\ \A i \in 1..Len(channel) : channel[i] # inHand
  /\ \A i \in 1..Len(events) : ~Waiting(QueryLogs[i])

Numbered ==
  /\ \A e \in EventIds : Waiting(e) => e <= logIDCounter
  /\ \A i \in 1..Len(events) : QueryLogs[i] <= logIDCounter

(* What a viewer has been shown is not before the event it has seen last.    *)
ShownBehind ==
  \A v \in Viewers :
    /\ \A e \in EventIds :
         /\ shown[v][e] \in {0, 1}
         /\ shown[v][e] = 1 => ~Waiting(e) /\ e <= logIDCounter /\ lastSentID[v] # 0
    /\ lastSentID[v] # 0 => shown[v][lastSentID[v]] = 1
    /\ \A i \in 1..Len(events) :
         shown[v][QueryLogs[i]] = 1 => \E k \in 1..i : QueryLogs[k] = lastSentID[v]

FeedInv == LogTypeOK /\ WaitsOnce /\ Numbered /\ ShownBehind

LEMMA FeedInit == LogInit => FeedInv
<1> SUFFICES ASSUME LogInit PROVE FeedInv
  OBVIOUS
<1>1. LogTypeOK
  BY LogTypeInit
<1>2. Len(events) = 0 /\ Len(channel) = 0 /\ \A e \in EventIds : ~Waiting(e)
  BY LogAssumption DEF LogInit, Waiting, EventIds
<1>3. WaitsOnce
  BY <1>2 DEF LogInit, WaitsOnce
<1>4. ShownBehind
  BY <1>2 DEF LogInit, ShownBehind, Feed!Nothing
<1> QED
  BY <1>1, <1>2, <1>3, <1>4 DEF FeedInv, Numbered

(* Steps that leave the ring and the viewers alone, and bring no event that  *)
(* is not new.                                                               *)
LEMMA Handed ==
  ASSUME FeedInv, LogTypeOK', UNCHANGED <<events, head, lastSentID, shown>>,
         WaitsOnce', logIDCounter' >= logIDCounter,
         \A e \in EventIds :
           Waiting(e)' => Waiting(e) \/ (logIDCounter < e /\ e <= logIDCounter')
  PROVE  FeedInv'
<1>1. QueryLogs' = QueryLogs
  BY DEF QueryLogs
<1>2. logIDCounter \in Int /\ logIDCounter' \in Int /\ EventIds \subseteq Int
  BY LogAssumption DEF FeedInv, LogTypeOK, EventIds
<1>3. \A i \in 1..Len(events) : QueryLogs[i] \in EventIds
  BY LogsAre DEF FeedInv
<1>4. Numbered'
  <2>1. ASSUME NEW e \in EventIds, Waiting(e)' PROVE e <= logIDCounter'
    BY <1>2, <2>1 DEF FeedInv, Numbered
  <2>2. ASSUME NEW i \in 1..Len(events) PROVE QueryLogs[i] <= logIDCounter'
    <3>1. QueryLogs[i] \in Int /\ QueryLogs[i] <= logIDCounter
      BY <1>2, <1>3 DEF FeedInv, Numbered
    <3> QED
      BY <1>2, <3>1
  <2> QED
    BY <1>1, <2>1, <2>2 DEF Numbered
<1>5. ShownBehind'
  <2> SUFFICES ASSUME NEW v \in Viewers
               PROVE  /\ \A e \in EventIds :
                           /\ shown[v][e] \in {0, 1}
                           /\ shown[v][e] = 1 => ~Waiting(e)' /\ e <= logIDCounter' /\ lastSentID[v] # 0
                      /\ lastSentID[v] # 0 => shown[v][lastSentID[v]] = 1
                      /\ \A i \in 1..Len(events) :
                           shown[v][QueryLogs[i]] = 1 => \E k \in 1..i : QueryLogs[k] = lastSentID[v]
    BY <1>1 DEF ShownBehind
  <2>1. ASSUME NEW e \in EventIds, shown[v][e] = 1
        PROVE  ~Waiting(e)' /\ e <= logIDCounter' /\ lastSentID[v] # 0
    <3>1. ~Waiting(e) /\ e <= logIDCounter /\ lastSentID[v] # 0 /\ e \in Int
      BY <1>2, <2>1 DEF FeedInv, ShownBehind
    <3> QED
      BY <1>2, <3>1
  <2> QED
    BY <2>1 DEF FeedInv, ShownBehind
<1> QED
  BY <1>4, <1>5 DEF FeedInv

(* One lemma for each step of an event, and one for each of a viewer.        *)
LEMMA RecordStep ==
  ASSUME FeedInv, LogTypeOK', NEW r \in Recorders, RecordEvent(r) PROVE FeedInv'
<1> DEFINE new == logIDCounter + 1
<1>1. /\ new \in EventIds /\ new > logIDCounter /\ logIDCounter \in Int
      /\ stamped[r] = 0 /\ stamped' = [stamped EXCEPT ![r] = new] /\ logIDCounter' = new
      /\ UNCHANGED <<channel, inHand, events, head, lastSentID, shown>>
      /\ stamped \in [Recorders -> EventIds \cup {0}]
  BY LogAssumption DEF FeedInv, LogTypeOK, RecordEvent, EventIds
<1>2. ~Waiting(new)
  BY <1>1 DEF FeedInv, Numbered
<1>3. \A i \in 1..Len(events) : QueryLogs[i] \in EventIds /\ QueryLogs[i] # new /\ QueryLogs'[i] = QueryLogs[i]
  <2>1. QueryLogs' = QueryLogs
    BY <1>1 DEF QueryLogs
  <2> QED
    BY <2>1, <1>1, LogsAre DEF FeedInv, Numbered
<1> HIDE DEF new
<1>4. \A s \in Recorders : stamped'[s] = IF s = r THEN new ELSE stamped[s]
  BY <1>1
<1>5. \A e : Waiting(e)' => Waiting(e) \/ e = new
  BY <1>1, <1>4 DEF Waiting
<1>6. WaitsOnce'
  <2>1. \A s, t \in Recorders : stamped'[s] # 0 /\ stamped'[s] = stamped'[t] => s = t
    BY <1>2, <1>4 DEF FeedInv, WaitsOnce, Waiting
  <2>2. \A s \in Recorders, i \in 1..Len(channel) : stamped'[s] # channel[i]
    BY <1>2, <1>4 DEF FeedInv, WaitsOnce, Waiting
  <2>3. inHand # 0 => \A s \in Recorders : stamped'[s] # inHand
    BY <1>2, <1>4 DEF FeedInv, WaitsOnce, Waiting
  <2>4. \A i \in 1..Len(events) : ~Waiting(QueryLogs[i])'
    BY <1>3, <1>5 DEF FeedInv, WaitsOnce
  <2> QED
    BY <1>1, <2>1, <2>2, <2>3, <2>4 DEF FeedInv, WaitsOnce
<1>7. \A e \in EventIds : Waiting(e)' => Waiting(e) \/ (logIDCounter < e /\ e <= logIDCounter')
  <2>1. logIDCounter < new /\ new <= logIDCounter'
    BY <1>1 DEF new
  <2> QED
    BY <1>5, <2>1
<1>8. logIDCounter' >= logIDCounter /\ UNCHANGED <<events, head, lastSentID, shown>>
  BY <1>1 DEF new
<1> QED
  BY <1>6, <1>7, <1>8, Handed

LEMMA HandOverStep ==
  ASSUME FeedInv, LogTypeOK', NEW r \in Recorders, HandOver(r) PROVE FeedInv'
<1>1. /\ stamped[r] # 0 /\ stamped' = [stamped EXCEPT ![r] = 0]
      /\ channel' = IF Len(channel) < QueueCap THEN Append(channel, stamped[r]) ELSE channel
      /\ UNCHANGED <<logIDCounter, inHand, events, head, lastSentID, shown>>
      /\ stamped \in [Recorders -> EventIds \cup {0}] /\ channel \in Seq(EventIds)
      /\ logIDCounter \in Int
  BY LogAssumption DEF FeedInv, LogTypeOK, HandOver, EventIds
<1>2. \A s \in Recorders : stamped'[s] = IF s = r THEN 0 ELSE stamped[s]
  BY <1>1
<1>3. \A i \in 1..Len(channel') :
        \/ i \in 1..Len(channel) /\ channel'[i] = channel[i]
        \/ i = Len(channel) + 1 /\ channel'[i] = stamped[r]
  <2> SUFFICES ASSUME NEW i \in 1..Len(channel')
               PROVE  \/ i \in 1..Len(channel) /\ channel'[i] = channel[i]
                      \/ i = Len(channel) + 1 /\ channel'[i] = stamped[r]
    OBVIOUS
  <2>1. CASE channel' = channel
    <3>1. i \in 1..Len(channel)
      BY <2>1
    <3>2. channel'[i] = channel[i]
      BY <2>1
    <3> QED
      BY <3>1, <3>2
  <2>2. CASE channel' = Append(channel, stamped[r])
    <3>1. /\ Len(channel) \in Nat /\ Len(channel') = Len(channel) + 1
          /\ channel'[Len(channel) + 1] = stamped[r]
          /\ \A j \in 1..Len(channel) : channel'[j] = channel[j]
      BY <1>1, <2>2
    <3>2. i \in 1..Len(channel) \/ i = Len(channel) + 1
      BY <3>1
    <3> QED
      BY <3>1, <3>2
  <2> QED
    BY <1>1, <2>1, <2>2
<1>4. QueryLogs' = QueryLogs
  BY <1>1 DEF QueryLogs
<1>5. \A e : e # 0 /\ Waiting(e)' => Waiting(e)
  BY <1>1, <1>2, <1>3 DEF Waiting
<1>6. 0 \notin EventIds /\ \A i \in 1..Len(events) : QueryLogs[i] \in EventIds
  <2>1. 0 \notin EventIds
    BY DEF EventIds
  <2>2. \A i \in 1..Len(events) : QueryLogs[i] \in EventIds
    BY LogsAre DEF FeedInv
  <2> QED
    BY <2>1, <2>2
<1>7. WaitsOnce'
  <2>1. \A s, t \in Recorders : stamped'[s] # 0 /\ stamped'[s] = stamped'[t] => s = t
    BY <1>2 DEF FeedInv, WaitsOnce
  <2>2. \A i, j \in 1..Len(channel') : channel'[i] = channel'[j] => i = j
    BY <1>3 DEF FeedInv, WaitsOnce
  <2>3. \A s \in Recorders, i \in 1..Len(channel') : stamped'[s] # channel'[i]
    <3>1. \A i \in 1..Len(channel') : channel'[i] \in EventIds
      BY DEF LogTypeOK
    <3> QED
      BY <1>1, <1>2, <1>3, <1>6, <3>1 DEF FeedInv, WaitsOnce
  <2>4. inHand # 0 => /\ \A s \in Recorders : stamped'[s] # inHand
                      /\ \A i \in 1..Len(channel') : channel'[i] # inHand
    BY <1>2, <1>3 DEF FeedInv, WaitsOnce
  <2>5. \A i \in 1..Len(events) : ~Waiting(QueryLogs[i])'
    BY <1>4, <1>5, <1>6 DEF FeedInv, WaitsOnce
  <2> QED
    BY <1>1, <1>4, <2>1, <2>2, <2>3, <2>4, <2>5 DEF WaitsOnce
<1>8. \A e \in EventIds : Waiting(e)' => Waiting(e) \/ (logIDCounter < e /\ e <= logIDCounter')
  BY <1>5, <1>6
<1>9. logIDCounter' >= logIDCounter /\ UNCHANGED <<events, head, lastSentID, shown>>
  BY <1>1
<1> QED
  BY <1>7, <1>8, <1>9, Handed

LEMMA ReceiveStep ==
  ASSUME FeedInv, LogTypeOK', WorkerReceives PROVE FeedInv'
<1>1. /\ inHand = 0 /\ inHand' = channel[1] /\ inHand' \in EventIds /\ channel' = Tail(channel)
      /\ UNCHANGED <<stamped, logIDCounter, events, head, lastSentID, shown>>
      /\ channel \in Seq(EventIds) /\ channel # <<>> /\ logIDCounter \in Int
  BY LogAssumption DEF FeedInv, LogTypeOK, WorkerReceives, EventIds
<1>2. /\ Len(channel) \in Nat \ {0} /\ Len(channel') = Len(channel) - 1
      /\ \A i \in 1..Len(channel') : i + 1 \in 1..Len(channel) /\ channel'[i] = channel[i + 1]
  BY <1>1
<1>3. QueryLogs' = QueryLogs
  BY <1>1 DEF QueryLogs
<1>4. \A e : e # 0 /\ Waiting(e)' => Waiting(e)
  BY <1>1, <1>2 DEF Waiting
<1>5. 0 \notin EventIds /\ \A i \in 1..Len(events) : QueryLogs[i] \in EventIds
  <2>1. 0 \notin EventIds
    BY DEF EventIds
  <2>2. \A i \in 1..Len(events) : QueryLogs[i] \in EventIds
    BY LogsAre DEF FeedInv
  <2> QED
    BY <2>1, <2>2
<1>6. WaitsOnce'
  <2>1. \A i, j \in 1..Len(channel') : channel'[i] = channel'[j] => i = j
    <3> SUFFICES ASSUME NEW i \in 1..Len(channel'), NEW j \in 1..Len(channel'),
                        channel[i + 1] = channel[j + 1]
                 PROVE  i = j
      BY <1>2
    <3>1. i + 1 = j + 1
      BY <1>2 DEF FeedInv, WaitsOnce
    <3> QED
      BY <3>1, <1>2
  <2>2. \A r \in Recorders, i \in 1..Len(channel') : stamped[r] # channel'[i]
    BY <1>2 DEF FeedInv, WaitsOnce
  <2>3. /\ \A r \in Recorders : stamped[r] # inHand'
        /\ \A i \in 1..Len(channel') : channel'[i] # inHand'
    <3>1. 1 \in 1..Len(channel) /\ \A i \in 1..Len(channel') : i + 1 # 1
      BY <1>2
    <3> QED
      BY <1>1, <1>2, <3>1 DEF FeedInv, WaitsOnce
  <2>4. \A i \in 1..Len(events) : ~Waiting(QueryLogs[i])'
    BY <1>3, <1>4, <1>5 DEF FeedInv, WaitsOnce
  <2> QED
    BY <1>1, <1>3, <2>1, <2>2, <2>3, <2>4 DEF FeedInv, WaitsOnce
<1>7. \A e \in EventIds : Waiting(e)' => Waiting(e) \/ (logIDCounter < e /\ e <= logIDCounter')
  BY <1>4, <1>5
<1>8. logIDCounter' >= logIDCounter /\ UNCHANGED <<events, head, lastSentID, shown>>
  BY <1>1
<1> QED
  BY <1>6, <1>7, <1>8, Handed
LEMMA StoreStep ==
  ASSUME FeedInv, LogTypeOK', WorkerStores PROVE FeedInv'
<1>1. /\ inHand \in EventIds /\ inHand' = 0
      /\ UNCHANGED <<logIDCounter, stamped, channel, lastSentID, shown>>
  BY DEF FeedInv, LogTypeOK, WorkerStores
<1>2. /\ QueryLogs'[1] = inHand
      /\ \A i \in 2..Len(events') : i - 1 \in 1..Len(events) /\ QueryLogs'[i] = QueryLogs[i - 1]
  BY Stored DEF FeedInv
<1>3. /\ Len(events) \in Nat /\ Len(events') \in Nat /\ Len(events') >= Len(events)
      /\ \A i \in 1..Len(events') : i = 1 \/ i \in 2..Len(events')
  <2>1. Len(events) \in Nat /\ Len(events') \in Nat
    BY DEF FeedInv, LogTypeOK
  <2>2. Len(events') \in {Len(events), Len(events) + 1}
    BY Stored DEF FeedInv
  <2> QED
    BY <2>1, <2>2
<1>4. 0 \notin EventIds
  BY DEF EventIds
<1>5. \A e \in EventIds : Waiting(e)' => Waiting(e) /\ e # inHand
  BY <1>1, <1>4 DEF FeedInv, WaitsOnce, Waiting
<1>6. \A i \in 1..Len(events) : QueryLogs[i] \in EventIds
  BY LogsAre DEF FeedInv
<1>7. \A i \in 1..Len(events') : QueryLogs'[i] \in EventIds
  BY <1>1, <1>2, <1>3, <1>6
<1>8. WaitsOnce'
  <2>1. ASSUME NEW i \in 1..Len(events') PROVE ~Waiting(QueryLogs[i])'
    <3>1. CASE i = 1
      BY <1>1, <1>2, <1>5, <3>1
    <3>2. CASE i \in 2..Len(events')
      BY <1>2, <1>5, <1>6, <3>2 DEF FeedInv, WaitsOnce
    <3> QED
      BY <1>3, <3>1, <3>2
  <2> QED
    BY <1>1, <2>1 DEF FeedInv, WaitsOnce
<1>9. Numbered'
  <2>1. Waiting(inHand)
    BY DEF Waiting
  <2>2. \A e \in EventIds : Waiting(e)' => e <= logIDCounter'
    BY <1>1, <1>5 DEF FeedInv, Numbered
  <2>3. \A i \in 1..Len(events') : QueryLogs'[i] <= logIDCounter'
    BY <1>1, <1>2, <1>3, <2>1 DEF FeedInv, Numbered
  <2> QED
    BY <2>2, <2>3 DEF Numbered
<1>10. ShownBehind'
  <2> SUFFICES ASSUME NEW v \in Viewers
               PROVE  /\ \A e \in EventIds :
                           /\ shown[v][e] \in {0, 1}
                           /\ shown[v][e] = 1 =>
                                ~Waiting(e)' /\ e <= logIDCounter /\ lastSentID[v] # 0
                      /\ lastSentID[v] # 0 => shown[v][lastSentID[v]] = 1
                      /\ \A i \in 1..Len(events') :
                           shown[v][QueryLogs'[i]] = 1
                           => \E k \in 1..i : QueryLogs'[k] = lastSentID[v]
    BY <1>1 DEF ShownBehind
  <2>1. \A e \in EventIds :
          /\ shown[v][e] \in {0, 1}
          /\ shown[v][e] = 1 => ~Waiting(e)' /\ e <= logIDCounter /\ lastSentID[v] # 0
    BY <1>5 DEF FeedInv, ShownBehind
  <2>2. shown[v][inHand] # 1
    BY <1>1 DEF FeedInv, ShownBehind, Waiting
  <2>3. ASSUME NEW i \in 1..Len(events'), shown[v][QueryLogs'[i]] = 1
        PROVE  \E k \in 1..i : QueryLogs'[k] = lastSentID[v]
    <3>1. /\ i \in 2..Len(events') /\ i - 1 \in 1..Len(events)
          /\ QueryLogs'[i] = QueryLogs[i - 1]
      BY <1>2, <1>3, <2>2, <2>3
    <3>2. PICK k \in 1..i - 1 : QueryLogs[k] = lastSentID[v]
      BY <2>3, <3>1 DEF FeedInv, ShownBehind
    <3>3. k + 1 \in 2..Len(events') /\ k + 1 \in 1..i /\ (k + 1) - 1 = k
      BY <1>3, <3>1
    <3> QED
      BY <1>2, <3>2, <3>3
  <2> QED
    BY <2>1, <2>3 DEF FeedInv, ShownBehind
<1> QED
  BY <1>8, <1>9, <1>10 DEF FeedInv

LEMMA ClearStep ==
  ASSUME FeedInv, LogTypeOK', Clear PROVE FeedInv'
<1>1. /\ events' = <<>> /\ Len(events') = 0
      /\ UNCHANGED <<logIDCounter, stamped, channel, inHand, lastSentID, shown>>
  BY DEF Clear
<1>2. \A i \in 1..Len(events') : FALSE
  BY <1>1
<1>3. \A e : Waiting(e)' <=> Waiting(e)
  BY <1>1 DEF Waiting
<1>4. WaitsOnce'
  BY <1>1, <1>2 DEF FeedInv, WaitsOnce
<1>5. Numbered'
  BY <1>1, <1>2, <1>3 DEF FeedInv, Numbered
<1>6. ShownBehind'
  BY <1>1, <1>2, <1>3 DEF FeedInv, ShownBehind
<1> QED
  BY <1>4, <1>5, <1>6 DEF FeedInv
LEMMA StreamStep ==
  ASSUME FeedInv, LogTypeOK', NEW v \in Viewers, StreamTick(v)
  PROVE  /\ FeedInv'
         /\ \E batch \in SUBSET EventIds : Feed!Show(v, batch)
<1> DEFINE new   == NewEvents(QueryLogs, lastSentID[v])
           batch == {QueryLogs[i] : i \in new}
<1>1. /\ 1 \in 1..Len(events) /\ QueryLogs[1] \in EventIds /\ new \subseteq 1..Len(events)
      /\ \A i \in 1..Len(events) : QueryLogs[i] \in EventIds
  BY NewEventIsLog, LogsAre DEF FeedInv
<1>2. /\ lastSentID' = [lastSentID EXCEPT ![v] = QueryLogs[1]]
      /\ shown' = [shown EXCEPT ![v] =
           [e \in EventIds |-> IF \E i \in new : QueryLogs[i] = e THEN @[e] + 1 ELSE @[e]]]
      /\ UNCHANGED <<logIDCounter, stamped, channel, inHand, events, head>>
  BY DEF StreamTick
<1>3. /\ lastSentID \in [Viewers -> EventIds \cup {0}]
      /\ shown \in [Viewers -> [EventIds -> Nat]]
  BY DEF FeedInv, LogTypeOK
<1>4. Len(events) \in Nat /\ EventIds \subseteq Nat \ {0} /\ Len(QueryLogs) = Len(events)
  <2>1. Len(events) \in Nat /\ EventIds \subseteq Nat \ {0}
    BY DEF FeedInv, LogTypeOK, EventIds
  <2>2. Len(QueryLogs) = Len(events)
    BY LogsAre DEF FeedInv
  <2> QED
    BY <2>1, <2>2
(* No position that is sent holds an event that was shown.                   *)
<1>5. \A i \in new : shown[v][QueryLogs[i]] = 0
  <2> SUFFICES ASSUME NEW i \in new, shown[v][QueryLogs[i]] # 0 PROVE FALSE
    OBVIOUS
  <2>1. i \in 1..Len(events) /\ QueryLogs[i] \in EventIds
    BY <1>1
  <2>2. shown[v][QueryLogs[i]] = 1 /\ lastSentID[v] # 0
    BY <2>1 DEF FeedInv, ShownBehind
  <2>3. PICK k \in 1..i : QueryLogs[k] = lastSentID[v]
    BY <2>1, <2>2 DEF FeedInv, ShownBehind
  <2>4. QueryLogs[k] > lastSentID[v]
    BY <2>2 DEF NewEvents
  <2>5. lastSentID[v] \in Nat
    <3>1. lastSentID[v] \in EventIds \cup {0}
      BY <1>3
    <3> QED
      BY <3>1 DEF EventIds
  <2> QED
    BY <2>3, <2>4, <2>5
<1>6. batch \subseteq EventIds /\ \A e \in batch : shown[v][e] = 0
  BY <1>1, <1>5
<1>7. shown' = [shown EXCEPT ![v] = [e \in EventIds |-> IF e \in batch THEN 1 ELSE @[e]]]
  <2>1. \A e \in EventIds :
          (IF \E i \in new : QueryLogs[i] = e THEN shown[v][e] + 1 ELSE shown[v][e])
          = IF e \in batch THEN 1 ELSE shown[v][e]
    BY <1>5
  <2> QED
    BY <1>2, <2>1
<1>8. \A e : Waiting(e)' <=> Waiting(e)
  BY <1>2 DEF Waiting
<1>9. QueryLogs' = QueryLogs
  BY <1>2 DEF QueryLogs
<1>10. WaitsOnce' /\ Numbered'
  BY <1>2, <1>8, <1>9 DEF FeedInv, WaitsOnce, Numbered
<1>11. QueryLogs[1] \in batch
  <2>1. PICK i \in new : TRUE
    BY DEF StreamTick
  <2>2. 1 \in new
    <3>1. /\ i \in 1..Len(QueryLogs) /\ i <= Batch
          /\ \A j \in 1..i : lastSentID[v] = 0 \/ QueryLogs[j] > lastSentID[v]
      BY <2>1 DEF NewEvents
    <3>2. 1 \in 1..Len(QueryLogs) /\ 1 <= Batch /\ \A j \in 1..1 : j \in 1..i
      BY <1>4, <3>1, LogAssumption
    <3> QED
      BY <3>1, <3>2 DEF NewEvents
  <2> QED
    BY <2>2
<1> HIDE DEF new
<1>12. ShownBehind'
  <2>1. ASSUME NEW w \in Viewers, w # v
        PROVE  shown'[w] = shown[w] /\ lastSentID'[w] = lastSentID[w]
    BY <1>2, <1>3, <2>1
  <2>2. /\ lastSentID'[v] = QueryLogs[1] /\ lastSentID'[v] # 0
        /\ \A e \in EventIds : shown'[v][e] = IF e \in batch THEN 1 ELSE shown[v][e]
    BY <1>1, <1>3, <1>4, <1>2, <1>7
  <2>3. \A e \in batch : ~Waiting(e) /\ e <= logIDCounter
    BY <1>1 DEF FeedInv, WaitsOnce, Numbered, new
  <2> HIDE DEF batch
  <2>4. ASSUME NEW w \in Viewers, w # v
        PROVE  /\ \A e \in EventIds :
                    /\ shown'[w][e] \in {0, 1}
                    /\ shown'[w][e] = 1 =>
                         ~Waiting(e)' /\ e <= logIDCounter' /\ lastSentID'[w] # 0
               /\ lastSentID'[w] # 0 => shown'[w][lastSentID'[w]] = 1
               /\ \A i \in 1..Len(events') : shown'[w][QueryLogs'[i]] = 1
                     => \E k \in 1..i : QueryLogs'[k] = lastSentID'[w]
    BY <1>2, <1>8, <1>9, <2>1, <2>4 DEF FeedInv, ShownBehind
  <2>5. /\ \A e \in EventIds :
             /\ shown'[v][e] \in {0, 1}
             /\ shown'[v][e] = 1 =>
                  ~Waiting(e)' /\ e <= logIDCounter' /\ lastSentID'[v] # 0
        /\ lastSentID'[v] # 0 => shown'[v][lastSentID'[v]] = 1
    BY <1>1, <1>2, <1>8, <1>11, <2>2, <2>3 DEF FeedInv, ShownBehind
  <2>6. \A i \in 1..Len(events') : \E k \in 1..i : QueryLogs'[k] = lastSentID'[v]
    <3>1. \A i \in 1..Len(events') : 1 \in 1..i
      BY <1>2, <1>4
    <3> QED
      BY <1>9, <2>2, <3>1
  <2> QED
    BY <2>4, <2>5, <2>6 DEF ShownBehind
<1>13. Feed!Show(v, batch)
  <2>1. batch \subseteq 1..logIDCounter
    BY <1>1, <1>4 DEF FeedInv, Numbered, LogTypeOK, EventIds, new
  <2> QED
    BY <1>2, <1>6, <1>7, <2>1 DEF Feed!Show
<1>14. batch \in SUBSET EventIds
  BY <1>6
<1> QED
  BY <1>10, <1>12, <1>13, <1>14 DEF FeedInv

LEMMA ReconnectStep ==
  ASSUME FeedInv, LogTypeOK', NEW v \in Viewers, Reconnect(v)
  PROVE  FeedInv' /\ Feed!Open(v)
<1>1. /\ lastSentID' = [lastSentID EXCEPT ![v] = 0] /\ shown' = [shown EXCEPT ![v] = Feed!Nothing]
      /\ UNCHANGED <<logIDCounter, stamped, channel, inHand, events, head>>
      /\ lastSentID \in [Viewers -> EventIds \cup {0}]
      /\ shown \in [Viewers -> [EventIds -> Nat]]
  BY DEF FeedInv, LogTypeOK, Reconnect
<1>2. QueryLogs' = QueryLogs
  BY <1>1 DEF QueryLogs
<1>3. \A e : Waiting(e)' <=> Waiting(e)
  BY <1>1 DEF Waiting
<1>4. WaitsOnce' /\ Numbered'
  BY <1>1, <1>2, <1>3 DEF FeedInv, WaitsOnce, Numbered
<1>5. \A i \in 1..Len(events) : QueryLogs[i] \in EventIds
  BY LogsAre DEF FeedInv
<1>6. lastSentID'[v] = 0 /\ \A e \in EventIds : shown'[v][e] = 0
  BY <1>1 DEF Feed!Nothing
<1>7. \A w \in Viewers : w # v => shown'[w] = shown[w] /\ lastSentID'[w] = lastSentID[w]
  BY <1>1
<1>8. ShownBehind'
  BY <1>1, <1>2, <1>3, <1>5, <1>6, <1>7 DEF FeedInv, ShownBehind
<1>9. Feed!Open(v)
  BY <1>1 DEF Feed!Open
<1> QED
  BY <1>4, <1>8, <1>9 DEF FeedInv
LEMMA FeedNext == FeedInv /\ [LogNext]_logVars => FeedInv'
<1> SUFFICES ASSUME FeedInv, [LogNext]_logVars PROVE FeedInv'
  OBVIOUS
<1>1. LogTypeOK'
  BY LogTypeNext DEF FeedInv
<1>2. CASE UNCHANGED logVars
  <2>1. UNCHANGED <<logIDCounter, stamped, channel, inHand, events, head, lastSentID, shown>>
    BY <1>2 DEF logVars
  <2>2. QueryLogs' = QueryLogs /\ \A e : Waiting(e)' <=> Waiting(e)
    BY <2>1 DEF QueryLogs, Waiting
  <2>3. WaitsOnce' /\ Numbered' /\ ShownBehind'
    BY <2>1, <2>2 DEF FeedInv, WaitsOnce, Numbered, ShownBehind
  <2> QED
    BY <1>1, <2>3 DEF FeedInv
<1> QED
  BY <1>1, <1>2, RecordStep, HandOverStep, ReceiveStep, StoreStep, ClearStep,
     StreamStep, ReconnectStep DEF LogNext, LogHorizon

LEMMA FeedSimulated == FeedInv /\ [LogNext]_logVars => [Feed!Next]_(Feed!feedVars)
<1> SUFFICES ASSUME FeedInv, [LogNext]_logVars PROVE [Feed!Next]_(Feed!feedVars)
  OBVIOUS
<1> USE DEF Feed!Next, Feed!feedVars
<1>1. LogTypeOK'
  BY LogTypeNext DEF FeedInv
<1>2. ASSUME NEW r \in Recorders, RecordEvent(r) PROVE Feed!Next
  <2> DEFINE new == logIDCounter + 1
  <2>1. new \in EventIds /\ logIDCounter' = new /\ UNCHANGED shown
    BY <1>2 DEF RecordEvent
  <2>2. new \notin 1..logIDCounter /\ 1..new = (1..logIDCounter) \cup {new}
    BY LogAssumption DEF FeedInv, LogTypeOK, EventIds
  <2>3. Feed!Record(new)
    BY <2>1, <2>2 DEF Feed!Record
  <2> QED
    BY <2>1, <2>3
<1>3. ASSUME NEW v \in Viewers, StreamTick(v) PROVE Feed!Next
  BY <1>1, <1>3, StreamStep
<1>4. ASSUME NEW v \in Viewers, Reconnect(v) PROVE Feed!Next
  BY <1>1, <1>4, ReconnectStep
<1>5. CASE UNCHANGED <<logIDCounter, shown>>
  BY <1>5
<1>6. ASSUME NEW r \in Recorders, HandOver(r) PROVE UNCHANGED <<logIDCounter, shown>>
  BY <1>6 DEF HandOver
<1>7. WorkerReceives \/ WorkerStores \/ Clear => UNCHANGED <<logIDCounter, shown>>
  BY DEF WorkerReceives, WorkerStores, Clear
<1>8. UNCHANGED logVars => UNCHANGED <<logIDCounter, shown>>
  BY DEF logVars
<1> QED
  BY <1>2, <1>3, <1>4, <1>5, <1>6, <1>7, <1>8 DEF LogNext, LogHorizon

(* The stream is a feed: whatever the order in which events reach the ring,  *)
(* while it wraps around and is cleared, a viewer is shown only what has     *)
(* been recorded, and nothing twice.                                         *)
THEOREM StreamIsFeed == LogSpec => ShownOnce
<1>1. LogInit => Feed!Init
  <2> SUFFICES ASSUME LogInit PROVE Feed!Init
    OBVIOUS
  <2>1. 1..logIDCounter = {}
    BY DEF LogInit
  <2> QED
    BY <2>1 DEF LogInit, Feed!Init
<1> QED
  BY <1>1, FeedInit, FeedNext, FeedSimulated, PTL DEF LogSpec, ShownOnce, Feed!Spec
-----------------------------------------------------------------------------
(***************************************************************************)
(* Backends.                                                               *)
(***************************************************************************)
(* A backend that is up has been passed over by fewer requests than there    *)
(* are backends which the pointer has left behind since its last turn.       *)
TurnInv ==
  /\ PoolTypeOK
  /\ \A b \in Pool \cap isAlive : waited[b] + Distance(current, b) < size

LEMMA DistanceIs ==
  ASSUME size \in Nat, NEW a \in Pool, NEW b \in Pool
  PROVE  /\ Distance(a, b) \in 0..size - 1
         /\ Distance(a, b) = 0 => a = b
         /\ Succ(a) \in Pool /\ Distance(Succ(a), a) = size - 1
BY DEF Distance, Succ, Pool

(* Who is further away than the one that was chosen comes closer.            *)
LEMMA Closer ==
  ASSUME size \in Nat, NEW c \in Pool, NEW b \in Pool, NEW a \in Pool, a # b,
         Distance(c, b) <= Distance(c, a)
  PROVE  Distance(Succ(b), a) < Distance(c, a)
BY DEF Distance, Succ, Pool

LEMMA TurnInit == PoolInit => TurnInv
<1> SUFFICES ASSUME PoolInit PROVE TurnInv
  OBVIOUS
<1>1. PoolTypeOK
  BY PoolAssumption DEF PoolInit, PoolTypeOK, Positions, Pool
<1> QED
  BY <1>1 DEF PoolInit, TurnInv, Pool

LEMMA TurnNext == TurnInv /\ [PoolNext]_poolVars => TurnInv'
<1> SUFFICES ASSUME TurnInv, [PoolNext]_poolVars PROVE TurnInv'
  OBVIOUS
<1>0. /\ size \in 0..MaxBackends /\ size \in Nat /\ MaxBackends \in Nat \ {0} /\ DownAfter \in Nat
      /\ MaxPools \in Nat /\ Pool \subseteq Positions /\ waited \in [Positions -> Nat]
      /\ current \in Positions /\ (size > 0 => current \in Pool)
      /\ isAlive \subseteq Positions
  BY PoolAssumption DEF TurnInv, PoolTypeOK, Pool, Positions
<1>1. ASSUME NEW s \in Senders, LookUpPool(s) PROVE TurnInv'
  <2>1. sender' \in [Senders -> {"idle", "fresh", "replaced", "http", "websocket"}]
    BY <1>1 DEF LookUpPool, TurnInv, PoolTypeOK
  <2> QED
    BY <1>1, <2>1 DEF LookUpPool, TurnInv, PoolTypeOK, Pool, Distance
<1>2. ASSUME NEW s \in Senders, GetNext(s) PROVE TurnInv'
  <2>1. sender' \in [Senders -> {"idle", "fresh", "replaced", "http", "websocket"}]
    BY <1>2 DEF GetNext, TurnInv, PoolTypeOK
  <2>2. UNCHANGED <<size, isAlive, failures, probe, probing, pools>>
    BY <1>2 DEF GetNext
  <2>3. CASE UNCHANGED <<current, waited>>
    BY <2>1, <2>2, <2>3 DEF TurnInv, PoolTypeOK, Pool, Distance
  <2>4. CASE \E b \in Pool : IsNext(b) /\ Advance(b) /\ CountTurns(b)
    <3>1. PICK b \in Pool : IsNext(b) /\ Advance(b) /\ CountTurns(b)
      BY <2>4
    <3>2. size > 0 /\ current \in Pool
      BY <1>0 DEF Pool
    <3>3. current' \in Pool /\ current' = Succ(b)
      BY <1>0, <3>1, DistanceIs DEF Advance
    <3>4. waited' = [a \in Positions |->
                      IF a \in Pool \cap isAlive /\ a # b THEN waited[a] + 1 ELSE 0]
      BY <3>1 DEF CountTurns
    <3>5. waited' \in [Positions -> Nat]
      BY <1>0, <3>4
    <3>6. PoolTypeOK'
      BY <1>0, <2>1, <2>2, <3>3, <3>5 DEF TurnInv, PoolTypeOK, Pool
    <3>7. ASSUME NEW a \in Pool \cap isAlive
          PROVE  waited'[a] + Distance(current', a) < size
      <4>1. Distance(current', a) \in 0..size - 1
        BY <1>0, <3>3, DistanceIs
      <4>2. CASE a = b
        BY <1>0, <3>4, <4>1, <4>2
      <4>3. CASE a # b
        <5>1. Distance(current, b) <= Distance(current, a)
          BY <3>1 DEF IsNext
        <5>2. Distance(current', a) < Distance(current, a)
          BY <1>0, <3>2, <3>3, <4>3, <5>1, Closer
        <5>3. Distance(current, a) \in 0..size - 1
          BY <1>0, <3>2, DistanceIs
        <5>4. waited[a] \in Nat /\ waited'[a] = waited[a] + 1
          BY <1>0, <3>4, <4>3
        <5>5. waited[a] + Distance(current, a) < size
          BY DEF TurnInv
        <5> QED
          BY <1>0, <4>1, <5>2, <5>3, <5>4, <5>5
      <4> QED
        BY <4>2, <4>3
    <3>8. \A a \in Pool' \cap isAlive' : waited'[a] + Distance(current, a)' < size'
      BY <2>2, <3>7 DEF Pool, Distance
    <3> QED
      BY <3>6, <3>8 DEF TurnInv
  <2> QED
    BY <1>2, <2>3, <2>4 DEF GetNext
<1>3. ASSUME NEW s \in Senders, Answered(s) PROVE TurnInv'
  <2>1. sender' \in [Senders -> {"idle", "fresh", "replaced", "http", "websocket"}]
    BY <1>3 DEF Answered, TurnInv, PoolTypeOK
  <2> QED
    BY <1>3, <2>1 DEF Answered, TurnInv, PoolTypeOK, Pool, Distance
<1>4. ASSUME NEW n \in 0..MaxBackends, UpdateDomains(n) PROVE TurnInv'
  <2>1. /\ size' = n /\ current' = 1 /\ isAlive' = Positions
        /\ failures' = [b \in Positions |-> 0] /\ waited' = [b \in Positions |-> 0]
    BY <1>4 DEF UpdateDomains, NewPool
  <2>2. PoolTypeOK'
    <3>1. sender' \in [Senders -> {"idle", "fresh", "replaced", "http", "websocket"}]
      BY <1>4 DEF UpdateDomains, TurnInv, PoolTypeOK
    <3>2. probe' = probe /\ probe \in 0..MaxBackends /\ probing' \in {"fresh", "replaced"}
          /\ (probing' = "fresh" => probe' <= size') /\ pools' \in 0..MaxPools
      BY <1>4, <1>0, <2>1 DEF UpdateDomains, TurnInv, PoolTypeOK
    <3>3. failures' \in [Positions -> 0..DownAfter] /\ waited' \in [Positions -> Nat]
      BY <1>0, <2>1
    <3>4. current' \in Positions /\ (size' > 0 => current' \in Pool')
      BY <1>0, <2>1 DEF Positions, Pool
    <3> QED
      BY <2>1, <3>1, <3>2, <3>3, <3>4 DEF PoolTypeOK
  <2>3. \A b \in Pool' : waited'[b] + Distance(current, b)' < size'
    BY <1>0, <2>1 DEF Pool, Positions, Distance
  <2> QED
    BY <2>2, <2>3 DEF TurnInv
<1>5. CASE StartChecks
  BY <1>5, <1>0 DEF StartChecks, TurnInv, PoolTypeOK, Pool, Distance
<1>6. CASE Check
  <2>1. UNCHANGED <<size, current, sender, probing, pools>> /\ probe > 0 /\ probe \in 0..MaxBackends
    BY <1>6 DEF Check, TurnInv, PoolTypeOK
  <2>2. CASE probing = "replaced"
    <3>1. probe' \in {0, probe} /\ UNCHANGED <<isAlive, failures, waited>>
      BY <1>6, <2>2 DEF Check
    <3>2. PoolTypeOK'
      <4>1. probe' \in 0..MaxBackends /\ probing' # "fresh"
        BY <1>0, <2>1, <2>2, <3>1
      <4> QED
        BY <2>1, <3>1, <4>1 DEF TurnInv, PoolTypeOK, Pool
    <3> QED
      BY <2>1, <3>1, <3>2 DEF TurnInv, Pool, Distance
  <2>3. CASE probing = "fresh"
    <3>1. PICK up \in BOOLEAN : Found(probe, up)
      BY <1>6, <2>3 DEF Check
    <3>2. probe <= size /\ probe \in Pool /\ probe \in Positions
      BY <1>0, <2>1, <2>3 DEF TurnInv, PoolTypeOK, Pool, Positions
    <3>3. failures' \in [Positions -> 0..DownAfter]
      BY <1>0, <3>1, <3>2 DEF Found, TurnInv, PoolTypeOK
    <3>4. isAlive' \in {isAlive, isAlive \cup {probe}, isAlive \ {probe}}
      BY <3>1 DEF Found
    <3>5. waited' = IF probe \in isAlive THEN waited ELSE [waited EXCEPT ![probe] = 0]
      BY <3>1 DEF Found
    <3>6. waited' \in [Positions -> Nat]
      BY <1>0, <3>5
    <3>7. probe' \in 0..MaxBackends /\ probe' <= size
      BY <1>6, <1>0, <2>1, <2>3, <3>2 DEF Check
    <3>8. PoolTypeOK'
      BY <1>0, <2>1, <2>3, <3>2, <3>3, <3>4, <3>6, <3>7 DEF TurnInv, PoolTypeOK, Pool
    <3>9. ASSUME NEW b \in Pool \cap isAlive' PROVE waited'[b] + Distance(current, b) < size
      <4>1. CASE b \in isAlive
        <5>1. waited'[b] = waited[b]
          BY <1>0, <3>5, <4>1
        <5> QED
          BY <4>1, <5>1 DEF TurnInv
      <4>2. CASE b \notin isAlive
        <5>1. b = probe /\ waited'[b] = 0
          BY <1>0, <3>2, <3>4, <3>5, <4>2
        <5>2. Distance(current, b) \in 0..size - 1
          <6>1. current \in Pool
            BY <1>0 DEF Pool
          <6> QED
            BY <1>0, <6>1, DistanceIs
        <5> QED
          BY <1>0, <5>1, <5>2
      <4> QED
        BY <4>1, <4>2
    <3>10. \A b \in Pool' \cap isAlive' : waited'[b] + Distance(current, b)' < size'
      BY <2>1, <3>9 DEF Pool, Distance
    <3> QED
      BY <3>8, <3>10 DEF TurnInv
  <2> QED
    BY <1>6, <2>2, <2>3 DEF Check
<1>7. CASE UNCHANGED poolVars
  BY <1>7 DEF poolVars, TurnInv, PoolTypeOK, Pool, Distance
<1> QED
  BY <1>1, <1>2, <1>3, <1>4, <1>5, <1>6, <1>7 DEF PoolNext

(* A backend that is up is passed over by fewer requests than its pool has   *)
(* backends, however the others fail, recover and are replaced.              *)
THEOREM TurnsAreFair == PoolSpec => []FairTurn
<1>1. TurnInv => FairTurn
  <2> SUFFICES ASSUME TurnInv, NEW b \in Pool \cap isAlive PROVE waited[b] < size
    BY DEF FairTurn
  <2>1. size \in Nat /\ current \in Pool /\ waited[b] \in Nat
    BY PoolAssumption DEF TurnInv, PoolTypeOK, Pool, Positions
  <2>2. Distance(current, b) \in 0..size - 1
    BY <2>1, DistanceIs
  <2> QED
    BY <2>1, <2>2 DEF TurnInv
<1> QED
  BY TurnInit, TurnNext, <1>1, PTL DEF PoolSpec
-----------------------------------------------------------------------------
(***************************************************************************)
(* The response cache.                                                     *)
(***************************************************************************)
(* What is kept for all was asked for, answered and stored in this order,    *)
(* and was not yet replaced when it was asked for.                           *)
Shareable(e) ==
  /\ e \in Entries /\ e.kind = "keyed" /\ e.marks = {}
  /\ e.asked <= e.stored /\ e.stored <= now /\ e.asked <= retired[e.version]

CacheInv ==
  /\ CacheTypeOK
  /\ cache # NoEntry => Shareable(cache)
  /\ served # NoEntry => Shareable(served) /\ now <= served.stored + TTL
  /\ \A c \in Clients :
       /\ carries[c].asked <= now
       /\ client[c] = "reply" => /\ carries[c].version \in Contents
                                 /\ carries[c].asked <= retired[carries[c].version]
  /\ \A v \in Contents : v >= version => retired[v] = MaxNow + 1

(* The cache: the invariant holds at the start.                              *)
LEMMA CacheInvInit == CacheInit => CacheInv
<1> SUFFICES ASSUME CacheInit PROVE CacheInv
  OBVIOUS
<1> USE CacheAssumption DEF CacheInit, Contents
<1>1. enabled \in BOOLEAN
  OBVIOUS
<1>2. NoReply \in Replies
  BY DEF NoReply, Replies, Kinds
<1>3. CacheTypeOK
  BY <1>1, <1>2 DEF CacheTypeOK
<1> QED
  BY <1>3 DEF CacheInv, NoReply

(* An entry that may be shown may be shown later, whatever is published.     *)
LEMMA StaysShareable ==
  ASSUME CacheInv, now' \in Nat, now' >= now,
         \A v \in Contents : retired'[v] = retired[v] \/ retired'[v] = now,
         NEW e, Shareable(e)
  PROVE  Shareable(e)'
<1>1. /\ e \in Entries /\ e.version \in Contents /\ e.asked \in Nat /\ e.stored \in Nat
      /\ now \in Nat /\ retired[e.version] \in Nat
  BY CacheAssumption DEF Shareable, Entries, CacheInv, CacheTypeOK
<1>2. e.asked <= e.stored /\ e.stored <= now /\ e.asked <= retired[e.version]
      /\ e.kind = "keyed" /\ e.marks = {}
  BY DEF Shareable
<1>3. e.asked <= retired'[e.version]
  BY <1>1, <1>2
<1>4. e.stored <= now'
  BY <1>1, <1>2
<1> QED
  BY <1>1, <1>2, <1>3, <1>4 DEF Shareable

(* Requests, stores, reloads and the backend keep it.                        *)
LEMMA CacheInvNext == CacheInv /\ [CacheNext]_cacheVars => CacheInv'
<1> SUFFICES ASSUME CacheInv, [CacheNext]_cacheVars PROVE CacheInv'
  OBVIOUS
<1>0. /\ CacheTypeOK /\ now \in Nat /\ TTL \in Nat /\ MaxNow \in Nat /\ version \in Nat
      /\ now \in 0..MaxNow /\ retired \in [Contents -> 0..MaxNow + 1] /\ version \in Contents
      /\ client \in [Clients -> {"none", "fetch", "reply"}] /\ carries \in [Clients -> Replies]
      /\ cache # NoEntry => Shareable(cache)
      /\ served # NoEntry => Shareable(served) /\ now <= served.stored + TTL
      /\ \A v \in Contents : v >= version => retired[v] = MaxNow + 1
  BY CacheAssumption DEF CacheInv, CacheTypeOK, Contents
<1>c. ASSUME NEW c \in Clients
      PROVE  /\ carries[c].asked \in Nat /\ carries[c].asked <= now /\ carries[c] \in Replies
             /\ client[c] = "reply" => /\ carries[c].version \in Contents
                                       /\ carries[c].asked <= retired[carries[c].version]
  BY <1>0 DEF CacheInv, Replies
<1>n. NoReply \in Replies /\ NoReply.asked = 0
  BY CacheAssumption DEF NoReply, Replies, Kinds
<1>1. ASSUME NEW c \in Clients, NEW personal \in BOOLEAN, Ask(c, personal) PROVE CacheInv'
  <2> DEFINE kind == IF personal THEN "personal" ELSE IF enabled /\ ~personal THEN "keyed" ELSE "plain"
             r == [kind |-> kind, asked |-> now, version |-> 0]
  <2>1. UNCHANGED <<enabled, version, retired, now, toggles>>
    BY <1>1 DEF Ask
  <2>2. cache' \in {cache, NoEntry} /\ served' \in {cache, NoEntry}
        /\ (served' # NoEntry => served' = cache /\ cache # NoEntry /\ ~Expired(cache))
    BY <1>1 DEF Ask
  <2>3. \/ UNCHANGED <<client, carries>>
        \/ client' = [client EXCEPT ![c] = "fetch"] /\ carries' = [carries EXCEPT ![c] = r]
    BY <1>1, Zenon DEF Ask
  <2>4. r \in Replies /\ r.asked = now
    <3>1. kind \in Kinds
      BY DEF Kinds
    <3> HIDE DEF kind
    <3> QED
      BY <1>0, <3>1 DEF Replies
  <2> HIDE DEF r
  <2>5. CacheTypeOK'
    BY <1>0, <2>1, <2>2, <2>3, <2>4 DEF CacheTypeOK
  <2>6. \A x : Shareable(x) => Shareable(x)'
    BY <2>1 DEF Shareable
  <2>7. served' # NoEntry => now' <= served'.stored + TTL
    <3> SUFFICES ASSUME served' # NoEntry PROVE now <= cache.stored + TTL
      BY <2>1, <2>2
    <3>1. cache.stored \in Nat
      BY <1>0, <2>2 DEF Shareable, Entries
    <3> QED
      BY <1>0, <2>2, <3>1 DEF Expired
  <2>8. ASSUME NEW d \in Clients
        PROVE  /\ carries'[d].asked <= now'
               /\ client'[d] = "reply" => /\ carries'[d].version \in Contents
                                          /\ carries'[d].asked <= retired'[carries'[d].version]
    BY <1>0, <1>c, <2>1, <2>3, <2>4
  <2> QED
    BY <1>0, <2>1, <2>2, <2>5, <2>6, <2>7, <2>8 DEF CacheInv
<1>2. ASSUME NEW c \in Clients, BackendAnswers(c) PROVE CacheInv'
  <2>1. /\ client' = [client EXCEPT ![c] = "reply"]
        /\ carries' = [carries EXCEPT ![c] = [@ EXCEPT !.version = version]]
        /\ UNCHANGED <<enabled, cache, version, retired, now, served, toggles>>
    BY <1>2 DEF BackendAnswers
  <2>2. [carries[c] EXCEPT !.version = version] \in Replies
    BY <1>0, <1>c DEF Replies
  <2>3. CacheTypeOK'
    BY <1>0, <2>1, <2>2 DEF CacheTypeOK
  <2>4. \A x : Shareable(x) => Shareable(x)'
    BY <2>1 DEF Shareable
  <2>5. /\ carries'[c].asked = carries[c].asked /\ carries'[c].version = version
        /\ \A d \in Clients : d # c => carries'[d] = carries[d] /\ client'[d] = client[d]
    BY <1>0, <1>c, <2>1 DEF Replies
  <2>6. carries[c].asked <= retired[version]
    BY <1>0, <1>c
  <2>7. ASSUME NEW d \in Clients
        PROVE  /\ carries'[d].asked <= now'
               /\ client'[d] = "reply" => /\ carries'[d].version \in Contents
                                          /\ carries'[d].asked <= retired'[carries'[d].version]
    BY <1>0, <1>c, <2>1, <2>5, <2>6
  <2> QED
    BY <1>0, <2>1, <2>3, <2>4, <2>7 DEF CacheInv
<1>3. ASSUME NEW c \in Clients, client' = [client EXCEPT ![c] = "none"],
             carries' = [carries EXCEPT ![c] = NoReply],
             UNCHANGED <<enabled, version, retired, now, served, toggles>>,
             NEW e \in Entries, cache' = cache \/ (cache' = e /\ Shareable(e))
      PROVE  CacheInv'
  <2>1. CacheTypeOK'
    BY <1>0, <1>3, <1>n DEF CacheTypeOK
  <2>2. \A x : Shareable(x) => Shareable(x)'
    BY <1>3 DEF Shareable
  <2>3. ASSUME NEW d \in Clients
        PROVE  /\ carries'[d].asked <= now'
               /\ client'[d] = "reply" => /\ carries'[d].version \in Contents
                                          /\ carries'[d].asked <= retired'[carries'[d].version]
    BY <1>0, <1>c, <1>n, <1>3
  <2> QED
    BY <1>0, <1>3, <2>1, <2>2, <2>3 DEF CacheInv
<1>4. ASSUME NEW c \in Clients, NEW marks \in SUBSET Marks, NEW public \in BOOLEAN,
             Store(c, marks, public)
      PROVE  CacheInv'
  <2> DEFINE r == carries[c]
             entry == [kind |-> r.kind, asked |-> r.asked, version |-> r.version,
                       stored |-> now, marks |-> marks, public |-> public]
  <2>1. cache' = cache \/ (cache' = entry /\ r.kind = "keyed" /\ Storable(marks, public))
    BY <1>4, Zenon DEF Store
  <2>2. client[c] = "reply"
    BY <1>4 DEF Store
  <2>3. entry \in Entries
    BY <1>0, <1>c, <2>2 DEF Entries, Replies
  <2>4. r.kind = "keyed" /\ Storable(marks, public) => Shareable(entry)
    BY <1>0, <1>c, <2>2, <2>3 DEF Shareable, Storable
  <2> HIDE DEF entry, r
  <2>5. cache' = cache \/ (cache' = entry /\ Shareable(entry))
    BY <2>1, <2>4
  <2>6. /\ client' = [client EXCEPT ![c] = "none"] /\ carries' = [carries EXCEPT ![c] = NoReply]
        /\ UNCHANGED <<enabled, version, retired, now, served, toggles>>
    BY <1>4 DEF Store
  <2> QED
    BY <1>3, <2>3, <2>5, <2>6
<1>5. ASSUME NEW c \in Clients, Fail(c) PROVE CacheInv'
  <2>1. [kind |-> "keyed", asked |-> 0, version |-> 1, stored |-> 0, marks |-> {},
         public |-> TRUE] \in Entries
    BY CacheAssumption DEF Entries, Kinds, Contents
  <2>2. /\ client' = [client EXCEPT ![c] = "none"] /\ carries' = [carries EXCEPT ![c] = NoReply]
        /\ UNCHANGED <<enabled, cache, version, retired, now, served, toggles>>
    BY <1>5 DEF Fail
  <2> QED
    BY <1>3, <2>1, <2>2
<1>6. CASE Evict
  <2>1. CacheTypeOK'
    BY <1>0, <1>6 DEF Evict, CacheTypeOK
  <2>2. \A x : Shareable(x) => Shareable(x)'
    BY <1>6 DEF Evict, Shareable
  <2> QED
    BY <1>0, <1>6, <1>c, <2>1, <2>2 DEF Evict, CacheInv
<1>7. CASE Toggle
  <2>1. enabled' \in BOOLEAN
    BY <1>7, Zenon DEF Toggle
  <2>2. CacheTypeOK'
    BY <1>0, <1>7, <2>1, CacheAssumption DEF Toggle, CacheTypeOK
  <2>3. \A x : Shareable(x) => Shareable(x)'
    BY <1>7 DEF Toggle, Shareable
  <2> QED
    BY <1>0, <1>7, <1>c, <2>2, <2>3 DEF Toggle, CacheInv
<1>8. CASE Publish
  <2>1. /\ version < MaxVersion /\ version' = version + 1
        /\ retired' = [retired EXCEPT ![version] = now]
        /\ UNCHANGED <<enabled, cache, client, carries, now, served, toggles>>
    BY <1>8 DEF Publish
  <2>2. /\ \A v \in Contents : retired'[v] = IF v = version THEN now ELSE retired[v]
        /\ version' \in Contents /\ retired' \in [Contents -> 0..MaxNow + 1]
    BY <1>0, <2>1, CacheAssumption DEF Contents
  <2>3. CacheTypeOK'
    BY <1>0, <2>1, <2>2 DEF CacheTypeOK
  <2>4. \A x : Shareable(x) => Shareable(x)'
    BY <1>0, <2>1, <2>2, StaysShareable
  <2>5. ASSUME NEW d \in Clients
        PROVE  /\ carries'[d].asked <= now'
               /\ client'[d] = "reply" => /\ carries'[d].version \in Contents
                                          /\ carries'[d].asked <= retired'[carries'[d].version]
    BY <1>c, <2>1, <2>2
  <2>6. \A v \in Contents : v >= version' => retired'[v] = MaxNow + 1
    BY <1>0, <2>1, <2>2 DEF Contents
  <2> QED
    BY <1>0, <2>1, <2>3, <2>4, <2>5, <2>6 DEF CacheInv
<1>9. CASE CacheTick
  <2>1. /\ now' = now + 1 /\ now' \in 0..MaxNow /\ served' = NoEntry
        /\ UNCHANGED <<enabled, cache, client, carries, version, retired, toggles>>
    BY <1>0, <1>9 DEF CacheTick
  <2>2. CacheTypeOK'
    BY <1>0, <2>1 DEF CacheTypeOK
  <2>3. \A x : Shareable(x) => Shareable(x)'
    BY <1>0, <2>1, StaysShareable
  <2>4. ASSUME NEW d \in Clients
        PROVE  /\ carries'[d].asked <= now'
               /\ client'[d] = "reply" => /\ carries'[d].version \in Contents
                                          /\ carries'[d].asked <= retired'[carries'[d].version]
    BY <1>0, <1>c, <2>1
  <2> QED
    BY <1>0, <2>1, <2>2, <2>3, <2>4 DEF CacheInv
<1>10. CASE UNCHANGED cacheVars
  BY <1>10 DEF cacheVars, CacheInv, CacheTypeOK, Shareable
<1> QED
  BY <1>1, <1>2, <1>4, <1>5, <1>6, <1>7, <1>8, <1>9, <1>10 DEF CacheNext

(* ServedFresh in every reachable state: nobody is shown from the cache what *)
(* had been replaced for longer than the time to live and the time its       *)
(* request took, nor what was made for one client.                           *)
THEOREM CacheServesFresh == CacheSpec => [](CacheTypeOK /\ ServedFresh)
<1>1. ASSUME CacheInv PROVE CacheTypeOK /\ ServedFresh
  <2> SUFFICES ASSUME served # NoEntry
               PROVE  /\ now <= retired[served.version] + TTL + (served.stored - served.asked)
                      /\ served.kind # "personal" /\ served.marks = {}
    BY <1>1 DEF CacheInv, ServedFresh
  <2>1. Shareable(served) /\ now <= served.stored + TTL /\ now \in Nat /\ TTL \in Nat
    BY <1>1, CacheAssumption DEF CacheInv, CacheTypeOK
  <2>2. /\ served.asked \in Nat /\ served.stored \in Nat /\ retired[served.version] \in Nat
        /\ served.asked <= retired[served.version]
        /\ served.kind = "keyed" /\ served.marks = {}
    BY <1>1, <2>1, CacheAssumption DEF CacheInv, CacheTypeOK, Shareable, Entries
  <2> QED
    BY <2>1, <2>2
<1> QED
  BY <1>1, CacheInvInit, CacheInvNext, PTL DEF CacheSpec
-----------------------------------------------------------------------------
(***************************************************************************)
(* The alert queue.                                                        *)
(***************************************************************************)
(* An alert waits in the queue once, and nothing is posted before its turn;  *)
(* each post is taken once at most.                                          *)
AlertInv ==
  /\ AlertTypeOK
  /\ \A i \in DOMAIN queue : /\ queue[i] \in raised
                             /\ \A c \in Channels : post[queue[i]][c] = 0
  /\ \A i, j \in DOMAIN queue : queue[i] = queue[j] => i = j
  /\ \A a \in Alerts, c \in Channels :
       /\ a \notin raised => post[a][c] = 0
       /\ received[a][c] <= post[a][c]
       /\ post[a][c] > 0 => received[a][c] < post[a][c]

(* The queue: the invariant holds at the start.                              *)
LEMMA AlertInvInit == AlertInit => AlertInv
  BY AlertAssumption DEF AlertInit, AlertInv, AlertTypeOK, Settled

(* Alerts, their turns, posts and reloads keep it.                           *)
LEMMA AlertInvNext == AlertInv /\ [AlertNext]_alertVars => AlertInv'
<1> SUFFICES ASSUME AlertInv, [AlertNext]_alertVars PROVE AlertInv'
  OBVIOUS
<1>0. /\ AlertTypeOK /\ queue \in Seq(Alerts) /\ Len(queue) \in Nat /\ DOMAIN queue = 1..Len(queue)
      /\ AlertCap \in Nat /\ Attempts \in Nat \ {0} /\ MaxReloads \in Nat /\ Len(queue) <= AlertCap
      /\ post \in [Alerts -> [Channels -> 0..Settled]]
      /\ received \in [Alerts -> [Channels -> 0..Attempts]]
      /\ raised \subseteq Alerts /\ connected \subseteq Channels
  BY AlertAssumption DEF AlertInv, AlertTypeOK
<1>1. ASSUME NEW a \in Alerts, SendAllRich(a) PROVE AlertInv'
  <2>1. /\ a \notin raised /\ raised' = raised \cup {a}
        /\ UNCHANGED <<enabledOn, post, connected, received, reloads>>
    BY <1>1 DEF SendAllRich
  <2>2. \/ queue' = queue
        \/ queue' = Append(queue, a) /\ Len(queue) < AlertCap
    BY <1>1 DEF SendAllRich
  <2>3. CASE queue' = queue
    BY <1>0, <2>1, <2>3 DEF AlertInv, AlertTypeOK, Settled
  <2>4. CASE queue' = Append(queue, a) /\ Len(queue) < AlertCap
    <3>1. /\ queue' \in Seq(Alerts) /\ Len(queue') = Len(queue) + 1 /\ DOMAIN queue' = 1..Len(queue) + 1
          /\ \A i \in DOMAIN queue' : queue'[i] = IF i = Len(queue) + 1 THEN a ELSE queue[i]
      BY <1>0, <2>4
    <3>2. AlertTypeOK'
      BY <1>0, <2>1, <2>4, <3>1 DEF AlertTypeOK, Settled
    <3>3. \A i \in DOMAIN queue' : /\ queue'[i] \in raised'
                                   /\ \A c \in Channels : post'[queue'[i]][c] = 0
      <4>1. \A c \in Channels : post[a][c] = 0
        BY <2>1 DEF AlertInv
      <4>2. \A i \in DOMAIN queue : /\ queue[i] \in raised
                                    /\ \A c \in Channels : post[queue[i]][c] = 0
        BY DEF AlertInv
      <4>3. \A i \in DOMAIN queue' : queue'[i] = a \/ (i \in DOMAIN queue /\ queue'[i] = queue[i])
        BY <1>0, <3>1
      <4> QED
        BY <2>1, <4>1, <4>2, <4>3, Zenon
    <3>4. \A i, j \in DOMAIN queue' : queue'[i] = queue'[j] => i = j
      <4>1. \A i \in DOMAIN queue : queue[i] # a
        BY <2>1 DEF AlertInv
      <4> QED
        BY <1>0, <3>1, <4>1 DEF AlertInv
    <3> QED
      BY <2>1, <3>2, <3>3, <3>4 DEF AlertInv
  <2> QED
    BY <2>2, <2>3, <2>4
<1>2. ASSUME NEW a \in Alerts, NEW c \in Channels, NEW answer \in Answers, Post(a, c, answer)
      PROVE  AlertInv'
  <2>1. /\ post[a][c] \in 1..Attempts
        /\ received' = [received EXCEPT ![a][c] = IF answer.taken THEN @ + 1 ELSE @]
        /\ post' = [post EXCEPT ![a][c] = IF answer.ok THEN Settled ELSE @ + 1]
        /\ UNCHANGED <<queue, raised, enabledOn, reloads>>
    BY <1>2 DEF Post
  <2>2. connected' \subseteq Channels
    BY <1>0, <1>2 DEF Post
  <2>3. received[a][c] \in 0..Attempts /\ received[a][c] < post[a][c]
    BY <1>0, <2>1 DEF AlertInv
  <2> DEFINE n == received'[a][c]
             q == post'[a][c]
  <2>4. n \in 0..Attempts /\ q \in 1..Settled /\ n < q
    BY <1>0, <2>1, <2>3 DEF Settled
  <2>5. \A b \in Alerts, d \in Channels : b # a \/ d # c =>
          received'[b][d] = received[b][d] /\ post'[b][d] = post[b][d]
    BY <1>0, <2>1
  <2>6. /\ received' \in [Alerts -> [Channels -> 0..Attempts]]
        /\ post' \in [Alerts -> [Channels -> 0..Settled]]
    <3>1. [received[a] EXCEPT ![c] = IF answer.taken THEN @ + 1 ELSE @] \in [Channels -> 0..Attempts]
      BY <1>0, <2>1, <2>3 DEF Settled
    <3>2. [post[a] EXCEPT ![c] = IF answer.ok THEN Settled ELSE @ + 1] \in [Channels -> 0..Settled]
      BY <1>0, <2>1 DEF Settled
    <3> QED
      BY <1>0, <2>1, <3>1, <3>2
  <2>7. AlertTypeOK'
    BY <1>0, <2>1, <2>2, <2>6 DEF AlertTypeOK, Settled
  <2>8. a \in raised /\ \A i \in DOMAIN queue : queue[i] # a
    BY <2>1 DEF AlertInv
  <2> HIDE DEF n, q
  <2>9. \A b \in Alerts, d \in Channels :
          /\ b \notin raised' => post'[b][d] = 0
          /\ received'[b][d] <= post'[b][d]
          /\ post'[b][d] > 0 => received'[b][d] < post'[b][d]
    <3> SUFFICES ASSUME NEW b \in Alerts, NEW d \in Channels
                 PROVE  /\ b \notin raised' => post'[b][d] = 0
                        /\ received'[b][d] <= post'[b][d]
                        /\ post'[b][d] > 0 => received'[b][d] < post'[b][d]
      OBVIOUS
    <3>1. CASE b = a /\ d = c
      BY <2>1, <2>4, <2>8, <3>1 DEF n, q, Settled
    <3>2. CASE b # a \/ d # c
      BY <2>1, <2>5, <3>2 DEF AlertInv
    <3> QED
      BY <3>1, <3>2
  <2>10. \A i \in DOMAIN queue' : /\ queue'[i] \in raised'
                                  /\ \A d \in Channels : post'[queue'[i]][d] = 0
    BY <1>0, <2>1, <2>5, <2>8 DEF AlertInv
  <2> QED
    BY <2>1, <2>7, <2>9, <2>10 DEF AlertInv
<1>3. CASE RunJob
  <2> DEFINE a == Head(queue)
             f == [c \in Channels |-> IF c \in enabledOn THEN 1 ELSE Settled]
  <2>1. /\ queue # <<>> /\ queue' = Tail(queue) /\ post' = [post EXCEPT ![a] = f]
        /\ UNCHANGED <<raised, enabledOn, connected, received, reloads>>
    BY <1>3 DEF RunJob
  <2>2. /\ a = queue[1] /\ a \in Alerts /\ 1 \in DOMAIN queue /\ Len(queue) > 0
        /\ queue' \in Seq(Alerts) /\ Len(queue') = Len(queue) - 1 /\ DOMAIN queue' = 1..Len(queue) - 1
        /\ \A i \in DOMAIN queue' : queue'[i] = queue[i + 1] /\ i + 1 \in DOMAIN queue
    BY <1>0, <2>1
  <2>3. f \in [Channels -> 0..Settled] /\ \A c \in Channels : f[c] > 0
    BY <1>0 DEF Settled
  <2> HIDE DEF a, f
  <2>4. \A b \in Alerts : post'[b] = IF b = a THEN f ELSE post[b]
    BY <1>0, <2>1
  <2>5. a \in raised /\ \A c \in Channels : received[a][c] = 0
    <3>1. a \in raised /\ \A c \in Channels : post[a][c] = 0
      BY <2>2 DEF AlertInv
    <3>2. \A c \in Channels : received[a][c] \in Nat /\ received[a][c] <= post[a][c]
      BY <1>0, <2>2 DEF AlertInv
    <3> QED
      BY <3>1, <3>2
  <2>6. AlertTypeOK'
    BY <1>0, <2>1, <2>2, <2>3 DEF AlertTypeOK, Settled
  <2>7. \A i \in DOMAIN queue' : queue'[i] # a
    BY <2>2 DEF AlertInv
  <2>8. \A i \in DOMAIN queue' : /\ queue'[i] \in raised'
                                 /\ \A c \in Channels : post'[queue'[i]][c] = 0
    BY <1>0, <2>1, <2>2, <2>4, <2>7 DEF AlertInv
  <2>9. \A i, j \in DOMAIN queue' : queue'[i] = queue'[j] => i = j
    <3> SUFFICES ASSUME NEW i \in DOMAIN queue', NEW j \in DOMAIN queue', queue'[i] = queue'[j]
                 PROVE  i = j
      OBVIOUS
    <3>1. i + 1 = j + 1
      BY <2>2 DEF AlertInv
    <3> QED
      BY <2>2, <3>1
  <2>10. \A b \in Alerts, c \in Channels :
          /\ b \notin raised' => post'[b][c] = 0
          /\ received'[b][c] <= post'[b][c]
          /\ post'[b][c] > 0 => received'[b][c] < post'[b][c]
    BY <1>0, <2>1, <2>3, <2>4, <2>5 DEF AlertInv
  <2> QED
    BY <2>6, <2>8, <2>9, <2>10 DEF AlertInv
<1>4. ASSUME NEW on \in SUBSET Channels, SetChannels(on) PROVE AlertInv'
  BY <1>0, <1>4 DEF SetChannels, AlertInv, AlertTypeOK, Settled
<1>5. CASE UNCHANGED alertVars
  BY <1>5 DEF alertVars, AlertInv, AlertTypeOK
<1> QED
  BY <1>1, <1>2, <1>3, <1>4, <1>5 DEF AlertNext, AlertHorizon
-----------------------------------------------------------------------------
(***************************************************************************)
(* Bans at the edge.                                                       *)
(***************************************************************************)
(* The edge: every variable has its type at the start.                       *)
LEMMA EdgeTypeInit == EdgeInit => EdgeTypeOK
<1> SUFFICES ASSUME EdgeInit PROVE EdgeTypeOK
  OBVIOUS
<1>1. edgeUp \in BOOLEAN
  BY DEF EdgeInit
<1>2. IsFiniteSet(rules)
  BY FS_EmptySet DEF EdgeInit
<1> QED
  BY <1>1, <1>2, EdgeAssumption DEF EdgeInit, EdgeTypeOK, Fetching

(* Requests, workers, the removal of old rules and crashes keep the types.   *)
LEMMA EdgeTypeNext == EdgeTypeOK /\ [EdgeNext]_edgeVars => EdgeTypeOK'
<1> SUFFICES ASSUME EdgeTypeOK, [EdgeNext]_edgeVars PROVE EdgeTypeOK'
  OBVIOUS
<1>0. /\ EdgeCap \in Nat \ {0} /\ BanAge \in Nat /\ PerPage \in Nat \ {0}
      /\ MaxRules \in Nat \ {0} /\ MaxCrashes \in Nat
      /\ work \in [Workers -> Requests \cup {Idle}]
      /\ rules \subseteq RuleSet /\ IsFiniteSet(rules) /\ made \in 0..MaxRules
      /\ banQueue \in Seq(Addresses) /\ unbanQueue \in Seq(Addresses)
      /\ cleaner \in [at : {"rest", "fetch", "delete"}, page : Nat, pages : Nat,
                      doomed : SUBSET RuleIds]
  BY EdgeAssumption DEF EdgeTypeOK
<1>o. ASSUME NEW q \in Seq(Addresses), Len(q) <= EdgeCap, NEW a \in Addresses
      PROVE  Offer(q, a) \in Seq(Addresses) /\ Len(Offer(q, a)) <= EdgeCap
  BY <1>0, <1>o DEF Offer
<1>t. ASSUME NEW q \in Seq(Addresses), q # <<>>, Len(q) <= EdgeCap
      PROVE  Head(q) \in Addresses /\ Tail(q) \in Seq(Addresses) /\ Len(Tail(q)) <= EdgeCap
  BY <1>0, <1>t
<1>w. ASSUME NEW ids
      PROVE  Without(ids) \subseteq RuleSet /\ IsFiniteSet(Without(ids))
  <2>1. Without(ids) \subseteq rules
    BY DEF Without
  <2> QED
    BY <1>0, <2>1, FS_Subset
<1>i. ASSUME NEW S, S \subseteq rules PROVE {r.id : r \in S} \subseteq RuleIds
  BY <1>0, <1>i DEF RuleSet
<1>c. Resting \in [at : {"rest", "fetch", "delete"}, page : Nat, pages : Nat, doomed : SUBSET RuleIds]
  BY DEF Resting
<1>f. ASSUME NEW p \in Nat
      PROVE  Fetching(p) \in [at : {"rest", "fetch", "delete"}, page : Nat, pages : Nat,
                              doomed : SUBSET RuleIds]
  BY DEF Fetching
<1>1. ASSUME NEW a \in Addresses, OfferBan(a) PROVE EdgeTypeOK'
  BY <1>1, <1>o DEF OfferBan, EdgeTypeOK
<1>2. ASSUME NEW a \in Addresses, OfferUnban(a) PROVE EdgeTypeOK'
  BY <1>2, <1>o DEF OfferUnban, EdgeTypeOK
<1>3. ASSUME NEW w \in Workers, TakeBan(w) PROVE EdgeTypeOK'
  <2>1. [op |-> "ban", ip |-> {Head(banQueue)}, ids |-> {}] \in Requests
    BY <1>3, <1>t DEF TakeBan, Requests, EdgeTypeOK
  <2>2. work' \in [Workers -> Requests \cup {Idle}]
    BY <1>0, <1>3, <2>1 DEF TakeBan
  <2> QED
    BY <1>3, <1>t, <2>2 DEF TakeBan, EdgeTypeOK
<1>4. ASSUME NEW w \in Workers, TakeUnban(w) PROVE EdgeTypeOK'
  <2>1. [op |-> "list", ip |-> {Head(unbanQueue)}, ids |-> {}] \in Requests
    BY <1>4, <1>t DEF TakeUnban, Requests, EdgeTypeOK
  <2>2. work' \in [Workers -> Requests \cup {Idle}]
    BY <1>0, <1>4, <2>1 DEF TakeUnban
  <2> QED
    BY <1>4, <1>t, <2>2 DEF TakeUnban, EdgeTypeOK
<1>5. ASSUME NEW w \in Workers, ProcessBan(w) PROVE EdgeTypeOK'
  <2>1. work' \in [Workers -> Requests \cup {Idle}]
    BY <1>0, <1>5 DEF ProcessBan
  <2>2. rules' \subseteq RuleSet /\ IsFiniteSet(rules') /\ made' \in 0..MaxRules
    <3>1. CASE UNCHANGED <<rules, made>>
      BY <1>0, <3>1
    <3>2. CASE /\ made < MaxRules
               /\ \E a \in work[w].ip : rules' = rules \cup {[id |-> made + 1, ip |-> a, age |-> 0]}
               /\ made' = made + 1
      <4>1. PICK a \in work[w].ip : rules' = rules \cup {[id |-> made + 1, ip |-> a, age |-> 0]}
        BY <3>2
      <4>2. a \in Addresses
        <5>1. work[w] \in Requests
          BY <1>0, <1>5 DEF ProcessBan, Idle
        <5> QED
          BY <5>1 DEF Requests
      <4>3. [id |-> made + 1, ip |-> a, age |-> 0] \in RuleSet
        BY <1>0, <3>2, <4>2 DEF RuleSet, RuleIds
      <4>4. IsFiniteSet(rules')
        BY <1>0, <4>1, FS_AddElement
      <4> QED
        BY <1>0, <3>2, <4>1, <4>3, <4>4
    <3> QED
      BY <1>5, <3>1, <3>2 DEF ProcessBan
  <2> QED
    BY <1>5, <2>1, <2>2 DEF ProcessBan, EdgeTypeOK
<1>6. ASSUME NEW w \in Workers, ListRules(w) PROVE EdgeTypeOK'
  <2> DEFINE ids == {r.id : r \in {s \in rules : s.ip \in work[w].ip}}
  <2>1. work' = [work EXCEPT ![w] = Idle]
        \/ work' = [work EXCEPT ![w] = [op |-> "delete", ip |-> work[w].ip, ids |-> ids]]
    BY <1>6 DEF ListRules
  <2>2. work[w].ip \in {{a} : a \in Addresses}
    <3>1. work[w] \in Requests
      BY <1>0, <1>6 DEF ListRules, Idle
    <3> QED
      BY <3>1 DEF Requests
  <2>3. ids \subseteq RuleIds
    BY <1>i
  <2> HIDE DEF ids
  <2>4. [op |-> "delete", ip |-> work[w].ip, ids |-> ids] \in Requests
    BY <2>2, <2>3 DEF Requests
  <2>5. work' \in [Workers -> Requests \cup {Idle}]
    BY <1>0, <2>1, <2>4
  <2> QED
    BY <1>6, <2>5 DEF ListRules, EdgeTypeOK
<1>7. ASSUME NEW w \in Workers, DeleteRules(w) PROVE EdgeTypeOK'
  <2>1. work' \in [Workers -> Requests \cup {Idle}]
    BY <1>0, <1>7 DEF DeleteRules
  <2>2. rules' \subseteq RuleSet /\ IsFiniteSet(rules')
    BY <1>7, <1>w DEF DeleteRules
  <2> QED
    BY <1>7, <2>1, <2>2 DEF DeleteRules, EdgeTypeOK
<1>8. CASE FetchPage
  <2>1. Pages \in Nat
    <3> DEFINE n == Cardinality(rules) + PerPage - 1
    <3>1. Cardinality(rules) \in Nat
      BY <1>0, FS_CardinalityType
    <3>2. n \in Nat /\ PerPage \in Nat /\ PerPage > 0
      BY <1>0, <3>1
    <3> HIDE DEF n
    <3>3. n \div PerPage \in Nat
      BY <3>2
    <3> QED
      BY <3>3 DEF Pages, n
  <2>2. {r.id : r \in {s \in OnPage(cleaner.page) : s.age > BanAge}} \subseteq RuleIds
    BY <1>i DEF OnPage
  <2>3. cleaner' \in [at : {"rest", "fetch", "delete"}, page : Nat, pages : Nat,
                      doomed : SUBSET RuleIds]
    <3> DEFINE ids == {r.id : r \in {s \in OnPage(cleaner.page) : s.age > BanAge}}
    <3>1. cleaner' = Resting
          \/ cleaner' = [cleaner EXCEPT !.at = "delete", !.pages = Pages, !.doomed = ids]
      BY <1>8 DEF FetchPage
    <3> HIDE DEF ids
    <3>2. ids \subseteq RuleIds
      BY <2>2 DEF ids
    <3> QED
      BY <1>0, <1>c, <2>1, <3>1, <3>2
  <2> QED
    BY <1>8, <2>3 DEF FetchPage, EdgeTypeOK
<1>9. CASE FetchFails
  BY <1>9, <1>c DEF FetchFails, EdgeTypeOK
<1>10. ASSUME NEW id \in RuleIds, NEW deleted \in BOOLEAN, DeleteRule(id, deleted) PROVE EdgeTypeOK'
  <2>1. rules' \subseteq RuleSet /\ IsFiniteSet(rules')
    <3>1. rules' = Without({id}) \/ rules' = rules
      BY <1>10, Zenon DEF DeleteRule
    <3> QED
      BY <1>0, <1>w, <3>1
  <2>2. cleaner' = [cleaner EXCEPT !.doomed = cleaner.doomed \ {id}]
        /\ UNCHANGED <<edgeUp, banQueue, unbanQueue, work, made, crashes>>
    BY <1>10 DEF DeleteRule
  <2>3. cleaner' \in [at : {"rest", "fetch", "delete"}, page : Nat, pages : Nat,
                      doomed : SUBSET RuleIds]
    BY <1>0, <2>2
  <2> QED
    BY <2>1, <2>2, <2>3 DEF EdgeTypeOK
<1>11. CASE NextPage
  <2>1. cleaner' \in [at : {"rest", "fetch", "delete"}, page : Nat, pages : Nat,
                      doomed : SUBSET RuleIds]
    <3>1. cleaner.page + 1 \in Nat
      BY <1>0
    <3> QED
      BY <1>11, <1>c, <1>f, <3>1 DEF NextPage
  <2> QED
    BY <1>11, <2>1 DEF NextPage, EdgeTypeOK
<1>12. CASE CleanAgain
  BY <1>12, <1>f DEF CleanAgain, EdgeTypeOK
<1>13. CASE EdgeCrash
  <2>1. work' \in [Workers -> Requests \cup {Idle}] /\ edgeUp' \in BOOLEAN
    BY <1>13 DEF EdgeCrash
  <2> QED
    BY <1>0, <1>13, <1>c, <2>1 DEF EdgeCrash, EdgeTypeOK
<1>14. CASE EdgeRestart
  <2>1. edgeUp' \in BOOLEAN
    BY <1>14 DEF EdgeRestart
  <2> QED
    BY <1>14, <1>f, <2>1 DEF EdgeRestart, EdgeTypeOK
<1>15. CASE EdgeAge
  <2> DEFINE older(r) == [r EXCEPT !.age = IF @ <= BanAge THEN @ + 1 ELSE @]
  <2>1. rules' = {older(r) : r \in rules}
    BY <1>15 DEF EdgeAge
  <2>2. ASSUME NEW r \in RuleSet PROVE older(r) \in RuleSet
    BY <1>0 DEF RuleSet
  <2> HIDE DEF older
  <2>3. IsFiniteSet(rules')
    <3> DEFINE f == [r \in rules |-> older(r)]
    <3>1. f \in Surjection(rules, rules')
      BY <2>1 DEF Surjection
    <3> HIDE DEF f
    <3> QED
      BY <1>0, <3>1, FS_Surjection
  <2>4. rules' \subseteq RuleSet
    BY <1>0, <2>1, <2>2
  <2> QED
    BY <1>15, <2>3, <2>4 DEF EdgeAge, EdgeTypeOK
<1>16. CASE UNCHANGED edgeVars
  BY <1>16 DEF edgeVars, EdgeTypeOK
<1> QED
  BY <1>1, <1>2, <1>3, <1>4, <1>5, <1>6, <1>7, <1>8, <1>9, <1>10, <1>11, <1>12, <1>13, <1>14,
     <1>15, <1>16 DEF EdgeNext
-----------------------------------------------------------------------------
(***************************************************************************)
(* All of them.                                                            *)
(***************************************************************************)
(* TypeOK in every reachable state of what is handed on, taken together.     *)
THEOREM DeliveryTypeCorrect == Spec => []TypeOK
<1> DEFINE Inv == TurnInv /\ CacheInv /\ LogTypeOK /\ AlertInv /\ EdgeTypeOK
<1>1. Init => Inv
  BY TurnInit, CacheInvInit, LogTypeInit, AlertInvInit, EdgeTypeInit DEF Init
<1>2. Inv /\ [Next]_vars => Inv'
  <2>1. [Next]_vars => /\ [PoolNext]_poolVars /\ [CacheNext]_cacheVars /\ [LogNext]_logVars
                       /\ [AlertNext]_alertVars /\ [EdgeNext]_edgeVars
    BY DEF Next, Pools, Cached, Logged, Alerted, AtEdge, vars
  <2> QED
    BY <2>1, TurnNext, CacheInvNext, LogTypeNext, AlertInvNext, EdgeTypeNext
<1>3. Inv => TypeOK
  BY DEF TurnInv, CacheInv, AlertInv, TypeOK
<1> QED
  BY <1>1, <1>2, <1>3, PTL DEF Spec
===============================================================================
