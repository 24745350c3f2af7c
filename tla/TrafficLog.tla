------------------------------ MODULE TrafficLog ------------------------------
(***************************************************************************)
(* The log of security events (core/logstore.go) and the stream that shows *)
(* it to the viewers of the dashboard (handleAttackStream): requests stamp *)
(* their event with a number and then hand it to a channel, which loses    *)
(* what does not fit; a worker puts the events of the channel into a ring; *)
(* a viewer polls the ring and remembers the number it saw first.          *)
(***************************************************************************)
EXTENDS Integers, Sequences

CONSTANTS
  Recorders,  \* goroutines that record an event
  Viewers,    \* connections of the attack stream
  MaxEvents,  \* bound: events that are numbered
  QueueCap,   \* events in the channel, 10000
  RingCap,    \* events in the ring, 2000
  Batch,      \* events in one message of the stream, 50
  MaxClears   \* bound: calls of Clear and connections that are closed

ASSUME LogAssumption ==
  /\ MaxEvents \in Nat /\ QueueCap \in Nat
  /\ RingCap \in Nat \ {0} /\ Batch \in Nat \ {0}
  /\ MaxClears \in Nat

EventIds == 1..MaxEvents

VARIABLES
  logIDCounter,
  stamped,      \* the event a recorder has yet to hand over, 0 for none
  channel,
  inHand,       \* the event the worker has received, 0 for none
  events, head, \* the ring: its slots, and the slot that is overwritten next
  lastSentID,   \* of a viewer
  shown,        \* history: how often a viewer was shown an event
  clears

logVars == <<logIDCounter, stamped, channel, inHand, events, head, lastSentID, shown, clears>>

LogTypeOK ==
  /\ logIDCounter \in EventIds \cup {0}
  /\ stamped \in [Recorders -> EventIds \cup {0}]
  /\ channel \in Seq(EventIds) /\ Len(channel) <= QueueCap
  /\ inHand \in EventIds \cup {0}
  /\ events \in Seq(EventIds) /\ Len(events) <= RingCap
  /\ head \in 0..RingCap - 1 /\ (Len(events) < RingCap => head = 0)
  /\ lastSentID \in [Viewers -> EventIds \cup {0}]
  /\ shown \in [Viewers -> [EventIds -> Nat]]
  /\ clears \in 0..MaxClears

Feed == INSTANCE EventFeed WITH recorded <- 1..logIDCounter

LogInit ==
  /\ logIDCounter = 0 /\ stamped = [r \in Recorders |-> 0]
  /\ channel = <<>> /\ inHand = 0
  /\ events = <<>> /\ head = 0
  /\ lastSentID = [v \in Viewers |-> 0]
  /\ shown = [v \in Viewers |-> Feed!Nothing]
  /\ clears = 0
-----------------------------------------------------------------------------
(* RecordEvent numbers the event; what is sampled away has no number. *)
RecordEvent(r) ==
  /\ stamped[r] = 0 /\ logIDCounter + 1 \in EventIds
  /\ logIDCounter' = logIDCounter + 1
  /\ stamped' = [stamped EXCEPT ![r] = logIDCounter + 1]
  /\ UNCHANGED <<channel, inHand, events, head, lastSentID, shown, clears>>

HandOver(r) ==
  /\ stamped[r] # 0
  /\ stamped' = [stamped EXCEPT ![r] = 0]
  /\ channel' = IF Len(channel) < QueueCap THEN Append(channel, stamped[r]) ELSE channel
  /\ UNCHANGED <<logIDCounter, inHand, events, head, lastSentID, shown, clears>>

WorkerReceives ==
  /\ inHand = 0 /\ channel # <<>>
  /\ inHand' = Head(channel) /\ channel' = Tail(channel)
  /\ UNCHANGED <<logIDCounter, stamped, events, head, lastSentID, shown, clears>>

(* Mutant of WorkerStores: the ring does not wrap around. *)
WorkerStoresOn ==
  /\ inHand # 0 /\ inHand' = 0
  /\ IF Len(events) < RingCap
     THEN events' = Append(events, inHand) /\ UNCHANGED head
     ELSE events' = [events EXCEPT ![head + 1] = inHand] /\ head' = head + 1
  /\ UNCHANGED <<logIDCounter, stamped, channel, lastSentID, shown, clears>>

WorkerStores ==
  /\ inHand # 0 /\ inHand' = 0
  /\ IF Len(events) < RingCap
     THEN events' = Append(events, inHand) /\ UNCHANGED head
     ELSE /\ events' = [events EXCEPT ![head + 1] = inHand]
          /\ head' = (head + 1) % RingCap
  /\ UNCHANGED <<logIDCounter, stamped, channel, lastSentID, shown, clears>>

(* Clear leaves the channel as it is. *)
Clear ==
  /\ clears < MaxClears /\ clears' = clears + 1
  /\ events' = <<>> /\ head' = 0
  /\ UNCHANGED <<logIDCounter, stamped, channel, inHand, lastSentID, shown>>
-----------------------------------------------------------------------------
(* Newest first. *)
QueryLogs ==
  LET n == Len(events) IN [i \in 1..n |-> events[((head - i + n) % n) + 1]]

(* Mutant of NewEvents: the event that was seen first is seen again. *)
NewEventsAgain(logs, last) ==
  {i \in 1..Len(logs) : i <= Batch /\ \A j \in 1..i : last = 0 \/ logs[j] >= last}

(* The positions that are sent: up to a full batch or to an event whose      *)
(* number is not above the last one.                                         *)
NewEvents(logs, last) ==
  {i \in 1..Len(logs) : i <= Batch /\ \A j \in 1..i : last = 0 \/ logs[j] > last}

(* A tick of the stream. *)
StreamTick(v) ==
  LET logs == QueryLogs
      new  == NewEvents(logs, lastSentID[v])
  IN  /\ new # {}
      /\ lastSentID' = [lastSentID EXCEPT ![v] = logs[1]]
      /\ shown' = [shown EXCEPT ![v] =
           [e \in EventIds |-> IF \E i \in new : logs[i] = e THEN @[e] + 1 ELSE @[e]]]
      /\ UNCHANGED <<logIDCounter, stamped, channel, inHand, events, head, clears>>

(* The viewer closes its connection and opens another. *)
Reconnect(v) ==
  /\ clears < MaxClears /\ clears' = clears + 1
  /\ lastSentID' = [lastSentID EXCEPT ![v] = 0]
  /\ shown' = [shown EXCEPT ![v] = Feed!Nothing]
  /\ UNCHANGED <<logIDCounter, stamped, channel, inHand, events, head>>

(* The bound: nothing is modelled after the last number. *)
LogHorizon == logIDCounter + 1 \notin EventIds /\ UNCHANGED logVars

LogNext ==
  \/ \E r \in Recorders : RecordEvent(r) \/ HandOver(r)
  \/ WorkerReceives \/ WorkerStores \/ Clear
  \/ \E v \in Viewers : StreamTick(v) \/ Reconnect(v)
  \/ LogHorizon

LogSpec == LogInit /\ [][LogNext]_logVars
-----------------------------------------------------------------------------
(* The stream is a feed: although events reach the ring in another order    *)
(* than that of their numbers, while the ring wraps around and is cleared,  *)
(* a viewer is shown none twice, as long as its connection lasts.           *)
ShownOnce == Feed!Spec
===============================================================================
