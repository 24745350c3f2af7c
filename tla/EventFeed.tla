------------------------------- MODULE EventFeed -------------------------------
(***************************************************************************)
(* What the stream of events of the dashboard promises, whatever is between *)
(* a recorded event and a viewer: events may be lost, and may come late and *)
(* out of order, but what a viewer is shown has been recorded, and it is    *)
(* shown once.                                                              *)
(***************************************************************************)
EXTENDS Naturals

CONSTANTS Viewers, EventIds

VARIABLES
  recorded,   \* the events there are
  shown       \* how often a viewer has been shown an event

feedVars == <<recorded, shown>>

Nothing == [e \in EventIds |-> 0]

Init == recorded = {} /\ shown = [v \in Viewers |-> Nothing]

Record(e) ==
  /\ e \notin recorded /\ recorded' = recorded \cup {e}
  /\ UNCHANGED shown

(* A batch of events that this viewer has not seen. *)
Show(v, batch) ==
  /\ batch \subseteq recorded /\ \A e \in batch : shown[v][e] = 0
  /\ shown' = [shown EXCEPT ![v] = [e \in EventIds |-> IF e \in batch THEN 1 ELSE @[e]]]
  /\ UNCHANGED recorded

(* Another viewer takes the place of one that has gone. *)
Open(v) ==
  /\ shown' = [shown EXCEPT ![v] = Nothing]
  /\ UNCHANGED recorded

Next ==
  \/ \E e \in EventIds : Record(e)
  \/ \E v \in Viewers : Open(v) \/ \E batch \in SUBSET EventIds : Show(v, batch)

Spec == Init /\ [][Next]_feedVars
===============================================================================
