------------------------------ MODULE AlertQueue ------------------------------
(***************************************************************************)
(* The delivery of an alert (core/alerts.go): a queue that loses what does *)
(* not fit, a worker that starts one goroutine for each channel that is    *)
(* enabled when the alert's turn comes, and up to three posts in each.     *)
(***************************************************************************)
EXTENDS Naturals, Sequences

CONSTANTS
  Alerts,       \* alerts that are raised
  Channels,     \* Telegram, Discord, the webhook
  AlertCap,     \* alerts in the queue, 1000
  Attempts,     \* posts of one alert on one channel, 3
  MaxReloads    \* bound: changes of the channels

ASSUME AlertAssumption ==
  AlertCap \in Nat /\ Attempts \in Nat \ {0} /\ MaxReloads \in Nat

VARIABLES
  queue,
  raised,      \* alerts that were handed to the queue or lost
  enabledOn,   \* channels that are enabled
  post,        \* of an alert on a channel: 0 before its turn, the attempt that
               \* is made next, or Settled
  connected,   \* tgStatus.Connected, and here of every channel
  received,    \* history: how often the receiver has taken the alert
  reloads

alertVars == <<queue, raised, enabledOn, post, connected, received, reloads>>

Settled == Attempts + 1

AlertTypeOK ==
  /\ queue \in Seq(Alerts) /\ Len(queue) <= AlertCap
  /\ raised \subseteq Alerts /\ enabledOn \subseteq Channels
  /\ post \in [Alerts -> [Channels -> 0..Settled]]
  /\ connected \subseteq Channels
  /\ received \in [Alerts -> [Channels -> 0..Attempts]]
  /\ reloads \in 0..MaxReloads

AlertInit ==
  /\ queue = <<>> /\ raised = {}
  /\ enabledOn = Channels /\ connected = enabledOn
  /\ post = [a \in Alerts |-> [c \in Channels |-> 0]]
  /\ received = [a \in Alerts |-> [c \in Channels |-> 0]]
  /\ reloads = 0
-----------------------------------------------------------------------------
(* sendAllRich never waits: a full queue loses the alert. *)
SendAllRich(a) ==
  /\ a \notin raised /\ raised' = raised \cup {a}
  /\ queue' = IF Len(queue) < AlertCap THEN Append(queue, a) ELSE queue
  /\ UNCHANGED <<enabledOn, post, connected, received, reloads>>

(* workerLoop runs the job, which reads the channels now. *)
RunJob ==
  /\ queue # <<>> /\ queue' = Tail(queue)
  /\ post' = [post EXCEPT ![Head(queue)] =
                [c \in Channels |-> IF c \in enabledOn THEN 1 ELSE Settled]]
  /\ UNCHANGED <<raised, enabledOn, connected, received, reloads>>

Answers == [taken : BOOLEAN, ok : BOOLEAN]

(* Mutant of Post: what has failed goes to the end of the queue. *)
PostRequeued(a, c, answer) ==
  /\ post[a][c] \in 1..Attempts
  /\ answer.ok => answer.taken
  /\ received' = [received EXCEPT ![a][c] = IF answer.taken /\ @ < Attempts THEN @ + 1 ELSE @]
  /\ post' = [post EXCEPT ![a][c] = IF answer.ok THEN Settled ELSE 0]
  /\ queue' = IF answer.ok \/ Len(queue) = AlertCap THEN queue ELSE Append(queue, a)
  /\ UNCHANGED <<raised, enabledOn, connected, reloads>>

(* One post: the receiver may take the alert although its answer is lost, or *)
(* not be understood; then it is posted again, and taken again.  The last    *)
(* attempt gives up.                                                         *)
Post(a, c, answer) ==
  /\ post[a][c] \in 1..Attempts
  /\ answer.ok => answer.taken
  /\ received' = [received EXCEPT ![a][c] = IF answer.taken THEN @ + 1 ELSE @]
  /\ post' = [post EXCEPT ![a][c] = IF answer.ok THEN Settled ELSE @ + 1]
  /\ connected' = IF answer.ok THEN connected \cup {c}
                  ELSE IF post[a][c] = Attempts THEN connected \ {c} ELSE connected
  /\ UNCHANGED <<queue, raised, enabledOn, reloads>>

SetChannels(on) ==
  /\ reloads < MaxReloads /\ reloads' = reloads + 1
  /\ enabledOn' = on
  /\ UNCHANGED <<queue, raised, post, connected, received>>

(* The bound: nothing is modelled after the last alert. *)
AlertHorizon == raised = Alerts /\ UNCHANGED alertVars

AlertNext ==
  \/ \E a \in Alerts : SendAllRich(a)
  \/ \E a \in Alerts, c \in Channels, answer \in Answers : Post(a, c, answer)
  \/ RunJob
  \/ \E on \in SUBSET Channels : SetChannels(on)
  \/ AlertHorizon

(* The worker and the goroutines of the posts run; every post times out.     *)
Poster(a, c) == \E answer \in Answers : Post(a, c, answer)
-----------------------------------------------------------------------------
(* Every alert that got into the queue is dealt with, whatever the channels *)
(* answer and however they are reconfigured meanwhile: each of its channels *)
(* has taken it, or has refused it for the last time, or was off.           *)
AlertSettles ==
  \A a \in Alerts :
    (\E i \in DOMAIN queue : queue[i] = a) ~> (\A c \in Channels : post[a][c] = Settled)
===============================================================================
