-------------------------------- MODULE Bus ---------------------------------
(***************************************************************************)
(* What app/pubsub.cpp promises those who publish and subscribe, whatever  *)
(* is queued, sent, cleared or shut down in between.  A publication is     *)
(* under way until it is handed out or lost.  Any may be lost, but one     *)
(* that is handed out goes to every subscriber whose prefix it matches and *)
(* whose subscription is in force, unless his buffer is full; it is handed *)
(* out once, and never after a later one of the same publisher.            *)
(***************************************************************************)
EXTENDS Naturals, Sequences

CONSTANTS
  Sender, Topic,
  Buffers, Items,   \* what subscribers read
  Matches,          \* the topics each of them is for
  Capacity,         \* of a buffer
  None              \* no publication

VARIABLES
  made,        \* publications of each publisher
  pending,     \* publications under way
  subscribed,  \* subscriptions in force
  buffer, item

vars == <<made, pending, subscribed, buffer, item>>

Init ==
  /\ made = [p \in Sender |-> 0]
  /\ pending = {} /\ subscribed = {}
  /\ buffer = [o \in Buffers |-> <<>>] /\ item = [o \in Items |-> None]

(* A publication gets under way or is lost at once.                        *)
Publish(p, topic) ==
  /\ made' = [made EXCEPT ![p] = @ + 1]
  /\ pending' \in {pending, pending \cup {[by |-> p, n |-> made[p], topic |-> topic]}}
  /\ UNCHANGED <<subscribed, buffer, item>>

Lose ==
  /\ pending' \subseteq pending
  /\ UNCHANGED <<made, subscribed, buffer, item>>

Subscribe(o) ==
  /\ subscribed' = subscribed \cup {o}
  /\ UNCHANGED <<made, pending, buffer, item>>

Targets(m) == {o \in subscribed : m.topic \in Matches[o]}

(* Handing out m gives up what its publisher published before it.          *)
Deliver(m) ==
  /\ m \in pending
  /\ pending' = {k \in pending : k.by = m.by => k.n > m.n}
  /\ buffer' = [o \in Buffers |->
       IF o \in Targets(m) /\ Len(buffer[o]) < Capacity
         THEN Append(buffer[o], m) ELSE buffer[o]]
  /\ item' = [o \in Items |-> IF o \in Targets(m) THEN m ELSE item[o]]
  /\ UNCHANGED <<made, subscribed>>

Consume(o) ==
  /\ buffer[o] # <<>>
  /\ buffer' = [buffer EXCEPT ![o] = Tail(@)]
  /\ UNCHANGED <<made, pending, subscribed, item>>

Next ==
  \/ \E p \in Sender, topic \in Topic : Publish(p, topic)
  \/ Lose
  \/ \E o \in Buffers \cup Items : Subscribe(o)
  \/ \E m \in pending : Deliver(m)
  \/ \E o \in Buffers : Consume(o)

Spec == Init /\ [][Next]_vars

=============================================================================
