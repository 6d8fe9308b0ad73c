------------------------------ MODULE SpscFifo ------------------------------
(***************************************************************************)
(* What a concurrency/ring_buffer.h RingBuffer promises to the two threads *)
(* that share it: a bounded first-in first-out queue that can be closed.   *)
(* A write is accepted exactly when there is room, a read returns the      *)
(* oldest item that is still queued, read_latest() and clear() give up     *)
(* oldest items first, and nothing else is lost, duplicated, reordered or  *)
(* made up.                                                                *)
(***************************************************************************)
EXTENDS Integers, Sequences

CONSTANTS
  Item,       \* what the producer writes
  NoItem,     \* the nullptr / false of a read that returns nothing
  Capacity    \* how many items the queue holds at most

VARIABLES
  queue,      \* the items written and not yet read or given up, oldest first
  closed,     \* stop() has been called
  wrote,      \* the answer of the last write: "none", "accepted" or "refused"
  ret         \* the answer of the last read or peek

vars == <<queue, closed, wrote, ret>>

Init ==
  /\ queue = <<>>
  /\ closed = FALSE
  /\ wrote = "none"
  /\ ret = NoItem

Accept(item) ==
  /\ Len(queue) < Capacity
  /\ queue' = Append(queue, item)
  /\ wrote' = "accepted"
  /\ UNCHANGED <<closed, ret>>

Refuse ==
  /\ Len(queue) = Capacity
  /\ wrote' = "refused"
  /\ UNCHANGED <<queue, closed, ret>>

Take ==
  /\ queue # <<>>
  /\ ret' = Head(queue)
  /\ queue' = Tail(queue)
  /\ UNCHANGED <<closed, wrote>>

(* A peek returns an item that is in the queue and leaves it there.        *)
Peek ==
  /\ \E i \in 1..Len(queue) : ret' = queue[i]
  /\ UNCHANGED <<queue, closed, wrote>>

(* A read comes back empty-handed only from an empty or a closed queue.    *)
Miss ==
  /\ queue = <<>> \/ closed
  /\ ret' = NoItem
  /\ UNCHANGED <<queue, closed, wrote>>

(* read_latest() and clear() drop some of the oldest items.                *)
Drop ==
  /\ \E n \in 0..Len(queue) : queue' = SubSeq(queue, n + 1, Len(queue))
  /\ UNCHANGED <<closed, wrote, ret>>

Close ==
  /\ closed' = TRUE
  /\ UNCHANGED <<queue, wrote, ret>>

Next ==
  \/ \E item \in Item : Accept(item)
  \/ Refuse
  \/ Take
  \/ Peek
  \/ Miss
  \/ Drop
  \/ Close

Spec == Init /\ [][Next]_vars

=============================================================================
