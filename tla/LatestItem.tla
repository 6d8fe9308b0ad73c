----------------------------- MODULE LatestItem -----------------------------
(***************************************************************************)
(* What a concurrency/single_item.h SingleItem promises: a mailbox for one *)
(* item.  A write replaces whatever is in it, a read empties it, so every  *)
(* item is read at most once, items are read in the order they were        *)
(* written, and a read returns the newest item there was when it looked.   *)
(***************************************************************************)
CONSTANTS
  Item,      \* what the writer writes
  NoItem,    \* an empty mailbox; the answer of a read that found nothing
  NoRead     \* the reader has looked at nothing yet

VARIABLES
  mailbox,   \* the newest unread item
  hand,      \* what the read in progress found when it looked
  closed,    \* stop() has been called
  ret        \* the answer of the last read

vars == <<mailbox, hand, closed, ret>>

Init ==
  /\ mailbox = NoItem
  /\ hand = NoRead
  /\ closed = FALSE
  /\ ret = NoItem

Put(item) ==
  /\ mailbox' = item
  /\ UNCHANGED <<hand, closed, ret>>

(* The reader looks, and empties the mailbox.                              *)
Look ==
  /\ hand = NoRead
  /\ hand' = mailbox
  /\ mailbox' = NoItem
  /\ UNCHANGED <<closed, ret>>

(* The read returns what it found, which may be nothing.                   *)
Return ==
  /\ hand # NoRead
  /\ ret' = hand
  /\ hand' = NoRead
  /\ UNCHANGED <<mailbox, closed>>

(* A blocking read that found nothing will look again.                     *)
Retry ==
  /\ hand = NoItem
  /\ hand' = NoRead
  /\ UNCHANGED <<mailbox, closed, ret>>

(* A blocking read gives up without looking once the mailbox is closed.    *)
GiveUp ==
  /\ closed /\ hand = NoRead
  /\ ret' = NoItem
  /\ UNCHANGED <<mailbox, hand, closed>>

Close ==
  /\ closed' = TRUE
  /\ UNCHANGED <<mailbox, hand, ret>>

Next ==
  \/ \E item \in Item : Put(item)
  \/ Look
  \/ Return
  \/ Retry
  \/ GiveUp
  \/ Close

Spec == Init /\ [][Next]_vars

=============================================================================
