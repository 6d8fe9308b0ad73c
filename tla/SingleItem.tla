----------------------------- MODULE SingleItem -----------------------------
(***************************************************************************)
(* concurrency/single_item.h, class SingleItem: three slots between one    *)
(* writer thread and one reader thread.  state_idx_ says which slot is the *)
(* reader's (R), which the writer's (W); the third (0) passes information. *)
(* A write ends by swapping W and 0, a read begins by swapping R and 0,    *)
(* each with a compare-and-swap loop on state_idx_.                        *)
(*                                                                         *)
(* stop_, update_counter_ and state_idx_ are atomics: one step per load,   *)
(* store or read-modify-write.  slots_ and have_unread_ are plain memory   *)
(* that is handed over with the slot: one step per access.  A relaxed load *)
(* of state_idx_ may return an older value; the compare-and-swap then      *)
(* fails as it does when the value changed after the load.                 *)
(***************************************************************************)
EXTENDS Integers

CONSTANTS
  Item,        \* values the writer writes
  NoItem,      \* what a slot holds at first; the answer of a failed read
  NoRead,      \* refinement only: no read has looked yet
  MaxUpdates   \* bound: no write begins once update_counter_ is that large

ASSUME ItemAssumption == NoItem \notin Item /\ NoRead \notin Item \cup {NoItem}
ASSUME BoundAssumption == MaxUpdates \in Nat

VARIABLES
  slots_, have_unread_, state_idx_, stop_, update_counter_,   \* the members
  wpc, item,         \* the writer: location and argument
  write_slot,        \*   the slot it looked up
  wexpected,         \*   `expected' of its compare-and-swap loop
  rpc, swap, blocking,   \* the reader: location, swap_read or read, argument
  read_slot,         \*   the slot it looked up
  rexpected,         \*   `expected' of its compare-and-swap loop
  old,               \*   update_counter_old
  out, ret,          \*   the item copied out; the answer of the last read
  spc                \* the thread that calls stop()

shared == <<slots_, have_unread_, state_idx_, stop_, update_counter_>>
writer == <<wpc, item, write_slot, wexpected>>
reader == <<rpc, swap, blocking, read_slot, rexpected, old, out, ret>>
vars == <<shared, writer, reader, spc>>

Slot == 0..2
State == 0..5

(* TRANSITION_TABLE: the reader's and the writer's slot in each state.     *)
ReadHead == <<1, 0, 0, 2, 2, 1>>
WriteHead == <<2, 2, 1, 1, 0, 0>>
get_read_slot == ReadHead[state_idx_ + 1]
get_write_slot == WriteHead[state_idx_ + 1]

(* The slot that is neither's.                                             *)
zero_slot == 3 - get_read_slot - get_write_slot

(* Mutant: a step that ignores the parity.                                 *)
DesiredForward(expected, is_write) == (expected + 1) % 6

(* begin_read_or_finish_write(): `desired'.  Around the ring of six states *)
(* a write steps forward from the odd ones and a read from the even ones.  *)
Desired(expected, is_write) ==
  IF expected % 2 = (IF is_write THEN 1 ELSE 0)
  THEN (expected + 1) % 6
  ELSE (expected + 5) % 6

Init ==
  /\ slots_ = [s \in Slot |-> NoItem]
  /\ have_unread_ = [s \in Slot |-> FALSE]
  /\ state_idx_ = 0
  /\ stop_ = FALSE
  /\ update_counter_ = 0
  /\ wpc = "idle" /\ item = NoItem /\ write_slot = 0 /\ wexpected = 0
  /\ rpc = "idle" /\ swap = FALSE /\ blocking = FALSE
  /\ read_slot = 0 /\ rexpected = 0 /\ old = 0 /\ out = NoItem /\ ret = NoItem
  /\ spc = "idle"

-----------------------------------------------------------------------------
(* The writer: write(), move_write(), write_func() and swap_write() differ *)
(* only in what the caller is left with.                                   *)

GoW(here, there) == wpc = here /\ wpc' = there

BeginWrite(i) ==
  /\ GoW("idle", "store")
  /\ update_counter_ < MaxUpdates
  /\ item' = i
  /\ write_slot' = get_write_slot
  /\ UNCHANGED <<shared, wexpected, reader, spc>>

StoreItem ==
  /\ GoW("store", "mark")
  /\ slots_' = [slots_ EXCEPT ![write_slot] = item]
  /\ UNCHANGED <<have_unread_, state_idx_, stop_, update_counter_, item,
                 write_slot, wexpected, reader, spc>>

MarkUnread ==
  /\ GoW("mark", "load_state")
  /\ have_unread_' = [have_unread_ EXCEPT ![write_slot] = TRUE]
  /\ UNCHANGED <<slots_, state_idx_, stop_, update_counter_, item, write_slot,
                 wexpected, reader, spc>>

LoadStateW ==
  /\ GoW("load_state", "cas")
  /\ wexpected' = state_idx_
  /\ UNCHANGED <<shared, item, write_slot, reader, spc>>

SwapWriteSlot ==
  /\ GoW("cas", "bump")
  /\ state_idx_ = wexpected
  /\ state_idx_' = Desired(wexpected, TRUE)
  /\ UNCHANGED <<slots_, have_unread_, stop_, update_counter_, item,
                 write_slot, wexpected, reader, spc>>

(* compare_exchange_weak fails, perhaps spuriously, and reloads expected.  *)
RetryW ==
  /\ wpc = "cas"
  /\ wexpected' = state_idx_
  /\ UNCHANGED <<shared, wpc, item, write_slot, reader, spc>>

BumpW ==
  /\ GoW("bump", "notify")
  /\ update_counter_' = update_counter_ + 1
  /\ UNCHANGED <<slots_, have_unread_, state_idx_, stop_, item, write_slot,
                 wexpected, reader, spc>>

(* Mutant: notify_one() left out.                                          *)
NotifyNobody == UNCHANGED rpc

(* notify_one(): the reader is the only thread that ever waits.            *)
Notify == rpc' = IF rpc = "asleep" THEN "wait" ELSE rpc

NotifyW ==
  /\ GoW("notify", "idle")
  /\ Notify
  /\ UNCHANGED <<shared, item, write_slot, wexpected, swap, blocking,
                 read_slot, rexpected, old, out, ret, spc>>

WriterStep ==
  StoreItem \/ MarkUnread \/ LoadStateW \/ SwapWriteSlot \/ BumpW \/ NotifyW

Writer == (\E i \in Item : BeginWrite(i)) \/ WriterStep \/ RetryW

-----------------------------------------------------------------------------
(* The reader: read() and swap_read().                                     *)

GoR(here, there) == rpc = here /\ rpc' = there
Answer(here, r) == GoR(here, "idle") /\ ret' = r

BeginRead(s, b) ==
  /\ GoR("idle", IF b THEN "load" ELSE "load_state")
  /\ swap' = s
  /\ blocking' = b
  /\ UNCHANGED <<shared, writer, read_slot, rexpected, old, out, ret, spc>>

(* The counter is loaded before the slots it guards are looked at.         *)
LoadCounter ==
  /\ GoR("load", "stop?")
  /\ old' = update_counter_
  /\ UNCHANGED <<shared, writer, swap, blocking, read_slot, rexpected, out,
                 ret, spc>>

TestStop ==
  /\ \/ stop_ /\ Answer("stop?", NoItem)
     \/ ~stop_ /\ GoR("stop?", "load_state") /\ UNCHANGED ret
  /\ UNCHANGED <<shared, writer, swap, blocking, read_slot, rexpected, old,
                 out, spc>>

LoadStateR ==
  /\ GoR("load_state", "cas")
  /\ rexpected' = state_idx_
  /\ UNCHANGED <<shared, writer, swap, blocking, read_slot, old, out, ret, spc>>

SwapReadSlot ==
  /\ GoR("cas", "slot")
  /\ state_idx_ = rexpected
  /\ state_idx_' = Desired(rexpected, FALSE)
  /\ UNCHANGED <<slots_, have_unread_, stop_, update_counter_, writer, swap,
                 blocking, read_slot, rexpected, old, out, ret, spc>>

RetryR ==
  /\ rpc = "cas"
  /\ rexpected' = state_idx_
  /\ UNCHANGED <<shared, writer, rpc, swap, blocking, read_slot, old, out, ret,
                 spc>>

(* get_read_slot(), in begin_read() and again in read() or swap_read().    *)
LookUpReadSlot ==
  /\ GoR("slot", "unread?") \/ GoR("slot_again", "take")
  /\ read_slot' = get_read_slot
  /\ UNCHANGED <<shared, writer, swap, blocking, rexpected, old, out, ret, spc>>

TestUnread ==
  /\ \/ /\ have_unread_[read_slot]
        /\ GoR("unread?", "slot_again")
        /\ UNCHANGED ret
     \/ /\ ~have_unread_[read_slot] /\ blocking
        /\ GoR("unread?", "wait")
        /\ UNCHANGED ret
     \/ /\ ~have_unread_[read_slot] /\ ~blocking
        /\ Answer("unread?", NoItem)
  /\ UNCHANGED <<shared, writer, swap, blocking, read_slot, rexpected, old,
                 out, spc>>

(* item = slots_[read_slot], or the swap, which leaves the caller's old    *)
(* item, anything at all, in the slot.                                     *)
TakeItem ==
  /\ GoR("take", "clear")
  /\ out' = slots_[read_slot]
  /\ \/ ~swap /\ UNCHANGED slots_
     \/ swap /\ \E i \in Item \cup {NoItem} :
                  slots_' = [slots_ EXCEPT ![read_slot] = i]
  /\ UNCHANGED <<have_unread_, state_idx_, stop_, update_counter_, writer,
                 swap, blocking, read_slot, rexpected, old, ret, spc>>

(* Mutant: a read that leaves the flag of its slot set.                    *)
ClearForgotten ==
  /\ Answer("clear", out)
  /\ UNCHANGED <<shared, writer, swap, blocking, read_slot, rexpected, old,
                 out, spc>>

ClearUnread ==
  /\ Answer("clear", out)
  /\ have_unread_' = [have_unread_ EXCEPT ![read_slot] = FALSE]
  /\ UNCHANGED <<slots_, state_idx_, stop_, update_counter_, writer, swap,
                 blocking, read_slot, rexpected, old, out, spc>>

Wait ==
  /\ GoR("wait", IF update_counter_ = old THEN "asleep" ELSE "load")
  /\ UNCHANGED <<shared, writer, swap, blocking, read_slot, rexpected, old,
                 out, ret, spc>>

SpuriousWake ==
  /\ GoR("asleep", "wait")
  /\ UNCHANGED <<shared, writer, swap, blocking, read_slot, rexpected, old,
                 out, ret, spc>>

ReaderStep ==
  \/ LoadCounter \/ TestStop \/ LoadStateR \/ SwapReadSlot \/ LookUpReadSlot
  \/ TestUnread \/ TakeItem \/ ClearUnread \/ Wait

Reader ==
  (\E s, b \in BOOLEAN : BeginRead(s, b)) \/ ReaderStep \/ RetryR \/ SpuriousWake

-----------------------------------------------------------------------------
(* stop(), by a third thread.                                              *)

StopStore ==
  /\ spc = "idle" /\ spc' = "bump"
  /\ stop_' = TRUE
  /\ UNCHANGED <<slots_, have_unread_, state_idx_, update_counter_, writer,
                 reader>>

StopBump ==
  /\ spc = "bump" /\ spc' = "notify"
  /\ update_counter_' = update_counter_ + 1
  /\ UNCHANGED <<slots_, have_unread_, state_idx_, stop_, writer, reader>>

StopNotify ==
  /\ spc = "notify" /\ spc' = "done"
  /\ Notify
  /\ UNCHANGED <<shared, writer, swap, blocking, read_slot, rexpected, old,
                 out, ret>>

Stop == StopStore \/ StopBump \/ StopNotify

Next == Writer \/ Reader \/ Stop

Spec == Init /\ [][Next]_vars

(* A thread inside a call keeps running and a weak compare-and-swap does   *)
(* not fail spuriously for ever; nobody has to call.                       *)
Fairness ==
  /\ WF_vars(StoreItem \/ MarkUnread \/ LoadStateW \/ BumpW \/ NotifyW)
  /\ WF_vars(RetryW /\ wexpected # state_idx_)
  /\ WF_vars(SwapWriteSlot)
  /\ WF_vars(ReaderStep)
  /\ WF_vars(RetryR /\ rexpected # state_idx_)
  /\ WF_vars(StopBump \/ StopNotify)

FairSpec == Spec /\ Fairness

-----------------------------------------------------------------------------
(* Every variable stays in its type; the state index stays in the table.   *)
TypeOK ==
  /\ slots_ \in [Slot -> Item \cup {NoItem}]
  /\ have_unread_ \in [Slot -> BOOLEAN]
  /\ state_idx_ \in State /\ stop_ \in BOOLEAN /\ update_counter_ \in Nat
  /\ wpc \in {"idle", "store", "mark", "load_state", "cas", "bump", "notify"}
  /\ item \in Item \cup {NoItem} /\ write_slot \in Slot /\ wexpected \in State
  /\ rpc \in {"idle", "load", "stop?", "load_state", "cas", "slot", "unread?",
              "slot_again", "take", "clear", "wait", "asleep"}
  /\ swap \in BOOLEAN /\ blocking \in BOOLEAN
  /\ read_slot \in Slot /\ rexpected \in State /\ old \in Nat
  /\ out \in Item \cup {NoItem} /\ ret \in Item \cup {NoItem}
  /\ spc \in {"idle", "bump", "notify", "done"}

(* The slots the two threads have looked up are never the same slot while  *)
(* either may touch its slot or that slot's have_unread_ flag, whatever    *)
(* the other thread has made of state_idx_ since the look-up: no item is   *)
(* torn.                                                                   *)
SlotExclusive ==
  wpc \in {"store", "mark"} /\ rpc \in {"unread?", "take", "clear"} =>
    write_slot # read_slot

(* An item waits unread in the slot that passes information.               *)
Waiting == have_unread_[zero_slot]

(* A reader asleep in update_counter_.wait() beside an unread item, or     *)
(* after stop(), has a notification coming.                                *)
NoLostWakeup ==
  rpc = "asleep" /\ (Waiting \/ stop_) =>
    wpc \in {"bump", "notify"} \/ spc \in {"bump", "notify"}

(* A read that need not wait (nonblocking, or after a write or stop())     *)
(* returns; a blocking read does not sleep through either.                 *)
ReadReturns ==
  rpc # "idle" /\ (~blocking \/ stop_ \/ Waiting) ~> rpc = "idle"

-----------------------------------------------------------------------------
(* The mailbox is the 0 slot, the hand is the R slot once the read has     *)
(* swapped it in, or the copy once the slot may have been swapped away.    *)
mailbox == IF Waiting THEN slots_[zero_slot] ELSE NoItem

hand ==
  CASE rpc \in {"slot", "unread?", "slot_again", "take"} ->
         IF have_unread_[get_read_slot] THEN slots_[get_read_slot] ELSE NoItem
    [] rpc = "clear" -> out
    [] OTHER -> NoRead

Latest == INSTANCE LatestItem WITH closed <- stop_

(* SingleItem implements the one-item mailbox of LatestItem: no item is    *)
(* read twice, after a newer one, or when it was never written.            *)
ImplementsLatestItem == Latest!Spec

=============================================================================
