----------------------------- MODULE RingBuffer -----------------------------
(***************************************************************************)
(* concurrency/ring_buffer.h, struct RingBuffer: a fixed array of `size'   *)
(* slots between one producer thread and one consumer thread.  head, tail, *)
(* stopped and update_counter are sequentially consistent atomics, so every *)
(* step below is one load or one store of one of them, or one access to a  *)
(* slot.  Slots are plain memory: a slot access starts when a pointer to   *)
(* the slot is handed out and ends with the next step of that thread.      *)
(*                                                                         *)
(* std::atomic::wait is modelled by its contract: it returns only when the *)
(* value differs from the one given, it may block only while the value is  *)
(* equal, and a blocked thread looks again only when it is notified or     *)
(* spuriously woken.                                                       *)
(***************************************************************************)
EXTENDS Integers, Sequences

CONSTANTS
  Size,        \* template parameter `size': slots of the array
  Item,        \* values the producer writes
  NoItem,      \* nullptr / false
  Stoppers,    \* threads that may call stop(), each at most once
  MaxUpdates   \* bound: no write begins once update_counter is that large

ASSUME SizeAssumption == Size \in Nat \ {0, 1}
ASSUME ItemAssumption == NoItem \notin Item
ASSUME BoundAssumption == MaxUpdates \in Nat

VARIABLES
  data, head, tail, stopped, update_counter,  \* the members of the struct
  ppc,         \* where the producer is
  in,          \* the argument of the write in progress
  wrote,       \* what the last write() returned
  spc,         \* where each stopping thread is
  cpc,         \* where the consumer is
  op,          \* the consumer's operation and whether it may block
  old,         \* update_counter_old
  snap,        \* tail, as the consumer last loaded it for an index
  out,         \* the item the consumer has copied out of its slot
  ret,         \* what the last read or peek returned
  late         \* the operation began, or was still blocking, after stop()

ring == <<data, head, tail, stopped, update_counter>>
prod == <<ppc, in, wrote>>
cons == <<cpc, op, old, snap, out, ret>>
vars == <<ring, prod, spc, cons, late>>

Slot == 0..(Size - 1)
(* Mutants: the index of the newest item taken to be tail itself; full()   *)
(* comparing one slot too far.                                             *)
BeforeItself(i) == i
After(i) == (i + 1) % Size
Before(i) == (i + Size - 1) % Size

FullOneEarly == (tail + 2) % Size = head
full == After(tail) = head
empty == head = tail

(* num_slots_filled(): a negative difference has wrapped around once.      *)
num_slots_filled == IF tail - head < 0 THEN tail - head + Size ELSE tail - head

Ops == [name : {"read", "read_latest", "peek_front", "peek_back", "clear"},
        blocking : BOOLEAN]

(* Only the two reads take the `blocking' argument.                        *)
CallableOps == { o \in Ops : o.blocking => o.name \in {"read", "read_latest"} }

Init ==
  /\ data \in [Slot -> {NoItem}]
  /\ head = 0 /\ tail = 0
  /\ stopped = FALSE
  /\ update_counter = 0
  /\ ppc = "idle" /\ in = NoItem /\ wrote = "none"
  /\ spc = [s \in Stoppers |-> "idle"]
  /\ cpc = "idle"
  /\ op = [name |-> "read", blocking |-> FALSE]
  /\ old = 0 /\ snap = 0 /\ out = NoItem /\ ret = NoItem
  /\ late = FALSE

-----------------------------------------------------------------------------
(* The producer: write() and move_write().                                 *)

(* begin_write() finds the buffer full: write() returns false.             *)
BeginWriteFull ==
  /\ ppc = "idle"
  /\ full
  /\ wrote' = "refused"
  /\ UNCHANGED <<ring, ppc, in, spc, cons, late>>

(* begin_write() hands out &data[tail].                                    *)
BeginWrite(item) ==
  /\ ppc = "idle"
  /\ update_counter < MaxUpdates
  /\ ~full
  /\ in' = item
  /\ ppc' = "fill"
  /\ UNCHANGED <<ring, wrote, spc, cons, late>>

(* *t_in = t;                                                              *)
Fill ==
  /\ ppc = "fill"
  /\ data' = [data EXCEPT ![tail] = in]
  /\ ppc' = "publish"
  /\ UNCHANGED <<head, tail, stopped, update_counter, in, wrote, spc, cons, late>>

(* end_write(): the store to tail makes the slot visible.                  *)
Publish ==
  /\ ppc = "publish"
  /\ tail' = After(tail)
  /\ wrote' = "accepted"
  /\ ppc' = "bump"
  /\ UNCHANGED <<data, head, stopped, update_counter, in, spc, cons, late>>

WriteBump ==
  /\ ppc = "bump"
  /\ update_counter' = update_counter + 1
  /\ ppc' = "notify"
  /\ UNCHANGED <<data, head, tail, stopped, in, wrote, spc, cons, late>>

(* Mutant: notify_one() left out.                                          *)
NotifyNobody == UNCHANGED cpc

(* notify_one(): the consumer is the only thread that ever waits.          *)
Notify == cpc' = IF cpc = "asleep" THEN "wait" ELSE cpc

WriteNotify ==
  /\ ppc = "notify"
  /\ Notify
  /\ ppc' = "idle"
  /\ UNCHANGED <<ring, in, wrote, spc, op, old, snap, out, ret, late>>

Producer ==
  \/ BeginWriteFull
  \/ \E item \in Item : BeginWrite(item)
  \/ Fill
  \/ Publish
  \/ WriteBump
  \/ WriteNotify

-----------------------------------------------------------------------------
(* stop(), called by any thread (cleanup, a stop_all callback, ~RingBuffer). *)

(* Consumer locations at or before the load of `stopped' that decides      *)
(* whether begin_read() or begin_read_latest() returns nullptr.            *)
BeforeStopTest ==
  {"load", "chk_stop", "chk_empty", "wait", "asleep", "stop?"}
    \cup (IF op.name = "read_latest" THEN {"empty?"} ELSE {})

StopStore(s) ==
  /\ spc[s] = "idle"
  /\ stopped' = TRUE
  /\ late' = (late \/ cpc \in BeforeStopTest)
  /\ spc' = [spc EXCEPT ![s] = "bump"]
  /\ UNCHANGED <<data, head, tail, update_counter, prod, cons>>

StopBump(s) ==
  /\ spc[s] = "bump"
  /\ update_counter' = update_counter + 1
  /\ spc' = [spc EXCEPT ![s] = "notify"]
  /\ UNCHANGED <<data, head, tail, stopped, prod, cons, late>>

StopNotify(s) ==
  /\ spc[s] = "notify"
  /\ Notify
  /\ spc' = [spc EXCEPT ![s] = "done"]
  /\ UNCHANGED <<ring, prod, op, old, snap, out, ret, late>>

Stop(s) == StopStore(s) \/ StopBump(s) \/ StopNotify(s)

-----------------------------------------------------------------------------
(* The consumer.                                                           *)

Go(here, there) == cpc = here /\ cpc' = there

(* The operation returns and the consumer may call the next one.           *)
Answer(here, r) == Go(here, "idle") /\ ret' = r

Call(o) ==
  /\ Go("idle", CASE o.blocking                        -> "load"
                  [] ~o.blocking /\ o.name = "read"    -> "stop?"
                  [] o.name = "clear"                  -> "snap"
                  [] OTHER                             -> "empty?")
  /\ op' = o
  /\ late' = stopped
  /\ UNCHANGED <<ring, prod, spc, old, snap, out, ret>>

(* block_until_stopped_or_nonempty(): the counter is loaded before the     *)
(* condition it guards.                                                    *)
LoadCounter ==
  /\ Go("load", "chk_stop")
  /\ old' = update_counter
  /\ UNCHANGED <<ring, prod, spc, op, snap, out, ret, late>>

AfterBlock == IF op.name = "read" THEN "stop?" ELSE "empty?"

CheckStop ==
  /\ Go("chk_stop", IF stopped THEN AfterBlock ELSE "chk_empty")
  /\ UNCHANGED <<ring, prod, spc, op, old, snap, out, ret, late>>

CheckEmpty ==
  /\ Go("chk_empty", IF empty THEN "wait" ELSE AfterBlock)
  /\ UNCHANGED <<ring, prod, spc, op, old, snap, out, ret, late>>

(* update_counter.wait(old): back to the load, or to sleep.                *)
Wait ==
  /\ Go("wait", IF update_counter = old THEN "asleep" ELSE "load")
  /\ UNCHANGED <<ring, prod, spc, op, old, snap, out, ret, late>>

SpuriousWake ==
  /\ Go("asleep", "wait")
  /\ UNCHANGED <<ring, prod, spc, op, old, snap, out, ret, late>>

(* Mutant: a stopped buffer that still hands out its items.                *)
TestStopIgnored ==
  /\ Go("stop?", IF op.name = "read" THEN "empty?" ELSE "snap")
  /\ UNCHANGED <<ring, prod, spc, op, old, snap, out, ret, late>>

(* if (stopped) return nullptr;                                            *)
TestStop ==
  /\ \/ stopped /\ Answer("stop?", NoItem)
     \/ /\ ~stopped
        /\ Go("stop?", IF op.name = "read" THEN "empty?" ELSE "snap")
        /\ UNCHANGED ret
  /\ UNCHANGED <<ring, prod, spc, op, old, snap, out, late>>

(* if (empty()) return nullptr;                                            *)
TestEmpty ==
  /\ \/ empty /\ Answer("empty?", NoItem)
     \/ /\ ~empty
        /\ Go("empty?", CASE op.name = "read_latest" -> "stop?"
                          [] op.name = "peek_back"   -> "snap"
                          [] OTHER                   -> "copy")
        /\ UNCHANGED ret
  /\ UNCHANGED <<ring, prod, spc, op, old, snap, out, late>>

(* read_latest, peek_back and clear load tail to compute an index from it. *)
SnapTail ==
  /\ Go("snap", IF op.name = "peek_back" THEN "copy" ELSE "skip")
  /\ snap' = tail
  /\ UNCHANGED <<ring, prod, spc, op, old, out, ret, late>>

(* head = (tail + size - 1) % size;  or  head = tail_value;                *)
Skip ==
  /\ \/ /\ op.name = "read_latest"
        /\ head' = Before(snap)
        /\ Go("skip", "copy")
     \/ /\ op.name = "clear"
        /\ head' = snap
        /\ Go("skip", "idle")
  /\ UNCHANGED <<data, tail, stopped, update_counter, prod, spc, op, old, snap,
                 out, ret, late>>

(* The slot the consumer's pointer refers to.                              *)
rslot == IF op.name = "peek_back" THEN Before(snap) ELSE head

Peeking == op.name \in {"peek_front", "peek_back"}

(* *t_out = *t;  a peek's caller uses the slot and is done.                *)
Copy ==
  /\ \/ Peeking /\ Answer("copy", data[rslot])
     \/ ~Peeking /\ Go("copy", "advance") /\ UNCHANGED ret
  /\ out' = data[rslot]
  /\ UNCHANGED <<ring, prod, spc, op, old, snap, late>>

(* end_read(): the store to head gives the slot back.                      *)
EndRead ==
  /\ Answer("advance", out)
  /\ head' = After(head)
  /\ UNCHANGED <<data, tail, stopped, update_counter, prod, spc, op, old, snap,
                 out, late>>

(* The steps of an operation that has been called.                         *)
ConsumerStep ==
  \/ LoadCounter \/ CheckStop \/ CheckEmpty \/ Wait
  \/ TestStop \/ TestEmpty \/ SnapTail \/ Skip \/ Copy \/ EndRead

Consumer == (\E o \in CallableOps : Call(o)) \/ ConsumerStep \/ SpuriousWake

Next == Producer \/ Consumer \/ \E s \in Stoppers : Stop(s)

Spec == Init /\ [][Next]_vars

(* A thread that is inside a call keeps running; nobody has to call.       *)
Fairness ==
  /\ WF_vars(Fill \/ Publish \/ WriteBump \/ WriteNotify)
  /\ WF_vars(ConsumerStep)
  /\ \A s \in Stoppers : WF_vars(StopBump(s) \/ StopNotify(s))

FairSpec == Spec /\ Fairness

-----------------------------------------------------------------------------
(* Every variable stays in its type, the snapshot and the indices in the   *)
(* array.                                                                  *)
TypeOK ==
  /\ data \in [Slot -> Item \cup {NoItem}]
  /\ head \in Slot /\ tail \in Slot /\ snap \in Slot
  /\ stopped \in BOOLEAN /\ late \in BOOLEAN
  /\ update_counter \in Nat /\ old \in Nat
  /\ ppc \in {"idle", "fill", "publish", "bump", "notify"}
  /\ in \in Item \cup {NoItem}
  /\ wrote \in {"none", "accepted", "refused"}
  /\ spc \in [Stoppers -> {"idle", "bump", "notify", "done"}]
  /\ cpc \in {"idle", "load", "chk_stop", "chk_empty", "wait", "asleep",
              "stop?", "empty?", "snap", "skip", "copy", "advance"}
  /\ op \in CallableOps
  /\ out \in Item \cup {NoItem} /\ ret \in Item \cup {NoItem}

(* The producer is never storing into the slot the consumer is copying     *)
(* from: the pointers handed out by begin_write() and by begin_read(),     *)
(* begin_read_latest(), peek_front() and peek_back() never alias while     *)
(* both are in use, so no read is torn.                                    *)
SlotExclusive ==
  ppc \in {"fill", "publish"} /\ cpc \in {"copy", "advance"} => rslot # tail

(* The CHECKs of end_write() (48), block_until_stopped_or_nonempty() (80)  *)
(* and end_read() (100) hold whenever they are evaluated, whatever the     *)
(* other thread has done since the condition was first tested.             *)
ChecksHold ==
  /\ ppc = "publish" => ~full
  /\ op.blocking /\ cpc \in {"stop?", "empty?"} => stopped \/ ~empty
  /\ cpc = "advance" => ~empty

(* A consumer asleep in update_counter.wait() although there is something  *)
(* to read, or although the buffer was stopped, still has a notification   *)
(* coming: no interleaving of write(), stop() and the blocking loop loses  *)
(* the wake-up.                                                            *)
NoLostWakeup ==
  cpc = "asleep" /\ (stopped \/ ~empty) =>
    \/ ppc \in {"bump", "notify"}
    \/ \E s \in Stoppers : spc[s] \in {"bump", "notify"}

(* "when stop() is called, any blocked reads unblock, and those reads and  *)
(* subsequent ones return nullptr/false" (ring_buffer.h:14): a read that   *)
(* was still blocking when stop() stored its flag, or that began later,    *)
(* never hands out a slot.                                                 *)
StoppedReadsFail ==
  late /\ op.name \in {"read", "read_latest"} =>
    cpc \notin {"snap", "skip", "copy", "advance"}

(* An operation that need not wait (nonblocking, or blocking with an item  *)
(* queued or after stop()) returns: neither side can leave the other       *)
(* asleep for ever.                                                        *)
OperationReturns ==
  cpc # "idle" /\ (~op.blocking \/ stopped \/ ~empty) ~> cpc = "idle"

-----------------------------------------------------------------------------
(* The queue the buffer stands for: the slots from head up to tail.        *)
contents == [i \in 1..num_slots_filled |-> data[(head + i - 1) % Size]]

Fifo == INSTANCE SpscFifo WITH
          Capacity <- Size - 1, queue <- contents, closed <- stopped

(* RingBuffer implements the bounded, closable FIFO queue of SpscFifo.     *)
ImplementsFifo == Fifo!Spec

=============================================================================
