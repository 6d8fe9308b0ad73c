------------------------- MODULE SingleItem_proofs -------------------------
(***************************************************************************)
(* TLAPS proofs about SingleItem, for every set of items and any number of *)
(* writes, reads and failed compare-and-swaps.                             *)
(***************************************************************************)
EXTENDS SingleItem, TLAPS

(* The slot a thread looked up is still its slot: the other thread's       *)
(* compare-and-swap never changes it.                                      *)
SlotInv ==
  /\ wpc \in {"store", "mark", "load_state", "cas"} => write_slot = get_write_slot
  /\ rpc \in {"unread?", "slot_again", "take", "clear"} => read_slot = get_read_slot

(* Between reads the reader's slot is never unread; from the test to the   *)
(* end of a successful read it is.                                         *)
UnreadInv ==
  /\ rpc \in {"idle", "load", "stop?", "load_state", "cas", "wait", "asleep"} =>
       ~have_unread_[get_read_slot]
  /\ rpc \in {"slot_again", "take", "clear"} => have_unread_[get_read_slot]

(* What the writer's slot holds just before it is passed on.               *)
WriteInv ==
  /\ wpc \in {"store", "mark", "load_state", "cas"} => item \in Item
  /\ wpc \in {"mark", "load_state", "cas"} => slots_[write_slot] = item
  /\ wpc \in {"load_state", "cas"} => have_unread_[write_slot]

IInv == TypeOK /\ SlotInv /\ UnreadInv /\ WriteInv

-----------------------------------------------------------------------------
(* The three roles are three different slots in every state; a write swaps *)
(* the writer's slot with the 0 slot, a read the reader's.                 *)
LEMMA Roles ==
  \A s \in State :
    /\ ReadHead[s + 1] \in Slot /\ WriteHead[s + 1] \in Slot
    /\ ReadHead[s + 1] # WriteHead[s + 1]
    /\ 3 - ReadHead[s + 1] - WriteHead[s + 1] \in Slot
    /\ 3 - ReadHead[s + 1] - WriteHead[s + 1] # ReadHead[s + 1]
    /\ 3 - ReadHead[s + 1] - WriteHead[s + 1] # WriteHead[s + 1]
BY DEF State, Slot, ReadHead, WriteHead

LEMMA WriteSwaps ==
  ASSUME NEW s \in State
  PROVE  /\ Desired(s, TRUE) \in State
         /\ ReadHead[Desired(s, TRUE) + 1] = ReadHead[s + 1]
         /\ WriteHead[Desired(s, TRUE) + 1] = 3 - ReadHead[s + 1] - WriteHead[s + 1]
BY DEF State, ReadHead, WriteHead, Desired

LEMMA ReadSwaps ==
  ASSUME NEW s \in State
  PROVE  /\ Desired(s, FALSE) \in State
         /\ WriteHead[Desired(s, FALSE) + 1] = WriteHead[s + 1]
         /\ ReadHead[Desired(s, FALSE) + 1] = 3 - ReadHead[s + 1] - WriteHead[s + 1]
BY DEF State, ReadHead, WriteHead, Desired

(* The same about the slots of the current state.                          *)
LEMMA RolesNow ==
  ASSUME TypeOK
  PROVE  /\ get_read_slot \in Slot /\ get_write_slot \in Slot /\ zero_slot \in Slot
         /\ get_read_slot # get_write_slot
         /\ zero_slot # get_read_slot /\ zero_slot # get_write_slot
BY Roles DEF TypeOK, get_read_slot, get_write_slot, zero_slot

LEMMA WriteSwapsNow ==
  ASSUME TypeOK, state_idx_' = Desired(state_idx_, TRUE)
  PROVE  /\ state_idx_' \in State
         /\ get_read_slot' = get_read_slot
         /\ get_write_slot' = zero_slot
         /\ zero_slot' = get_write_slot
<1>1. state_idx_ \in State
  BY DEF TypeOK
<1>2. /\ state_idx_' \in State
      /\ get_read_slot' = get_read_slot
      /\ get_write_slot' = zero_slot
  BY <1>1, WriteSwaps DEF get_read_slot, get_write_slot, zero_slot
<1>3. /\ zero_slot = 3 - get_read_slot - get_write_slot
      /\ zero_slot' = 3 - get_read_slot' - get_write_slot'
  BY DEF zero_slot
<1>4. get_read_slot \in Int /\ get_write_slot \in Int
  BY RolesNow DEF Slot
<1>5. \A r, w \in Int : 3 - r - (3 - r - w) = w /\ 3 - (3 - r - w) - w = r
  OBVIOUS
<1>6. QED
  BY <1>2, <1>3, <1>4, <1>5

LEMMA ReadSwapsNow ==
  ASSUME TypeOK, state_idx_' = Desired(state_idx_, FALSE)
  PROVE  /\ state_idx_' \in State
         /\ get_write_slot' = get_write_slot
         /\ get_read_slot' = zero_slot
         /\ zero_slot' = get_read_slot
<1>1. state_idx_ \in State
  BY DEF TypeOK
<1>2. /\ state_idx_' \in State
      /\ get_write_slot' = get_write_slot
      /\ get_read_slot' = zero_slot
  BY <1>1, ReadSwaps DEF get_read_slot, get_write_slot, zero_slot
<1>3. /\ zero_slot = 3 - get_read_slot - get_write_slot
      /\ zero_slot' = 3 - get_read_slot' - get_write_slot'
  BY DEF zero_slot
<1>4. get_read_slot \in Int /\ get_write_slot \in Int
  BY RolesNow DEF Slot
<1>5. \A r, w \in Int : 3 - r - (3 - r - w) = w /\ 3 - (3 - r - w) - w = r
  OBVIOUS
<1>6. QED
  BY <1>2, <1>3, <1>4, <1>5

LEMMA SameRoles ==
  ASSUME UNCHANGED state_idx_
  PROVE  UNCHANGED <<get_read_slot, get_write_slot, zero_slot>>
BY DEF get_read_slot, get_write_slot, zero_slot

-----------------------------------------------------------------------------
LEMMA IInit == Init => IInv
<1> SUFFICES ASSUME Init PROVE IInv
  OBVIOUS
<1>1. TypeOK
  <2>1. 0 \in Slot /\ 0 \in State /\ 0 \in Nat
    BY DEF Slot, State
  <2>2. /\ slots_ \in [Slot -> Item \cup {NoItem}]
        /\ have_unread_ \in [Slot -> BOOLEAN]
    BY DEF Init
  <2>3. QED
    BY <2>1, <2>2 DEF Init, TypeOK
<1>2. \A s \in Slot : ~have_unread_[s]
  BY DEF Init
<1>3. QED
  BY <1>1, <1>2, RolesNow DEF Init, IInv, SlotInv, UnreadInv, WriteInv

LEMMA TypeStep == TypeOK /\ [Next]_vars => TypeOK'
<1> SUFFICES ASSUME TypeOK, [Next]_vars PROVE TypeOK'
  OBVIOUS
<1>0. /\ state_idx_' = Desired(state_idx_, TRUE) => state_idx_' \in State
      /\ state_idx_' = Desired(state_idx_, FALSE) => state_idx_' \in State
  BY WriteSwapsNow, ReadSwapsNow
<1> USE DEF TypeOK
<1>1. ASSUME NEW i \in Item, BeginWrite(i) PROVE TypeOK'
  BY <1>1, RolesNow DEF BeginWrite, GoW, shared, reader
<1>2. CASE StoreItem BY <1>2 DEF StoreItem, GoW, reader
<1>3. CASE MarkUnread BY <1>3 DEF MarkUnread, GoW, reader
<1>4. CASE LoadStateW BY <1>4 DEF LoadStateW, GoW, shared, reader
<1>5. CASE SwapWriteSlot
  <2>1. state_idx_' = Desired(state_idx_, TRUE)
    BY <1>5 DEF SwapWriteSlot
  <2>2. state_idx_' \in State
    BY <1>0, <2>1
  <2>3. /\ wpc' = "bump"
        /\ UNCHANGED <<slots_, have_unread_, stop_, update_counter_, item,
                       write_slot, wexpected, reader, spc>>
    BY <1>5, Zenon DEF SwapWriteSlot, GoW
  <2>4. QED
    BY <2>2, <2>3 DEF reader
<1>6. CASE RetryW BY <1>6 DEF RetryW, shared, reader
<1>7. CASE BumpW BY <1>7 DEF BumpW, GoW, reader
<1>8. CASE NotifyW BY <1>8 DEF NotifyW, Notify, GoW, shared
<1>9. ASSUME NEW s \in BOOLEAN, NEW b \in BOOLEAN, BeginRead(s, b) PROVE TypeOK'
  BY <1>9 DEF BeginRead, GoR, shared, writer
<1>10. CASE LoadCounter BY <1>10 DEF LoadCounter, GoR, shared, writer
<1>11. CASE TestStop BY <1>11 DEF TestStop, Answer, GoR, shared, writer
<1>12. CASE LoadStateR BY <1>12 DEF LoadStateR, GoR, shared, writer
<1>13. CASE SwapReadSlot
  <2>1. state_idx_' = Desired(state_idx_, FALSE)
    BY <1>13 DEF SwapReadSlot
  <2>2. state_idx_' \in State
    BY <1>0, <2>1
  <2>3. /\ rpc' = "slot"
        /\ UNCHANGED <<slots_, have_unread_, stop_, update_counter_, writer, swap,
                       blocking, read_slot, rexpected, old, out, ret, spc>>
    BY <1>13, Zenon DEF SwapReadSlot, GoR
  <2>4. QED
    BY <2>2, <2>3 DEF writer
<1>14. CASE RetryR BY <1>14 DEF RetryR, shared, writer
<1>15. CASE LookUpReadSlot
  BY <1>15, RolesNow DEF LookUpReadSlot, GoR, shared, writer
<1>16. CASE TestUnread BY <1>16 DEF TestUnread, Answer, GoR, shared, writer
<1>17. CASE TakeItem BY <1>17 DEF TakeItem, GoR, writer
<1>18. CASE ClearUnread BY <1>18 DEF ClearUnread, Answer, GoR, writer
<1>19. CASE Wait BY <1>19 DEF Wait, GoR, shared, writer
<1>20. CASE SpuriousWake BY <1>20 DEF SpuriousWake, GoR, shared, writer
<1>21. CASE StopStore BY <1>21 DEF StopStore, writer, reader
<1>22. CASE StopBump BY <1>22 DEF StopBump, writer, reader
<1>23. CASE StopNotify BY <1>23 DEF StopNotify, Notify, shared, writer
<1>24. CASE UNCHANGED vars BY <1>24 DEF vars, shared, writer, reader
<1>25. QED
  BY <1>1, <1>2, <1>3, <1>4, <1>5, <1>6, <1>7, <1>8, <1>9, <1>10, <1>11, <1>12,
     <1>13, <1>14, <1>15, <1>16, <1>17, <1>18, <1>19, <1>20, <1>21, <1>22,
     <1>23, <1>24
     DEF Next, Writer, WriterStep, Reader, ReaderStep, Stop

(* Every variable keeps its type, the state index its range 0..5.          *)
THEOREM TypeCorrect == Spec => []TypeOK
<1>1. Init => TypeOK BY IInit DEF IInv
<1>2. TypeOK /\ [Next]_vars => TypeOK' BY TypeStep
<1>3. QED BY <1>1, <1>2, PTL DEF Spec

-----------------------------------------------------------------------------
(* IInv is inductive: one lemma for the writer, one for the reader.        *)

LEMMA WriterKeepsIInv ==
  ASSUME IInv, TypeOK', Writer
  PROVE  IInv'
<1> USE DEF IInv, SlotInv, UnreadInv, WriteInv
<1>1. ASSUME NEW i \in Item, BeginWrite(i) PROVE IInv'
  BY <1>1, SameRoles DEF BeginWrite, GoW, shared, reader
<1>2. CASE StoreItem
  BY <1>2, SameRoles DEF StoreItem, GoW, reader, TypeOK
<1>3. CASE MarkUnread
  BY <1>3, RolesNow, SameRoles DEF MarkUnread, GoW, reader, TypeOK
<1>4. CASE LoadStateW \/ RetryW \/ BumpW
  BY <1>4, SameRoles DEF LoadStateW, RetryW, BumpW, GoW, shared, reader
<1>5. CASE SwapWriteSlot
  BY <1>5, WriteSwapsNow DEF SwapWriteSlot, GoW, reader
<1>6. CASE NotifyW
  BY <1>6, SameRoles DEF NotifyW, Notify, GoW, shared
<1>7. QED
  BY <1>1, <1>2, <1>3, <1>4, <1>5, <1>6 DEF Writer, WriterStep

LEMMA ReaderKeepsIInv ==
  ASSUME IInv, TypeOK', Reader
  PROVE  IInv'
<1> USE DEF IInv, SlotInv, UnreadInv, WriteInv
<1>1. ASSUME NEW s \in BOOLEAN, NEW b \in BOOLEAN, BeginRead(s, b) PROVE IInv'
  BY <1>1, SameRoles DEF BeginRead, GoR, shared, writer
<1>2. CASE LoadCounter \/ TestStop \/ LoadStateR \/ RetryR \/ Wait \/ SpuriousWake
  BY <1>2, SameRoles DEF LoadCounter, TestStop, LoadStateR, RetryR, Wait,
     SpuriousWake, Answer, GoR, shared, writer
<1>3. CASE SwapReadSlot
  BY <1>3, ReadSwapsNow DEF SwapReadSlot, GoR, writer
<1>4. CASE LookUpReadSlot
  BY <1>4, SameRoles DEF LookUpReadSlot, GoR, shared, writer
<1>5. CASE TestUnread
  BY <1>5, SameRoles DEF TestUnread, Answer, GoR, shared, writer
<1>6. CASE TakeItem
  <2>1. \A s \in Slot \ {read_slot} : slots_'[s] = slots_[s]
    BY <1>6 DEF TakeItem, TypeOK
  <2>2. wpc \in {"mark", "load_state", "cas"} => write_slot \in Slot \ {read_slot}
    BY <1>6, RolesNow DEF TakeItem, GoR
  <2>3. QED
    BY <1>6, <2>1, <2>2, SameRoles DEF TakeItem, GoR, writer
<1>7. CASE ClearUnread
  <2>1. /\ have_unread_'[read_slot] = FALSE
        /\ \A s \in Slot \ {read_slot} : have_unread_'[s] = have_unread_[s]
    BY <1>7 DEF ClearUnread, TypeOK
  <2>2. wpc \in {"load_state", "cas"} => write_slot \in Slot \ {read_slot}
    BY <1>7, RolesNow DEF ClearUnread, Answer, GoR
  <2>3. QED
    BY <1>7, <2>1, <2>2, SameRoles DEF ClearUnread, Answer, GoR, writer
<1>8. QED
  BY <1>1, <1>2, <1>3, <1>4, <1>5, <1>6, <1>7 DEF Reader, ReaderStep

LEMMA IStep == IInv /\ [Next]_vars => IInv'
<1> SUFFICES ASSUME IInv, [Next]_vars PROVE IInv'
  OBVIOUS
<1>1. TypeOK'
  BY TypeStep DEF IInv
<1>2. CASE Writer BY <1>1, <1>2, WriterKeepsIInv
<1>3. CASE Reader BY <1>1, <1>3, ReaderKeepsIInv
<1>4. CASE Stop
  BY <1>1, <1>4, SameRoles DEF Stop, StopStore, StopBump, StopNotify, Notify,
     shared, writer, reader, IInv, SlotInv, UnreadInv, WriteInv
<1>5. CASE UNCHANGED vars
  BY <1>1, <1>5, SameRoles DEF vars, shared, writer, reader, IInv, SlotInv,
     UnreadInv, WriteInv
<1>6. QED
  BY <1>2, <1>3, <1>4, <1>5 DEF Next

LEMMA IAlways == Spec => []IInv
<1>1. Init => IInv BY IInit
<1>2. IInv /\ [Next]_vars => IInv' BY IStep
<1>3. QED BY <1>1, <1>2, PTL DEF Spec

(* The two threads never touch the same slot, whatever the interleaving of *)
(* their compare-and-swap loops.                                           *)
THEOREM SlotsAreExclusive == Spec => []SlotExclusive
<1>1. IInv => SlotExclusive
  BY RolesNow DEF IInv, SlotInv, SlotExclusive
<1>2. QED
  BY <1>1, IAlways, PTL

-----------------------------------------------------------------------------
(* The wake-up.  With the counter unchanged since the reader loaded it, a  *)
(* write that made the 0 slot unread after the reader looked, or a stop    *)
(* after the reader tested the flag, has its bump still to come; once the  *)
(* counter has moved under a sleeping reader, a notification is to come.   *)
WakeInv ==
  /\ rpc \in {"load", "stop?", "wait", "asleep"} => blocking
  /\ blocking /\ rpc \in {"stop?", "load_state", "cas", "slot", "unread?", "wait",
                         "asleep"} => old <= update_counter_
  /\ blocking /\ rpc \in {"load_state", "cas", "slot", "unread?", "wait", "asleep"}
       /\ stop_ /\ old = update_counter_ => spc = "bump"
  /\ blocking /\ rpc \in {"slot", "unread?", "wait", "asleep"}
       /\ Waiting /\ old = update_counter_ => wpc = "bump"
  /\ rpc = "asleep" /\ old # update_counter_ => wpc = "notify" \/ spc = "notify"

LEMMA WakeStep == IInv /\ WakeInv /\ [Next]_vars => WakeInv'
<1> SUFFICES ASSUME IInv, WakeInv, [Next]_vars PROVE WakeInv'
  OBVIOUS
<1> USE DEF WakeInv, Waiting
<1>0. /\ TypeOK /\ update_counter_ \in Nat /\ old \in Nat
      /\ stop_ \in BOOLEAN /\ blocking \in BOOLEAN
  BY DEF IInv, TypeOK
<1>1. CASE (\E i \in Item : BeginWrite(i)) \/ StoreItem \/ LoadStateW \/ RetryW
  BY <1>0, <1>1, SameRoles DEF BeginWrite, StoreItem, LoadStateW, RetryW, GoW,
     shared, reader
<1>2. CASE MarkUnread
  <2>1. zero_slot # write_slot /\ zero_slot' = zero_slot /\ zero_slot \in Slot
    BY <1>0, <1>2, RolesNow, SameRoles DEF MarkUnread, GoW, IInv, SlotInv
  <2>2. have_unread_'[zero_slot] = have_unread_[zero_slot]
    BY <1>2, <2>1 DEF MarkUnread, IInv, TypeOK
  <2>3. QED
    BY <1>0, <1>2, <2>1, <2>2 DEF MarkUnread, GoW, reader
<1>3. CASE SwapWriteSlot
  BY <1>0, <1>3 DEF SwapWriteSlot, GoW, reader
<1>4. CASE BumpW
  BY <1>0, <1>4, SameRoles DEF BumpW, GoW, reader
<1>5. CASE NotifyW
  BY <1>0, <1>5, SameRoles DEF NotifyW, Notify, GoW, shared
<1>6. CASE \E s, b \in BOOLEAN : BeginRead(s, b)
  BY <1>0, <1>6 DEF BeginRead, GoR
<1>7. CASE LoadCounter \/ TestStop \/ LoadStateR \/ RetryR \/ LookUpReadSlot
  BY <1>0, <1>7, SameRoles DEF LoadCounter, TestStop, LoadStateR, RetryR,
     LookUpReadSlot, Answer, GoR, shared, writer
<1>8. CASE SwapReadSlot
  <2>1. ~have_unread_[zero_slot']
    BY <1>0, <1>8, ReadSwapsNow DEF SwapReadSlot, GoR, IInv, UnreadInv
  <2>2. QED
    BY <1>0, <1>8, <2>1 DEF SwapReadSlot, GoR, writer
<1>9. CASE TestUnread \/ Wait \/ SpuriousWake
  BY <1>0, <1>9, SameRoles DEF TestUnread, Wait, SpuriousWake, Answer, GoR,
     shared, writer
<1>10. CASE TakeItem \/ ClearUnread
  BY <1>10 DEF TakeItem, ClearUnread, Answer, GoR
<1>11. CASE Stop
  BY <1>0, <1>11, SameRoles DEF Stop, StopStore, StopBump, StopNotify, Notify,
     shared, writer, reader
<1>12. CASE UNCHANGED vars
  BY <1>12, SameRoles DEF vars, shared, writer, reader
<1>13. QED
  BY <1>1, <1>2, <1>3, <1>4, <1>5, <1>6, <1>7, <1>8, <1>9, <1>10, <1>11, <1>12
     DEF Next, Writer, WriterStep, Reader, ReaderStep

(* A reader asleep beside an unread item, or after stop(), has a           *)
(* notification coming.                                                    *)
THEOREM WakeupIsNeverLost == Spec => []NoLostWakeup
<1>1. Init => WakeInv
  BY DEF Init, WakeInv
<1>2. IInv /\ WakeInv /\ [Next]_vars => WakeInv'
  BY WakeStep
<1>3. WakeInv => NoLostWakeup
  BY DEF WakeInv, NoLostWakeup
<1>4. QED
  BY <1>1, <1>2, <1>3, IAlways, PTL DEF Spec

-----------------------------------------------------------------------------
(* The refinement: the write's compare-and-swap puts the item into the     *)
(* mailbox, the read's compare-and-swap takes it out.                      *)

(* The steps that neither move a slot between roles nor touch what the     *)
(* mailbox and the hand consist of.                                        *)
LEMMA LatestQuiet ==
  ASSUME UNCHANGED <<mailbox, hand, stop_, ret>>
  PROVE  UNCHANGED Latest!vars
BY DEF Latest!vars

LEMMA LatestWriter ==
  ASSUME IInv, Writer
  PROVE  [Latest!Next]_(Latest!vars)
<1>0. TypeOK
  BY DEF IInv
<1>1. CASE (\E i \in Item : BeginWrite(i)) \/ LoadStateW \/ RetryW \/ BumpW
  <2>1. UNCHANGED <<slots_, have_unread_, state_idx_, stop_, rpc, out, ret>>
    BY <1>1 DEF BeginWrite, LoadStateW, RetryW, BumpW, shared, reader
  <2>2. UNCHANGED mailbox /\ UNCHANGED hand
    BY <2>1, SameRoles DEF mailbox, hand, Waiting
  <2>3. QED
    BY <2>1, <2>2, LatestQuiet
<1>2. CASE NotifyW
  <2>1. /\ UNCHANGED <<shared, out, ret>>
        /\ rpc' = IF rpc = "asleep" THEN "wait" ELSE rpc
    BY <1>2 DEF NotifyW, Notify
  <2>2. QED
    BY <2>1, SameRoles, LatestQuiet DEF mailbox, hand, Waiting, shared
<1>3. CASE StoreItem \/ MarkUnread
  <2>1. /\ write_slot = get_write_slot /\ write_slot \in Slot
        /\ UNCHANGED <<state_idx_, stop_, rpc, out, ret>>
    BY <1>0, <1>3, RolesNow
       DEF StoreItem, MarkUnread, GoW, IInv, SlotInv, reader
  <2>2. \A s \in Slot \ {write_slot} :
          slots_'[s] = slots_[s] /\ have_unread_'[s] = have_unread_[s]
    BY <1>0, <1>3 DEF StoreItem, MarkUnread, TypeOK
  <2>3. /\ zero_slot \in Slot \ {write_slot} /\ zero_slot' = zero_slot
        /\ get_read_slot \in Slot \ {write_slot} /\ get_read_slot' = get_read_slot
    BY <1>0, <2>1, RolesNow, SameRoles
  <2>4. UNCHANGED <<mailbox, hand>>
    BY <2>1, <2>2, <2>3 DEF mailbox, hand, Waiting
  <2>5. QED
    BY <2>1, <2>4, LatestQuiet
<1>4. CASE SwapWriteSlot
  <2>1. /\ write_slot = get_write_slot /\ have_unread_[write_slot]
        /\ slots_[write_slot] = item /\ item \in Item
        /\ UNCHANGED <<slots_, have_unread_, stop_, rpc, out, ret>>
    BY <1>4 DEF SwapWriteSlot, GoW, IInv, SlotInv, WriteInv, reader
  <2>2. zero_slot' = get_write_slot /\ get_read_slot' = get_read_slot
    BY <1>0, <1>4, WriteSwapsNow DEF SwapWriteSlot
  <2>3. mailbox' = item /\ hand' = hand
    BY <2>1, <2>2 DEF mailbox, hand, Waiting
  <2>4. Latest!Put(item)
    BY <2>1, <2>3 DEF Latest!Put
  <2>5. QED
    BY <2>1, <2>4 DEF Latest!Next
<1>5. QED
  BY <1>1, <1>2, <1>3, <1>4 DEF Writer, WriterStep

LEMMA LatestReader ==
  ASSUME IInv, Reader
  PROVE  [Latest!Next]_(Latest!vars)
<1>0. TypeOK
  BY DEF IInv
<1>1. CASE \/ (\E s, b \in BOOLEAN : BeginRead(s, b)) \/ LoadCounter
           \/ LoadStateR \/ RetryR \/ LookUpReadSlot \/ Wait \/ SpuriousWake
  <2>1. UNCHANGED <<slots_, have_unread_, state_idx_, stop_, ret, out>>
    BY <1>1 DEF BeginRead, LoadCounter, LoadStateR, RetryR, LookUpReadSlot,
       Wait, SpuriousWake, shared
  <2>2. UNCHANGED mailbox
    BY <2>1, SameRoles DEF mailbox, Waiting
  <2>3. UNCHANGED hand
    BY <1>1, <2>1, SameRoles DEF hand, BeginRead, LoadCounter, LoadStateR, RetryR,
       LookUpReadSlot, Wait, SpuriousWake, GoR
  <2>4. QED
    BY <2>1, <2>2, <2>3, LatestQuiet
<1>2. CASE TestStop
  <2>1. UNCHANGED <<slots_, have_unread_, state_idx_, stop_>>
    BY <1>2 DEF TestStop, shared
  <2>2. UNCHANGED mailbox
    BY <2>1, SameRoles DEF mailbox, Waiting
  <2>3. hand = NoRead /\ hand' = NoRead
    BY <1>2 DEF TestStop, Answer, GoR, hand
  <2>4. CASE stop_
    <3>1. ret' = NoItem
      BY <1>2, <2>4 DEF TestStop, Answer
    <3>2. Latest!GiveUp
      BY <2>1, <2>2, <2>3, <2>4, <3>1 DEF Latest!GiveUp
    <3>3. QED
      BY <3>2 DEF Latest!Next
  <2>5. CASE ~stop_
    BY <1>2, <2>1, <2>2, <2>3, <2>5, LatestQuiet DEF TestStop
  <2>6. QED
    BY <2>4, <2>5
<1>3. CASE SwapReadSlot
  <2>1. /\ rpc = "cas" /\ rpc' = "slot" /\ ~have_unread_[get_read_slot]
        /\ UNCHANGED <<slots_, have_unread_, stop_, ret>>
    BY <1>3 DEF SwapReadSlot, GoR, IInv, UnreadInv
  <2>2. zero_slot' = get_read_slot /\ get_read_slot' = zero_slot
    BY <1>0, <1>3, ReadSwapsNow DEF SwapReadSlot
  <2>3. hand = NoRead /\ hand' = mailbox /\ mailbox' = NoItem
    BY <2>1, <2>2 DEF hand, mailbox, Waiting
  <2>4. Latest!Look
    BY <2>1, <2>3 DEF Latest!Look
  <2>5. QED
    BY <2>4 DEF Latest!Next
<1>4. CASE TestUnread
  <2>1. /\ UNCHANGED <<slots_, have_unread_, state_idx_, stop_>>
        /\ rpc = "unread?" /\ read_slot = get_read_slot
        /\ have_unread_[read_slot] \in BOOLEAN
    BY <1>0, <1>4, RolesNow DEF TestUnread, Answer, GoR, shared, IInv, SlotInv, TypeOK
  <2>2. UNCHANGED mailbox
    BY <2>1, SameRoles DEF mailbox, Waiting
  <2>3. CASE have_unread_[read_slot]
    <3>1. rpc' = "slot_again" /\ ret' = ret
      BY <1>4, <2>3 DEF TestUnread, GoR
    <3>2. UNCHANGED hand
      BY <2>1, <3>1, SameRoles DEF hand
    <3>3. QED
      BY <2>1, <2>2, <3>1, <3>2, LatestQuiet
  <2>4. CASE ~have_unread_[read_slot]
    <3>1. hand = NoItem
      BY <2>1, <2>4 DEF hand
    <3>2. \/ rpc' = "wait" /\ ret' = ret
          \/ rpc' = "idle" /\ ret' = NoItem
      BY <1>4, <2>4 DEF TestUnread, Answer, GoR
    <3>3. hand' = NoRead
      BY <3>2 DEF hand
    <3>4. Latest!Retry \/ Latest!Return
      BY <2>1, <2>2, <3>1, <3>2, <3>3, ItemAssumption
         DEF Latest!Retry, Latest!Return
    <3>5. QED
      BY <3>4 DEF Latest!Next
  <2>5. QED
    BY <2>1, <2>3, <2>4
<1>5. CASE TakeItem
  <2>1. /\ rpc = "take" /\ rpc' = "clear" /\ out' = slots_[read_slot]
        /\ read_slot = get_read_slot /\ have_unread_[read_slot]
        /\ UNCHANGED <<have_unread_, state_idx_, stop_, ret>>
    BY <1>5 DEF TakeItem, GoR, IInv, SlotInv, UnreadInv
  <2>2. \A s \in Slot \ {read_slot} : slots_'[s] = slots_[s]
    BY <1>0, <1>5 DEF TakeItem, TypeOK
  <2>3. zero_slot \in Slot \ {read_slot} /\ zero_slot' = zero_slot
    BY <1>0, <2>1, RolesNow, SameRoles
  <2>4. UNCHANGED mailbox
    BY <2>1, <2>2, <2>3 DEF mailbox, Waiting
  <2>5. UNCHANGED hand
    BY <2>1 DEF hand
  <2>6. QED
    BY <2>1, <2>4, <2>5, LatestQuiet
<1>6. CASE ClearUnread
  <2>1. /\ rpc = "clear" /\ rpc' = "idle" /\ ret' = out
        /\ read_slot = get_read_slot
        /\ UNCHANGED <<slots_, state_idx_, stop_>>
    BY <1>6 DEF ClearUnread, Answer, GoR, IInv, SlotInv
  <2>2. \A s \in Slot \ {read_slot} : have_unread_'[s] = have_unread_[s]
    BY <1>0, <1>6 DEF ClearUnread, TypeOK
  <2>3. zero_slot \in Slot \ {read_slot} /\ zero_slot' = zero_slot
    BY <1>0, <2>1, RolesNow, SameRoles
  <2>4. UNCHANGED mailbox
    BY <2>1, <2>2, <2>3 DEF mailbox, Waiting
  <2>5. hand = out /\ hand' = NoRead /\ out # NoRead
    BY <1>0, <2>1, ItemAssumption DEF hand, TypeOK
  <2>6. Latest!Return
    BY <2>1, <2>4, <2>5 DEF Latest!Return
  <2>7. QED
    BY <2>6 DEF Latest!Next
<1>7. QED
  BY <1>1, <1>2, <1>3, <1>4, <1>5, <1>6 DEF Reader, ReaderStep

(* SingleItem implements the mailbox: every item that is read was written, *)
(* is read once, and is the newest there was when the read looked.         *)
THEOREM SingleItemImplementsLatestItem == Spec => ImplementsLatestItem
<1>1. Init => Latest!Init
  <2> SUFFICES ASSUME Init PROVE Latest!Init
    OBVIOUS
  <2>1. zero_slot \in Slot /\ hand = NoRead
    BY IInit, RolesNow DEF IInv, Init, hand
  <2>2. mailbox = NoItem
    BY <2>1 DEF Init, mailbox, Waiting
  <2>3. QED
    BY <2>1, <2>2 DEF Init, Latest!Init
<1>2. IInv /\ [Next]_vars => [Latest!Next]_(Latest!vars)
  <2> SUFFICES ASSUME IInv, [Next]_vars PROVE [Latest!Next]_(Latest!vars)
    OBVIOUS
  <2>1. CASE Writer BY <2>1, LatestWriter
  <2>2. CASE Reader BY <2>2, LatestReader
  <2>3. CASE StopStore
    <3>1. UNCHANGED <<mailbox, hand>>
      BY <2>3, SameRoles DEF StopStore, mailbox, hand, Waiting, reader
    <3>2. Latest!Close
      BY <2>3, <3>1 DEF StopStore, Latest!Close, reader
    <3>3. QED
      BY <3>2 DEF Latest!Next
  <2>4. CASE StopBump \/ StopNotify
    <3>1. /\ UNCHANGED <<slots_, have_unread_, state_idx_, stop_, out, ret>>
          /\ rpc' = rpc \/ (rpc = "asleep" /\ rpc' = "wait")
      BY <2>4 DEF StopBump, StopNotify, Notify, shared, reader
    <3>2. UNCHANGED <<mailbox, hand>>
      BY <3>1, SameRoles DEF mailbox, hand, Waiting
    <3>3. QED
      BY <3>1, <3>2, LatestQuiet
  <2>5. CASE UNCHANGED vars
    <3>1. UNCHANGED <<mailbox, hand>>
      BY <2>5, SameRoles DEF vars, shared, reader, mailbox, hand, Waiting
    <3>2. QED
      BY <2>5, <3>1, LatestQuiet DEF vars, shared, reader
  <2>6. QED
    BY <2>1, <2>2, <2>3, <2>4, <2>5 DEF Next, Stop
<1>3. QED
  BY <1>1, <1>2, IAlways, PTL DEF Spec, ImplementsLatestItem, Latest!Spec

=============================================================================
