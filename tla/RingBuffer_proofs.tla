------------------------- MODULE RingBuffer_proofs -------------------------
(***************************************************************************)
(* TLAPS proofs about RingBuffer, for every Size >= 2, every set of items  *)
(* and every set of stopping threads.                                      *)
(***************************************************************************)
EXTENDS RingBuffer, SequenceTheorems, TLAPS

(* The distance from slot i forward to slot j around the array.            *)
Dist(i, j) == IF j >= i THEN j - i ELSE j - i + Size

(* begin_write() found room, and only the producer can take it away.       *)
RoomInv == ppc \in {"fill", "publish"} => Dist(head, tail) < Size - 1

(* Which operation can be at which location, and what it has established.  *)
LocationInv ==
  /\ cpc \in {"load", "chk_stop", "chk_empty", "wait", "asleep"} => op.blocking
  /\ cpc = "stop?" => op.name \in {"read", "read_latest"}
  /\ cpc = "stop?" /\ op.name = "read" /\ op.blocking => stopped \/ ~empty
  /\ cpc = "stop?" /\ op.name = "read_latest" => ~empty
  /\ cpc = "empty?" => op.name # "clear"
  /\ cpc = "empty?" /\ op.blocking => stopped \/ ~empty
  /\ cpc = "snap" => op.name \in {"read_latest", "peek_back", "clear"}
  /\ cpc = "snap" /\ op.name # "clear" => ~empty
  /\ cpc = "skip" => op.name \in {"read_latest", "clear"}
  /\ cpc = "copy" => op.name # "clear" /\ ~empty
  /\ cpc = "advance" => op.name \in {"read", "read_latest"} /\ ~empty

(* A loaded tail stays between head and tail.                              *)
SnapInv ==
  /\ cpc = "skip" => Dist(head, snap) <= Dist(head, tail)
  /\ cpc = "skip" /\ op.name = "read_latest" => snap # head
  /\ cpc = "copy" /\ op.name = "peek_back" =>
       snap # head /\ Dist(head, snap) <= Dist(head, tail)

IndexInv == TypeOK /\ RoomInv /\ LocationInv /\ SnapInv

-----------------------------------------------------------------------------
(* Indices wrap around once at most.                                       *)
LEMMA AfterWraps ==
  \A i \in Slot : After(i) = IF i = Size - 1 THEN 0 ELSE i + 1
BY SizeAssumption DEF Slot, After

LEMMA BeforeWraps ==
  \A i \in Slot : Before(i) = IF i = 0 THEN Size - 1 ELSE i - 1
BY SizeAssumption DEF Slot, Before

LEMMA TypeInit == Init => TypeOK
<1> SUFFICES ASSUME Init PROVE TypeOK
  OBVIOUS
<1>1. data \in [Slot -> Item \cup {NoItem}]
  BY DEF Init
<1>2. op \in CallableOps
  BY DEF Init, CallableOps, Ops
<1>3. spc \in [Stoppers -> {"idle", "bump", "notify", "done"}]
  BY DEF Init
<1>4. 0 \in Slot
  BY SizeAssumption DEF Slot
<1>5. QED
  BY <1>1, <1>2, <1>3, <1>4 DEF Init, TypeOK

(* Every step keeps the types.                                             *)
LEMMA TypeStep == TypeOK /\ [Next]_vars => TypeOK'
<1> SUFFICES ASSUME TypeOK, [Next]_vars PROVE TypeOK'
  OBVIOUS
<1> USE SizeAssumption, AfterWraps, BeforeWraps DEF TypeOK
<1>1. CASE BeginWriteFull BY <1>1 DEF BeginWriteFull, ring, prod, cons
<1>2. ASSUME NEW item \in Item, BeginWrite(item) PROVE TypeOK'
  BY <1>2 DEF BeginWrite, ring, prod, cons
<1>3. CASE Fill BY <1>3 DEF Fill, cons
<1>4. CASE Publish BY <1>4 DEF Publish, cons, Slot
<1>5. CASE WriteBump BY <1>5 DEF WriteBump, cons
<1>6. CASE WriteNotify BY <1>6 DEF WriteNotify, Notify, ring
<1>7. ASSUME NEW s \in Stoppers, StopStore(s) PROVE TypeOK'
  BY <1>7 DEF StopStore, prod, cons
<1>8. ASSUME NEW s \in Stoppers, StopBump(s) PROVE TypeOK'
  BY <1>8 DEF StopBump, prod, cons
<1>9. ASSUME NEW s \in Stoppers, StopNotify(s) PROVE TypeOK'
  BY <1>9 DEF StopNotify, Notify, ring, prod
<1>10. ASSUME NEW o \in CallableOps, Call(o) PROVE TypeOK'
  BY <1>10 DEF Call, Go, ring, prod
<1>11. CASE LoadCounter BY <1>11 DEF LoadCounter, Go, ring, prod
<1>12. CASE CheckStop BY <1>12 DEF CheckStop, AfterBlock, Go, ring, prod
<1>13. CASE CheckEmpty BY <1>13 DEF CheckEmpty, AfterBlock, Go, ring, prod
<1>14. CASE Wait BY <1>14 DEF Wait, Go, ring, prod
<1>15. CASE SpuriousWake BY <1>15 DEF SpuriousWake, Go, ring, prod
<1>16. CASE TestStop BY <1>16, ItemAssumption DEF TestStop, Answer, Go, ring, prod
<1>17. CASE TestEmpty BY <1>17, ItemAssumption DEF TestEmpty, Answer, Go, ring, prod
<1>18. CASE SnapTail BY <1>18 DEF SnapTail, Go, ring, prod
<1>19. CASE Skip
  <2>1. Before(snap) \in Slot BY DEF Slot
  <2>2. head' \in Slot BY <1>19, <2>1 DEF Skip
  <2>3. QED BY <1>19, <2>2 DEF Skip, Go, prod
<1>20. CASE Copy
  <2>1. rslot \in Slot BY DEF rslot, Slot
  <2>2. QED BY <1>20, <2>1 DEF Copy, Answer, Go, ring, prod
<1>21. CASE EndRead BY <1>21 DEF EndRead, Answer, Go, prod, Slot
<1>22. CASE UNCHANGED vars BY <1>22 DEF vars, ring, prod, cons
<1>23. QED
  BY <1>1, <1>2, <1>3, <1>4, <1>5, <1>6, <1>7, <1>8, <1>9, <1>10, <1>11, <1>12,
     <1>13, <1>14, <1>15, <1>16, <1>17, <1>18, <1>19, <1>20, <1>21, <1>22
     DEF Next, Producer, Consumer, ConsumerStep, Stop

(* Every variable keeps its type and every index stays in the array, for   *)
(* any size.                                                               *)
THEOREM TypeCorrect == Spec => []TypeOK
<1>1. Init => TypeOK BY TypeInit
<1>2. TypeOK /\ [Next]_vars => TypeOK' BY TypeStep
<1>3. QED BY <1>1, <1>2, PTL DEF Spec



-----------------------------------------------------------------------------
(* IndexInv is inductive.                                                  *)

LEMMA IndexInit == Init => IndexInv
<1> SUFFICES ASSUME Init PROVE IndexInv
  OBVIOUS
<1>1. TypeOK
  BY TypeInit
<1>2. QED
  BY <1>1 DEF Init, IndexInv, RoomInv, LocationInv, SnapInv

(* The steps that leave head, tail, snap, ppc and the operation alone, and *)
(* move the consumer nowhere but back to the comparison in wait().         *)
LEMMA IndexQuiet ==
  ASSUME IndexInv, TypeOK',
         UNCHANGED <<head, tail, snap, op>>,
         ppc' \in {"fill", "publish"} => ppc \in {"fill", "publish"},
         stopped => stopped',
         cpc' = cpc \/ (cpc = "asleep" /\ cpc' = "wait")
  PROVE  IndexInv'
BY DEF IndexInv, RoomInv, LocationInv, SnapInv, Dist, empty

LEMMA IndexProducer ==
  ASSUME IndexInv, TypeOK', Producer
  PROVE  IndexInv'
<1> USE DEF IndexInv
<1>1. CASE BeginWriteFull
  BY <1>1, IndexQuiet DEF BeginWriteFull, ring, cons
<1>2. ASSUME NEW item \in Item, BeginWrite(item) PROVE IndexInv'
  <2> USE <1>2 DEF BeginWrite, ring, cons
  <2>1. RoomInv'
    BY AfterWraps, SizeAssumption DEF RoomInv, Dist, TypeOK, full, Slot
  <2>2. LocationInv'
    BY DEF LocationInv, empty
  <2>3. SnapInv'
    BY DEF SnapInv, Dist
  <2>4. QED
    BY <2>1, <2>2, <2>3
<1>3. CASE Fill
  BY <1>3, IndexQuiet DEF Fill, cons
<1>4. CASE Publish
  <2> USE <1>4 DEF Publish, cons
  <2>0. /\ head \in Slot /\ tail \in Slot /\ head' = head
        /\ Dist(head, tail) < Size - 1
        /\ tail' = IF tail = Size - 1 THEN 0 ELSE tail + 1
    BY AfterWraps DEF RoomInv, TypeOK
  <2>1. /\ tail' \in Slot /\ tail' # head
        /\ Dist(head, tail)' = Dist(head, tail) + 1
    BY <2>0, SizeAssumption DEF Dist, Slot
  <2>2. RoomInv'
    BY DEF RoomInv
  <2>3. LocationInv'
    BY <2>1 DEF LocationInv, empty
  <2>4. SnapInv'
    <3>1. /\ Dist(head, snap)' = Dist(head, snap)
          /\ UNCHANGED <<head, snap, cpc, op>>
      BY DEF Dist
    <3>2. Dist(head, snap) \in Int /\ Dist(head, tail) \in Int
      BY SizeAssumption DEF Dist, TypeOK, Slot
    <3>3. QED
      BY <2>1, <3>1, <3>2 DEF SnapInv
  <2>5. QED
    BY <2>2, <2>3, <2>4
<1>5. CASE WriteBump
  BY <1>5, IndexQuiet DEF WriteBump, cons
<1>6. CASE WriteNotify
  BY <1>6, IndexQuiet DEF WriteNotify, Notify, ring
<1>7. QED
  BY <1>1, <1>2, <1>3, <1>4, <1>5, <1>6 DEF Producer

LEMMA IndexStop ==
  ASSUME IndexInv, TypeOK', NEW s \in Stoppers, Stop(s)
  PROVE  IndexInv'
<1>1. CASE StopStore(s)
  BY <1>1, IndexQuiet DEF StopStore, prod, cons
<1>2. CASE StopBump(s)
  BY <1>2, IndexQuiet DEF StopBump, prod, cons
<1>3. CASE StopNotify(s)
  BY <1>3, IndexQuiet DEF StopNotify, Notify, ring, prod
<1>4. QED
  BY <1>1, <1>2, <1>3 DEF Stop

(* The consumer's steps that move no index.                                *)
LEMMA IndexLocation ==
  ASSUME IndexInv, TypeOK', UNCHANGED <<head, tail, stopped, ppc>>,
         \/ \E o \in CallableOps : Call(o)
         \/ LoadCounter \/ CheckStop \/ CheckEmpty \/ Wait \/ SpuriousWake
         \/ TestStop \/ TestEmpty \/ Copy
  PROVE  IndexInv'
<1> USE DEF IndexInv
<1>1. RoomInv'
  BY DEF RoomInv, Dist
<1> SUFFICES LocationInv' /\ SnapInv'
  BY <1>1
<1>2. ASSUME NEW o \in CallableOps, Call(o) PROVE LocationInv' /\ SnapInv'
  <2>1. /\ o.name \in {"read", "read_latest", "peek_front", "peek_back", "clear"}
        /\ o.blocking \in BOOLEAN
        /\ o.blocking => o.name \in {"read", "read_latest"}
    BY DEF CallableOps, Ops
  <2>2. QED
    BY <1>2, <2>1 DEF Call, Go, LocationInv, SnapInv
<1>3. CASE LoadCounter \/ CheckStop \/ CheckEmpty \/ Wait \/ SpuriousWake
  <2>1. op.name \in {"read", "read_latest"} \/ ~op.blocking
    BY DEF TypeOK, CallableOps
  <2>2. QED
    BY <1>3, <2>1 DEF LoadCounter, CheckStop, CheckEmpty, Wait, SpuriousWake,
       AfterBlock, Go, LocationInv, SnapInv, empty
<1>4. CASE TestStop
  BY <1>4 DEF TestStop, Answer, Go, LocationInv, SnapInv, empty
<1>5. CASE TestEmpty
  BY <1>5 DEF TestEmpty, Answer, Go, LocationInv, SnapInv, empty, TypeOK,
     CallableOps, Ops
<1>6. CASE Copy
  BY <1>6 DEF Copy, Answer, Go, Peeking, LocationInv, SnapInv, empty, TypeOK,
     CallableOps, Ops
<1>7. QED
  BY <1>2, <1>3, <1>4, <1>5, <1>6

LEMMA IndexSnap == ASSUME IndexInv, TypeOK', SnapTail PROVE IndexInv'
<1> USE DEF IndexInv, SnapTail, Go, ring, prod
<1>1. RoomInv'
  BY DEF RoomInv, Dist
<1>2. LocationInv'
  BY DEF LocationInv, empty
<1>3. SnapInv'
  <2>1. /\ UNCHANGED <<head, tail, op>> /\ snap' = tail
        /\ op.name # "clear" => head # tail
        /\ cpc' = IF op.name = "peek_back" THEN "copy" ELSE "skip"
    BY DEF LocationInv, empty
  <2>2. Dist(head, tail) \in Int
    BY SizeAssumption DEF Dist, TypeOK, Slot
  <2>3. Dist(head, snap)' = Dist(head, tail) /\ Dist(head, tail)' = Dist(head, tail)
    BY <2>1 DEF Dist
  <2>4. QED
    BY <2>1, <2>2, <2>3 DEF SnapInv
<1>4. QED
  BY <1>1, <1>2, <1>3

(* read_latest() and clear() move head no further than the loaded tail.    *)
LEMMA IndexSkip == ASSUME IndexInv, TypeOK', Skip PROVE IndexInv'
<1> USE DEF IndexInv
<1>1. /\ head \in Slot /\ tail \in Slot /\ snap \in Slot
      /\ Dist(head, snap) <= Dist(head, tail)
      /\ UNCHANGED <<tail, snap, ppc, op>>
  BY DEF Skip, Go, SnapInv, TypeOK, prod
<1>2. CASE op.name = "read_latest"
  <2>1. /\ head' = IF snap = 0 THEN Size - 1 ELSE snap - 1
        /\ snap # head
        /\ cpc' = "copy"
    BY <1>1, <1>2, BeforeWraps DEF Skip, Go, SnapInv
  <2>2. head' # tail /\ Dist(head, tail)' <= Dist(head, tail)
    BY <1>1, <2>1, SizeAssumption DEF Dist, Slot
  <2>3. Dist(head, tail)' \in Int /\ Dist(head, tail) \in Int
    BY <1>1, <2>1, SizeAssumption DEF Dist, Slot
  <2>4. RoomInv'
    BY <1>1, <2>2, <2>3, SizeAssumption DEF RoomInv
  <2>5. LocationInv' /\ SnapInv'
    BY <1>1, <1>2, <2>1, <2>2 DEF LocationInv, SnapInv, empty
  <2>6. QED
    BY <2>4, <2>5
<1>3. CASE op.name = "clear"
  <2>1. head' = snap /\ cpc' = "idle"
    BY <1>3 DEF Skip, Go
  <2>2. Dist(head, tail)' <= Dist(head, tail)
    BY <1>1, <2>1, SizeAssumption DEF Dist, Slot
  <2>3. Dist(head, tail)' \in Int /\ Dist(head, tail) \in Int
    BY <1>1, <2>1, SizeAssumption DEF Dist, Slot
  <2>4. RoomInv'
    BY <1>1, <2>2, <2>3, SizeAssumption DEF RoomInv
  <2>5. LocationInv' /\ SnapInv'
    BY <2>1 DEF LocationInv, SnapInv
  <2>6. QED
    BY <2>4, <2>5
<1>4. QED
  BY <1>2, <1>3 DEF Skip

LEMMA IndexEndRead == ASSUME IndexInv, TypeOK', EndRead PROVE IndexInv'
<1> USE DEF IndexInv
<1>1. /\ head \in Slot /\ tail \in Slot /\ head # tail
      /\ head' = IF head = Size - 1 THEN 0 ELSE head + 1
      /\ cpc' = "idle"
      /\ UNCHANGED <<tail, ppc>>
  BY AfterWraps DEF EndRead, Answer, Go, LocationInv, empty, TypeOK, prod
<1>2. /\ Dist(head, tail)' = Dist(head, tail) - 1
      /\ Dist(head, tail) \in Int
  BY <1>1, SizeAssumption DEF Dist, Slot
<1>3. RoomInv'
  BY <1>1, <1>2, SizeAssumption DEF RoomInv
<1>4. LocationInv' /\ SnapInv'
  BY <1>1 DEF LocationInv, SnapInv
<1>5. QED
  BY <1>3, <1>4

LEMMA IndexStep == IndexInv /\ [Next]_vars => IndexInv'
<1> SUFFICES ASSUME IndexInv, [Next]_vars PROVE IndexInv'
  OBVIOUS
<1>1. TypeOK'
  BY TypeStep DEF IndexInv
<1>2. CASE Producer
  BY <1>1, <1>2, IndexProducer
<1>3. ASSUME NEW s \in Stoppers, Stop(s) PROVE IndexInv'
  BY <1>1, <1>3, IndexStop
<1>4. ASSUME NEW o \in CallableOps, Call(o) PROVE IndexInv'
  BY <1>1, <1>4, IndexLocation DEF Call, ring, prod
<1>5. CASE \/ LoadCounter \/ CheckStop \/ CheckEmpty \/ Wait \/ SpuriousWake
           \/ TestStop \/ TestEmpty \/ Copy
  <2>1. UNCHANGED <<head, tail, stopped, ppc>>
    BY <1>5 DEF LoadCounter, CheckStop, CheckEmpty, Wait, SpuriousWake,
       TestStop, TestEmpty, Copy, ring, prod
  <2>2. QED
    BY <1>1, <1>5, <2>1, IndexLocation
<1>6. CASE SnapTail BY <1>1, <1>6, IndexSnap
<1>7. CASE Skip BY <1>1, <1>7, IndexSkip
<1>8. CASE EndRead BY <1>1, <1>8, IndexEndRead
<1>9. CASE UNCHANGED vars
  BY <1>1, <1>9, IndexQuiet DEF vars, ring, prod, cons
<1>10. QED
  BY <1>2, <1>3, <1>4, <1>5, <1>6, <1>7, <1>8, <1>9
     DEF Next, Consumer, ConsumerStep

LEMMA IndexAlways == Spec => []IndexInv
<1>1. Init => IndexInv BY IndexInit
<1>2. IndexInv /\ [Next]_vars => IndexInv' BY IndexStep
<1>3. QED BY <1>1, <1>2, PTL DEF Spec

(* A buffer of any size never lets the producer and the consumer touch the *)
(* same slot at the same time.                                             *)
THEOREM SlotsAreExclusive == Spec => []SlotExclusive
<1>1. IndexInv => SlotExclusive
  <2> SUFFICES ASSUME IndexInv, cpc \in {"copy", "advance"} PROVE rslot # tail
    BY DEF SlotExclusive
  <2>1. CASE op.name = "peek_back"
    <3>1. /\ cpc = "copy" /\ head \in Slot /\ tail \in Slot /\ snap \in Slot
          /\ snap # head /\ Dist(head, snap) <= Dist(head, tail)
      BY <2>1 DEF IndexInv, LocationInv, SnapInv, TypeOK
    <3>2. rslot = IF snap = 0 THEN Size - 1 ELSE snap - 1
      BY <2>1, <3>1, BeforeWraps DEF rslot
    <3>3. QED
      BY <3>1, <3>2, SizeAssumption DEF Dist, Slot
  <2>2. CASE op.name # "peek_back"
    BY <2>2 DEF IndexInv, LocationInv, rslot, empty
  <2>3. QED
    BY <2>1, <2>2
<1>2. QED BY <1>1, IndexAlways, PTL

(* No CHECK of the producer's or the consumer's path can fail.             *)
THEOREM ChecksAlwaysHold == Spec => []ChecksHold
<1>1. IndexInv => ChecksHold
  <2> SUFFICES ASSUME IndexInv PROVE ChecksHold
    OBVIOUS
  <2>1. ppc = "publish" => ~full
    BY AfterWraps, SizeAssumption DEF IndexInv, RoomInv, Dist, TypeOK, full, Slot
  <2>2. op.blocking /\ cpc \in {"stop?", "empty?"} => stopped \/ ~empty
    BY DEF IndexInv, LocationInv
  <2>3. cpc = "advance" => ~empty
    BY DEF IndexInv, LocationInv
  <2>4. QED
    BY <2>1, <2>2, <2>3 DEF ChecksHold
<1>2. QED BY <1>1, IndexAlways, PTL

-----------------------------------------------------------------------------
(* The wake-up: as long as update_counter still has the value the consumer *)
(* loaded, whoever made the buffer readable, or stopped it, after the      *)
(* consumer looked has not bumped the counter yet; once the counter has    *)
(* moved under a sleeping consumer, whoever moved it has yet to notify.    *)
WakeInv ==
  /\ cpc \in {"chk_stop", "chk_empty", "wait", "asleep"} => old <= update_counter
  /\ cpc \in {"chk_empty", "wait", "asleep"} /\ stopped /\ old = update_counter =>
       \E s \in Stoppers : spc[s] = "bump"
  /\ cpc \in {"wait", "asleep"} /\ ~empty /\ old = update_counter => ppc = "bump"
  /\ cpc = "asleep" /\ old # update_counter =>
       ppc = "notify" \/ \E s \in Stoppers : spc[s] = "notify"

LEMMA WakeStep == IndexInv /\ WakeInv /\ [Next]_vars => WakeInv'
<1> SUFFICES ASSUME IndexInv, WakeInv, [Next]_vars PROVE WakeInv'
  OBVIOUS
<1> USE DEF WakeInv, empty
<1>0. /\ update_counter \in Nat /\ old \in Nat /\ stopped \in BOOLEAN
      /\ spc \in [Stoppers -> {"idle", "bump", "notify", "done"}]
  BY DEF IndexInv, TypeOK
<1> USE <1>0
<1>1. CASE BeginWriteFull \/ \E item \in Item : BeginWrite(item)
  BY <1>1 DEF BeginWriteFull, BeginWrite, ring, cons
<1>2. CASE Fill \/ Publish
  BY <1>2 DEF Fill, Publish, cons
<1>3. CASE WriteBump
  BY <1>3 DEF WriteBump, cons
<1>4. CASE WriteNotify
  BY <1>4 DEF WriteNotify, Notify, ring
<1>5. ASSUME NEW s \in Stoppers, StopStore(s) PROVE WakeInv'
  <2>1. spc'[s] = "bump" /\ \A r \in Stoppers \ {s} : spc'[r] = spc[r]
    BY <1>5 DEF StopStore
  <2>2. UNCHANGED <<head, tail, update_counter, old, cpc, ppc>> /\ spc[s] = "idle"
    BY <1>5 DEF StopStore, prod, cons
  <2>3. QED
    BY <2>1, <2>2
<1>6. ASSUME NEW s \in Stoppers, StopBump(s) PROVE WakeInv'
  <2>1. spc'[s] = "notify"
    BY <1>6 DEF StopBump
  <2>2. /\ UNCHANGED <<head, tail, stopped, old, cpc, ppc>>
        /\ update_counter' = update_counter + 1
    BY <1>6 DEF StopBump, prod, cons
  <2>3. QED
    BY <2>1, <2>2
<1>7. ASSUME NEW s \in Stoppers, StopNotify(s) PROVE WakeInv'
  <2>1. spc[s] = "notify" /\ \A r \in Stoppers \ {s} : spc'[r] = spc[r]
    BY <1>7 DEF StopNotify
  <2>2. UNCHANGED <<head, tail, stopped, update_counter, old, ppc>>
    BY <1>7 DEF StopNotify, ring, prod
  <2>3. cpc' = IF cpc = "asleep" THEN "wait" ELSE cpc
    BY <1>7 DEF StopNotify, Notify
  <2>4. QED
    BY <2>1, <2>2, <2>3
<1>8. CASE \/ (\E o \in CallableOps : Call(o)) \/ TestStop \/ TestEmpty
           \/ SnapTail \/ Skip \/ Copy \/ EndRead
  <2>1. cpc' \notin {"chk_stop", "chk_empty", "wait", "asleep"}
    BY <1>8 DEF Call, TestStop, TestEmpty, SnapTail, Skip, Copy, EndRead,
       Answer, Go
  <2>2. QED
    BY <2>1
<1>9. CASE LoadCounter
  BY <1>9 DEF LoadCounter, Go, ring, prod
<1>10. CASE CheckStop
  BY <1>10 DEF CheckStop, AfterBlock, Go, ring, prod
<1>11. CASE CheckEmpty
  BY <1>11 DEF CheckEmpty, AfterBlock, Go, ring, prod
<1>12. CASE Wait
  BY <1>12 DEF Wait, Go, ring, prod
<1>13. CASE SpuriousWake
  BY <1>13 DEF SpuriousWake, Go, ring, prod
<1>14. CASE UNCHANGED vars
  BY <1>14 DEF vars, ring, prod, cons
<1>15. QED
  BY <1>1, <1>2, <1>3, <1>4, <1>5, <1>6, <1>7, <1>8, <1>9, <1>10, <1>11, <1>12,
     <1>13, <1>14 DEF Next, Producer, Consumer, ConsumerStep, Stop

(* A consumer asleep beside something to read, or in a stopped buffer, has *)
(* a notification coming, however many threads stop the buffer.            *)
THEOREM WakeupIsNeverLost == Spec => []NoLostWakeup
<1>1. Init => WakeInv
  BY DEF Init, WakeInv
<1>2. IndexInv /\ WakeInv /\ [Next]_vars => WakeInv'
  BY WakeStep
<1>3. WakeInv => NoLostWakeup
  BY DEF WakeInv, NoLostWakeup
<1>4. QED
  BY <1>1, <1>2, <1>3, IndexAlways, PTL DEF Spec

-----------------------------------------------------------------------------
(* A late read is still in front of its stop test, or it has failed.       *)
LateInv ==
  /\ late => stopped
  /\ late /\ op.name = "read" =>
       cpc \in {"idle", "load", "chk_stop", "chk_empty", "wait", "asleep", "stop?"}
  /\ late /\ op.name = "read_latest" =>
       cpc \in {"idle", "load", "chk_stop", "chk_empty", "wait", "asleep", "empty?",
               "stop?"}

LEMMA LateStep == TypeOK /\ LateInv /\ [Next]_vars => LateInv'
<1> SUFFICES ASSUME TypeOK, LateInv, [Next]_vars PROVE LateInv'
  OBVIOUS
<1> USE DEF LateInv
<1>0. late \in BOOLEAN /\ stopped \in BOOLEAN
  BY DEF TypeOK
<1> USE <1>0
<1>1. CASE BeginWriteFull \/ (\E item \in Item : BeginWrite(item)) \/ Fill
           \/ Publish \/ WriteBump
  BY <1>1 DEF BeginWriteFull, BeginWrite, Fill, Publish, WriteBump, ring, cons
<1>2. CASE WriteNotify
  BY <1>2 DEF WriteNotify, Notify, ring
<1>3. ASSUME NEW s \in Stoppers, StopStore(s) PROVE LateInv'
  BY <1>3 DEF StopStore, BeforeStopTest, prod, cons
<1>4. ASSUME NEW s \in Stoppers, StopBump(s) PROVE LateInv'
  BY <1>4 DEF StopBump, prod, cons
<1>5. ASSUME NEW s \in Stoppers, StopNotify(s) PROVE LateInv'
  BY <1>5 DEF StopNotify, Notify, ring, prod
<1>6. ASSUME NEW o \in CallableOps, Call(o) PROVE LateInv'
  BY <1>6 DEF Call, Go, ring, prod
<1>7. CASE LoadCounter \/ CheckStop \/ CheckEmpty \/ Wait \/ SpuriousWake
  BY <1>7 DEF LoadCounter, CheckStop, CheckEmpty, Wait, SpuriousWake,
     AfterBlock, Go, ring, prod
<1>8. CASE TestStop \/ TestEmpty
  BY <1>8 DEF TestStop, TestEmpty, Answer, Go, ring, prod
<1>9. CASE SnapTail \/ Skip \/ Copy \/ EndRead
  BY <1>9 DEF SnapTail, Skip, Copy, EndRead, Answer, Go, ring, prod
<1>10. CASE UNCHANGED vars
  BY <1>10 DEF vars, ring, prod, cons
<1>11. QED
  BY <1>1, <1>2, <1>3, <1>4, <1>5, <1>6, <1>7, <1>8, <1>9, <1>10
     DEF Next, Producer, Consumer, ConsumerStep, Stop

(* A read that blocks when stop() is called, or begins after it, returns   *)
(* nothing.                                                                *)
THEOREM StopIsFinal == Spec => []StoppedReadsFail
<1>1. Init => LateInv
  BY DEF Init, LateInv
<1>2. TypeOK /\ LateInv /\ [Next]_vars => LateInv'
  BY LateStep
<1>3. LateInv => StoppedReadsFail
  BY DEF LateInv, StoppedReadsFail
<1>4. QED
  BY <1>1, <1>2, <1>3, TypeCorrect, PTL DEF Spec

-----------------------------------------------------------------------------
(* The refinement.  The item of a write in progress, and of a read in      *)
(* progress, are where the producer and the consumer left them.            *)
ItemInv ==
  /\ ppc \in {"fill", "publish"} => in \in Item
  /\ ppc = "publish" => data[tail] = in
  /\ cpc = "advance" => out = data[head]

LEMMA ItemStep == IndexInv /\ ItemInv /\ [Next]_vars => ItemInv'
<1> SUFFICES ASSUME IndexInv, ItemInv, [Next]_vars PROVE ItemInv'
  OBVIOUS
<1> USE DEF ItemInv
<1>0. /\ data \in [Slot -> Item \cup {NoItem}] /\ head \in Slot /\ tail \in Slot
      /\ cpc = "advance" => head # tail
      /\ cpc = "advance" => op.name \in {"read", "read_latest"}
  BY DEF IndexInv, TypeOK, LocationInv, empty
<1> USE <1>0
<1>1. CASE BeginWriteFull \/ (\E item \in Item : BeginWrite(item)) \/ WriteBump
  BY <1>1 DEF BeginWriteFull, BeginWrite, WriteBump, ring, cons
<1>2. CASE Fill
  BY <1>2 DEF Fill, cons
<1>3. CASE Publish
  BY <1>3 DEF Publish, cons
<1>4. CASE WriteNotify
  BY <1>4 DEF WriteNotify, Notify, ring
<1>5. ASSUME NEW s \in Stoppers, Stop(s) PROVE ItemInv'
  BY <1>5 DEF Stop, StopStore, StopBump, StopNotify, Notify, ring, prod, cons
<1>6. CASE \/ (\E o \in CallableOps : Call(o))
           \/ LoadCounter \/ CheckStop \/ CheckEmpty \/ Wait \/ SpuriousWake
  BY <1>6 DEF Call, LoadCounter, CheckStop, CheckEmpty, Wait, SpuriousWake,
     AfterBlock, Go, ring, prod
<1>7. CASE TestStop \/ TestEmpty \/ SnapTail
  BY <1>7 DEF TestStop, TestEmpty, SnapTail, Answer, Go, ring, prod
<1>8. CASE Copy
  BY <1>8 DEF Copy, Peeking, rslot, Answer, Go, ring, prod
<1>9. CASE Skip \/ EndRead
  BY <1>9 DEF Skip, EndRead, Answer, Go, prod
<1>10. CASE UNCHANGED vars
  BY <1>10 DEF vars, ring, prod, cons
<1>11. QED
  BY <1>1, <1>2, <1>3, <1>4, <1>5, <1>6, <1>7, <1>8, <1>9, <1>10
     DEF Next, Producer, Consumer, ConsumerStep

(* The slot that holds the i-th item of a queue whose first is in slot h,  *)
(* and the queue between two slots of an array d.                          *)
Nth(h, i) == (h + i - 1) % Size
QueueOf(d, h, t) == [i \in 1..Dist(h, t) |-> d[Nth(h, i)]]

LEMMA NthWraps ==
  \A h \in Slot, i \in 1..Size :
    /\ Nth(h, i) = IF h + i - 1 < Size THEN h + i - 1 ELSE h + i - 1 - Size
    /\ Nth(h, i) \in Slot
BY SizeAssumption DEF Slot, Nth

LEMMA DistRange == \A i, j \in Slot : Dist(i, j) \in 0..(Size - 1)
BY SizeAssumption DEF Slot, Dist

(* A queue has as many items as there are slots from its head to its tail. *)
IsQueue(q, V, d, h, t) ==
  /\ q \in Seq(V)
  /\ Len(q) = Dist(h, t)
  /\ \A i \in 1..Dist(h, t) : q[i] = d[Nth(h, i)]

LEMMA QueueLen ==
  ASSUME NEW V, NEW d \in [Slot -> V], NEW h \in Slot, NEW t \in Slot
  PROVE  IsQueue(QueueOf(d, h, t), V, d, h, t)
<1>1. Dist(h, t) \in 0..(Size - 1) /\ Dist(h, t) \in Nat
  BY DistRange, SizeAssumption
<1>2. \A i \in 1..Dist(h, t) : Nth(h, i) \in Slot
  BY <1>1, NthWraps, SizeAssumption
<1>3. \A i \in 1..Dist(h, t) : d[Nth(h, i)] \in V
  BY <1>2
<1>4. QED
  BY <1>1, <1>3 DEF QueueOf, IsQueue

(* Storing at the tail does not touch what is queued before it.            *)
LEMMA QueueStore ==
  ASSUME NEW V, NEW d \in [Slot -> V], NEW h \in Slot, NEW t \in Slot, NEW x
  PROVE  QueueOf([d EXCEPT ![t] = x], h, t) = QueueOf(d, h, t)
<1>1. ASSUME NEW i \in 1..Dist(h, t) PROVE Nth(h, i) # t /\ Nth(h, i) \in Slot
  <2>1. Dist(h, t) \in 0..(Size - 1) /\ i \in 1..Size
    BY DistRange, SizeAssumption
  <2>2. QED
    BY <2>1, NthWraps, SizeAssumption DEF Dist, Slot
<1>2. \A i \in 1..Dist(h, t) : [d EXCEPT ![t] = x][Nth(h, i)] = d[Nth(h, i)]
  BY <1>1
<1>3. QED
  BY <1>2 DEF QueueOf

(* Advancing the tail appends the item that lies there.                    *)
LEMMA QueueAppend ==
  ASSUME NEW V, NEW d \in [Slot -> V], NEW h \in Slot, NEW t \in Slot,
         Dist(h, t) < Size - 1
  PROVE  QueueOf(d, h, After(t)) = Append(QueueOf(d, h, t), d[t])
<1> DEFINE q == QueueOf(d, h, t)
           r == QueueOf(d, h, After(t))
<1>1. After(t) \in Slot /\ Dist(h, After(t)) = Dist(h, t) + 1
  <2>1. After(t) = IF t = Size - 1 THEN 0 ELSE t + 1
    BY AfterWraps
  <2>2. QED
    BY <2>1, SizeAssumption DEF Dist, Slot
<1>2. /\ r \in Seq(V) /\ Len(r) = Dist(h, t) + 1
      /\ \A i \in 1..Len(r) : r[i] = d[Nth(h, i)]
  <2>1. IsQueue(r, V, d, h, After(t))
    BY <1>1, QueueLen
  <2>2. QED
    BY <2>1, <1>1 DEF IsQueue
<1>3. /\ q \in Seq(V) /\ Len(q) = Dist(h, t)
      /\ \A i \in 1..Len(q) : q[i] = d[Nth(h, i)]
  <2>1. IsQueue(q, V, d, h, t)
    BY QueueLen
  <2>2. QED
    BY <2>1 DEF IsQueue
<1>4. Nth(h, Dist(h, t) + 1) = t
  BY DistRange, NthWraps, SizeAssumption DEF Dist, Slot
<1>5. /\ Append(q, d[t]) \in Seq(V)
      /\ Len(Append(q, d[t])) = Len(q) + 1
      /\ \A i \in 1..Len(q) : Append(q, d[t])[i] = q[i]
      /\ Append(q, d[t])[Len(q) + 1] = d[t]
  BY <1>3, AppendProperties
<1>6. ASSUME NEW i \in 1..Len(r) PROVE r[i] = Append(q, d[t])[i]
  <2>1. Len(q) \in Nat /\ (i \in 1..Len(q) \/ i = Len(q) + 1)
    BY <1>2, <1>3, DistRange, SizeAssumption
  <2>2. QED
    BY <1>2, <1>3, <1>4, <1>5, <2>1
<1> HIDE DEF q, r
<1>7. r = Append(q, d[t])
  BY <1>2, <1>3, <1>5, <1>6, SeqEqual
<1>8. QED
  BY <1>7 DEF q, r

(* Moving the head forward, no further than the tail, drops the oldest.    *)
Dropped(q, n) == SubSeq(q, n + 1, Len(q))

LEMMA QueueDrop ==
  ASSUME NEW V, NEW d \in [Slot -> V], NEW h \in Slot, NEW t \in Slot,
         NEW g \in Slot, Dist(h, g) <= Dist(h, t)
  PROVE  QueueOf(d, g, t) = Dropped(QueueOf(d, h, t), Dist(h, g))
<1> DEFINE q == QueueOf(d, h, t)
           r == QueueOf(d, g, t)
           n == Dist(h, g)
<1>1. /\ n \in 0..(Size - 1) /\ Dist(h, t) \in 0..(Size - 1)
      /\ Dist(g, t) = Dist(h, t) - n
  BY DistRange, SizeAssumption DEF Dist, Slot
<1>2. /\ r \in Seq(V) /\ Len(r) = Dist(h, t) - n
      /\ \A i \in 1..Len(r) : r[i] = d[Nth(g, i)]
  <2>1. IsQueue(r, V, d, g, t)
    BY QueueLen
  <2>2. QED
    BY <2>1, <1>1 DEF IsQueue
<1>3. /\ q \in Seq(V) /\ Len(q) = Dist(h, t)
      /\ \A i \in 1..Len(q) : q[i] = d[Nth(h, i)]
  <2>1. IsQueue(q, V, d, h, t)
    BY QueueLen
  <2>2. QED
    BY <2>1 DEF IsQueue
<1>4. ASSUME NEW i \in 1..Len(r) PROVE Nth(g, i) = Nth(h, n + i)
  <2>1. i \in 1..Size /\ n + i \in 1..Size /\ i <= Dist(g, t)
    BY <1>1, <1>2, SizeAssumption
  <2>2. /\ Nth(g, i) = IF g + i - 1 < Size THEN g + i - 1 ELSE g + i - 1 - Size
        /\ Nth(h, n + i) = IF h + (n + i) - 1 < Size THEN h + (n + i) - 1
                           ELSE h + (n + i) - 1 - Size
    BY <2>1, NthWraps
  <2>3. QED
    BY <2>1, <2>2, SizeAssumption DEF Dist, Slot
<1> DEFINE s == SubSeq(q, n + 1, Len(q))
<1>5. /\ s \in Seq(V) /\ Len(s) = Len(r)
      /\ \A i \in 1..Len(r) : s[i] = q[n + i]
  <2>1. \A i \in (n + 1)..Len(q) : q[i] \in V
    BY <1>1, <1>3, ElementOfSeq, SizeAssumption
  <2>2. /\ s \in Seq(V)
        /\ Len(s) = IF n + 1 <= Len(q) THEN Len(q) - (n + 1) + 1 ELSE 0
        /\ \A i \in 1..(Len(q) - (n + 1) + 1) : s[i] = q[(n + 1) + i - 1]
    <3> HIDE DEF q
    <3>1. n + 1 \in Int /\ Len(q) \in Int
      BY <1>1, <1>3
    <3>2. QED
      BY <3>1, <2>1, SubSeqProperties
  <2>3. Len(s) = Len(r)
    BY <1>1, <1>2, <1>3, <2>2
  <2>4. ASSUME NEW i \in 1..Len(r) PROVE s[i] = q[n + i]
    <3>1. i \in 1..(Len(q) - (n + 1) + 1) /\ (n + 1) + i - 1 = n + i
      BY <1>1, <1>2, <1>3
    <3>2. QED
      BY <2>2, <3>1
  <2>5. QED
    BY <2>2, <2>3, <2>4
<1>6. ASSUME NEW i \in 1..Len(r) PROVE r[i] = s[i]
  <2>1. n + i \in 1..Len(q)
    BY <1>1, <1>2, <1>3
  <2>2. QED
    BY <1>2, <1>3, <1>4, <1>5, <2>1
<1> HIDE DEF r, s
<1>7. r = s
  BY <1>2, <1>5, <1>6, SeqEqual
<1>8. QED
  BY <1>7 DEF r, s, Dropped

(* The same of the buffer's own array.                                     *)
LEMMA DataDrop ==
  ASSUME NEW d \in [Slot -> Item \cup {NoItem}], NEW h \in Slot, NEW t \in Slot
  PROVE  \A g \in Slot : Dist(h, g) <= Dist(h, t) =>
           QueueOf(d, g, t) = Dropped(QueueOf(d, h, t), Dist(h, g))
<1> DEFINE V == Item \cup {NoItem}
<1>1. d \in [Slot -> V]
  OBVIOUS
<1> HIDE DEF V
<1>2. ASSUME NEW g \in Slot, Dist(h, g) <= Dist(h, t)
      PROVE  QueueOf(d, g, t) = Dropped(QueueOf(d, h, t), Dist(h, g))
  BY <1>1, <1>2, QueueDrop
<1>3. QED
  BY <1>2

-----------------------------------------------------------------------------
(* Every step of the buffer is a step of the queue or leaves it alone.     *)

LEMMA ContentsIsQueue ==
  /\ TypeOK => contents = QueueOf(data, head, tail)
  /\ TypeOK' => contents' = QueueOf(data', head', tail')
<1>1. ASSUME NEW h \in Slot, NEW t \in Slot
      PROVE  (IF t - h < 0 THEN t - h + Size ELSE t - h) = Dist(h, t)
  BY SizeAssumption DEF Dist, Slot
<1>2. QED
  BY <1>1 DEF contents, num_slots_filled, QueueOf, Nth, TypeOK

LEMMA ContentsLen ==
  ASSUME TypeOK
  PROVE  /\ contents \in Seq(Item \cup {NoItem})
         /\ Len(contents) = Dist(head, tail)
         /\ \A i \in 1..Dist(head, tail) : contents[i] = data[Nth(head, i)]
  <1>1. /\ data \in [Slot -> Item \cup {NoItem}] /\ head \in Slot /\ tail \in Slot
        /\ contents = QueueOf(data, head, tail)
    BY ContentsIsQueue DEF TypeOK
  <1>2. IsQueue(contents, Item \cup {NoItem}, data, head, tail)
    BY <1>1, QueueLen
  <1>3. QED
    BY <1>2 DEF IsQueue

LEMMA FifoInit == Init => Fifo!Init
<1> SUFFICES ASSUME Init PROVE Fifo!Init
  OBVIOUS
<1>1. num_slots_filled = 0
  BY DEF Init, num_slots_filled
<1>2. contents = <<>>
  BY <1>1 DEF contents
<1>3. QED
  BY <1>2 DEF Init, Fifo!Init

LEMMA FifoQuiet ==
  ASSUME UNCHANGED <<data, head, tail, stopped, wrote, ret>>
  PROVE  UNCHANGED Fifo!vars
BY DEF contents, num_slots_filled, Fifo!vars

LEMMA FifoProducer ==
  ASSUME IndexInv, TypeOK', ItemInv, Producer
  PROVE  [Fifo!Next]_(Fifo!vars)
<1>0. /\ TypeOK /\ data \in [Slot -> Item \cup {NoItem}]
      /\ head \in Slot /\ tail \in Slot
      /\ contents = QueueOf(data, head, tail)
      /\ contents' = QueueOf(data', head', tail')
  BY ContentsIsQueue DEF IndexInv, TypeOK
<1>1. CASE BeginWriteFull
  <2>1. Dist(head, tail) = Size - 1
    <3>1. head = IF tail = Size - 1 THEN 0 ELSE tail + 1
      BY <1>0, <1>1, AfterWraps DEF BeginWriteFull, full
    <3>2. QED
      BY <1>0, <3>1, SizeAssumption DEF Dist, Slot
  <2>2. UNCHANGED <<contents, stopped, ret>> /\ wrote' = "refused"
    BY <1>0, <1>1 DEF BeginWriteFull, ring, cons
  <2>3. Fifo!Refuse
    BY <1>0, <2>1, <2>2, ContentsLen DEF Fifo!Refuse
  <2>4. QED
    BY <2>3 DEF Fifo!Next
<1>2. CASE (\E item \in Item : BeginWrite(item)) \/ WriteBump \/ WriteNotify
  BY <1>2, FifoQuiet DEF BeginWrite, WriteBump, WriteNotify, ring, cons
<1>3. CASE Fill
  <2>1. /\ data' = [data EXCEPT ![tail] = in]
        /\ UNCHANGED <<head, tail, stopped, wrote, ret>>
    BY <1>3 DEF Fill, cons
  <2>2. UNCHANGED contents
    BY <1>0, <2>1, QueueStore
  <2>3. QED
    BY <2>1, <2>2 DEF Fifo!vars
<1>4. CASE Publish
  <2>1. /\ Dist(head, tail) < Size - 1 /\ in \in Item /\ data[tail] = in
        /\ tail' = After(tail) /\ wrote' = "accepted"
        /\ UNCHANGED <<data, head, stopped, ret>>
    BY <1>4 DEF Publish, IndexInv, RoomInv, ItemInv, cons
  <2>2. contents' = Append(contents, in)
    BY <1>0, <2>1, QueueAppend
  <2>3. Fifo!Accept(in)
    BY <1>0, <2>1, <2>2, ContentsLen DEF Fifo!Accept
  <2>4. QED
    BY <2>1, <2>3 DEF Fifo!Next
<1>5. QED
  BY <1>1, <1>2, <1>3, <1>4 DEF Producer

LEMMA FifoStop ==
  ASSUME IndexInv, TypeOK', NEW s \in Stoppers, Stop(s)
  PROVE  [Fifo!Next]_(Fifo!vars)
<1>1. CASE StopStore(s)
  <2>1. /\ stopped' = TRUE
        /\ UNCHANGED <<contents, wrote, ret>>
    BY <1>1 DEF StopStore, contents, num_slots_filled, prod, cons
  <2>2. Fifo!Close
    BY <2>1 DEF Fifo!Close
  <2>3. QED
    BY <2>2 DEF Fifo!Next
<1>2. CASE StopBump(s) \/ StopNotify(s)
  BY <1>2, FifoQuiet DEF StopBump, StopNotify, ring, prod, cons
<1>3. QED
  BY <1>1, <1>2 DEF Stop

(* end_read() takes the oldest item off the queue and returns it.          *)
LEMMA FifoTake ==
  ASSUME IndexInv, TypeOK', ItemInv, EndRead
  PROVE  Fifo!Take
<1>1. /\ TypeOK /\ data \in [Slot -> Item \cup {NoItem}]
      /\ head \in Slot /\ tail \in Slot /\ head # tail
      /\ head' \in Slot
      /\ head' = IF head = Size - 1 THEN 0 ELSE head + 1
      /\ ret' = data[head]
      /\ UNCHANGED <<data, tail, stopped, wrote>>
  BY AfterWraps DEF EndRead, Answer, Go, IndexInv, LocationInv, ItemInv, empty,
     TypeOK, prod
<1>2. Dist(head, head') = 1 /\ Dist(head, tail) \in 1..(Size - 1)
  BY <1>1, SizeAssumption DEF Dist, Slot
<1>3. /\ contents = QueueOf(data, head, tail)
      /\ contents' = QueueOf(data, head', tail)
  BY <1>1, ContentsIsQueue
<1>4. Dist(head, head') <= Dist(head, tail)
  BY <1>2, SizeAssumption
<1>5. contents' = SubSeq(contents, 2, Len(contents))
  <2>1. \A g \in Slot : Dist(head, g) <= Dist(head, tail) =>
          QueueOf(data, g, tail) = Dropped(QueueOf(data, head, tail), Dist(head, g))
    BY <1>1, DataDrop
  <2>2. contents' = Dropped(contents, Dist(head, head'))
    BY <2>1, <1>1, <1>3, <1>4
  <2>3. QED
    BY <2>2, <1>2 DEF Dropped
<1>6. /\ contents \in Seq(Item \cup {NoItem}) /\ Len(contents) = Dist(head, tail)
      /\ \A i \in 1..Dist(head, tail) : contents[i] = data[Nth(head, i)]
  BY <1>1, ContentsLen
<1>7. contents # <<>>
  BY <1>2, <1>6, SizeAssumption
<1>8. contents' = Tail(contents)
  BY <1>5, <1>6, <1>7, TailIsSubSeq
<1>9. Head(contents) = data[head]
  <2>1. Nth(head, 1) = head
    BY <1>1, NthWraps, SizeAssumption DEF Slot
  <2>2. contents[1] = data[head]
    BY <1>2, <1>6, <2>1, SizeAssumption
  <2>3. QED
    BY <1>6, <1>7, <2>2
<1>10. QED
  BY <1>1, <1>7, <1>8, <1>9 DEF Fifo!Take

(* read_latest() and clear() give up oldest items.                         *)
LEMMA FifoSkip ==
  ASSUME IndexInv, TypeOK', Skip
  PROVE  Fifo!Drop
<1>1. /\ TypeOK /\ data \in [Slot -> Item \cup {NoItem}]
      /\ head \in Slot /\ tail \in Slot /\ snap \in Slot /\ head' \in Slot
      /\ Dist(head, snap) <= Dist(head, tail)
      /\ op.name = "read_latest" => snap # head
      /\ UNCHANGED <<data, tail, stopped, wrote, ret>>
  BY DEF Skip, Go, IndexInv, SnapInv, TypeOK, prod
<1>2. \/ head' = snap
      \/ snap # head /\ head' = IF snap = 0 THEN Size - 1 ELSE snap - 1
  BY <1>1, BeforeWraps DEF Skip
<1>3. Dist(head, head') <= Dist(head, tail)
  <2>1. CASE head' = snap
    BY <1>1, <2>1
  <2>2. CASE snap # head /\ head' = IF snap = 0 THEN Size - 1 ELSE snap - 1
    <3>1. Dist(head, head') = Dist(head, snap) - 1
      BY <1>1, <2>2, SizeAssumption DEF Dist, Slot
    <3>2. Dist(head, snap) \in Int /\ Dist(head, tail) \in Int
      BY <1>1, DistRange, SizeAssumption
    <3>3. QED
      BY <1>1, <3>1, <3>2
  <2>3. QED
    BY <1>2, <2>1, <2>2
<1>4. contents' = SubSeq(contents, Dist(head, head') + 1, Len(contents))
  <2>1. /\ contents = QueueOf(data, head, tail)
        /\ contents' = QueueOf(data, head', tail)
    BY <1>1, ContentsIsQueue
  <2>2. \A g \in Slot : Dist(head, g) <= Dist(head, tail) =>
          QueueOf(data, g, tail) = Dropped(QueueOf(data, head, tail), Dist(head, g))
    BY <1>1, DataDrop
  <2>3. contents' = Dropped(contents, Dist(head, head'))
    BY <2>1, <2>2, <1>1, <1>3
  <2>4. QED
    BY <2>3 DEF Dropped
<1>5. Len(contents) = Dist(head, tail)
  BY <1>1, ContentsLen
<1>6. Dist(head, head') \in 0..Len(contents)
  BY <1>1, <1>3, <1>5, DistRange, SizeAssumption
<1>7. QED
  BY <1>1, <1>4, <1>6 DEF Fifo!Drop

(* A peek returns one of the queued items.                                 *)
LEMMA FifoPeek ==
  ASSUME IndexInv, TypeOK', Copy, Peeking
  PROVE  Fifo!Peek
<1>1. /\ TypeOK /\ head \in Slot /\ tail \in Slot /\ snap \in Slot /\ head # tail
      /\ ret' = data[rslot]
      /\ op.name = "peek_back" =>
           snap # head /\ Dist(head, snap) <= Dist(head, tail)
      /\ UNCHANGED <<data, head, tail, stopped, wrote>>
  BY DEF Copy, Answer, Go, IndexInv, LocationInv, SnapInv, empty, TypeOK, ring,
     prod, Peeking
<1>2. /\ Len(contents) = Dist(head, tail)
      /\ \A i \in 1..Dist(head, tail) : contents[i] = data[Nth(head, i)]
      /\ Dist(head, tail) \in 1..(Size - 1)
  <2>1. Dist(head, tail) \in 1..(Size - 1)
    BY <1>1, SizeAssumption DEF Dist, Slot
  <2>2. QED
    BY <1>1, <2>1, ContentsLen
<1>3. \E i \in 1..Dist(head, tail) : Nth(head, i) = rslot
  <2>1. CASE op.name = "peek_back"
    <3>1. rslot = IF snap = 0 THEN Size - 1 ELSE snap - 1
      BY <1>1, <2>1, BeforeWraps DEF rslot
    <3>2. Dist(head, snap) \in 1..Dist(head, tail) /\ Dist(head, snap) \in 1..Size
      BY <1>1, <1>2, <2>1, SizeAssumption DEF Dist, Slot
    <3>3. Nth(head, Dist(head, snap)) = rslot
      BY <1>1, <3>1, <3>2, NthWraps, SizeAssumption DEF Dist, Slot
    <3>4. QED
      BY <3>2, <3>3
  <2>2. CASE op.name # "peek_back"
    <3>1. rslot = head
      BY <2>2 DEF rslot
    <3>2. Nth(head, 1) = head
      BY <1>1, NthWraps, SizeAssumption DEF Slot
    <3>3. 1 \in 1..Dist(head, tail)
      BY <1>2, SizeAssumption
    <3>4. QED
      BY <3>1, <3>2, <3>3
  <2>3. QED
    BY <2>1, <2>2
<1>4. PICK i \in 1..Dist(head, tail) : Nth(head, i) = rslot
  BY <1>3
<1>5. ret' = contents[i] /\ i \in 1..Len(contents)
  BY <1>1, <1>2, <1>4
<1>6. UNCHANGED contents
  BY <1>1 DEF contents, num_slots_filled
<1>7. QED
  BY <1>1, <1>5, <1>6 DEF Fifo!Peek

LEMMA FifoConsumer ==
  ASSUME IndexInv, TypeOK', ItemInv, Consumer
  PROVE  [Fifo!Next]_(Fifo!vars)
<1>1. CASE \/ (\E o \in CallableOps : Call(o)) \/ LoadCounter \/ CheckStop
           \/ CheckEmpty \/ Wait \/ SpuriousWake \/ SnapTail
           \/ Copy /\ ~Peeking
  <2>1. UNCHANGED <<data, head, tail, stopped, wrote, ret>>
    BY <1>1 DEF Call, LoadCounter, CheckStop, CheckEmpty, Wait, SpuriousWake,
       SnapTail, Copy, ring, prod
  <2>2. QED
    BY <2>1, FifoQuiet
<1>2. CASE TestStop \/ TestEmpty
  <2>1. CASE UNCHANGED ret
    <3>1. UNCHANGED <<data, head, tail, stopped, wrote, ret>>
      BY <1>2, <2>1 DEF TestStop, TestEmpty, ring, prod
    <3>2. QED
      BY <3>1, FifoQuiet
  <2>2. CASE ~UNCHANGED ret
    <3>1. /\ ret' = NoItem /\ (empty \/ stopped)
          /\ UNCHANGED <<data, head, tail, stopped, wrote>>
      BY <1>2, <2>2 DEF TestStop, TestEmpty, Answer, ring, prod
    <3>2. UNCHANGED contents
      BY <3>1 DEF contents, num_slots_filled
    <3>3. empty => contents = <<>>
      <4>1. empty => num_slots_filled = 0
        BY DEF empty, num_slots_filled, IndexInv, TypeOK, Slot
      <4>2. QED
        BY <4>1 DEF contents
    <3>4. Fifo!Miss
      BY <3>1, <3>2, <3>3 DEF Fifo!Miss
    <3>5. QED
      BY <3>4 DEF Fifo!Next
  <2>3. QED
    BY <2>1, <2>2
<1>3. CASE Skip
  BY <1>3, FifoSkip DEF Fifo!Next
<1>4. CASE Copy /\ Peeking
  BY <1>4, FifoPeek DEF Fifo!Next
<1>5. CASE EndRead
  BY <1>5, FifoTake DEF Fifo!Next
<1>6. QED
  BY <1>1, <1>2, <1>3, <1>4, <1>5 DEF Consumer, ConsumerStep

(* RingBuffer implements the bounded FIFO queue: for every size, every set *)
(* of items and every interleaving, an accepted item is queued once, reads *)
(* return the queued items in order and nothing else, a write is refused   *)
(* only when size - 1 items are queued, and a read fails only when the     *)
(* queue is empty or closed.                                               *)
THEOREM RingBufferImplementsFifo == Spec => ImplementsFifo
<1>1. Init => Fifo!Init /\ ItemInv
  BY FifoInit DEF Init, ItemInv
<1>2. IndexInv /\ ItemInv /\ [Next]_vars => ItemInv'
  BY ItemStep
<1>3. IndexInv /\ IndexInv' /\ ItemInv /\ [Next]_vars => [Fifo!Next]_(Fifo!vars)
  <2> SUFFICES ASSUME IndexInv, IndexInv', ItemInv, [Next]_vars
               PROVE  [Fifo!Next]_(Fifo!vars)
    OBVIOUS
  <2>0. TypeOK'
    BY DEF IndexInv
  <2>1. CASE Producer
    BY <2>0, <2>1, FifoProducer
  <2>2. ASSUME NEW s \in Stoppers, Stop(s) PROVE [Fifo!Next]_(Fifo!vars)
    BY <2>0, <2>2, FifoStop
  <2>3. CASE Consumer
    BY <2>0, <2>3, FifoConsumer
  <2>4. CASE UNCHANGED vars
    BY <2>4, FifoQuiet DEF vars, ring, prod, cons
  <2>5. QED
    BY <2>1, <2>2, <2>3, <2>4 DEF Next
<1>4. QED
  BY <1>1, <1>2, <1>3, IndexAlways, PTL DEF Spec, ImplementsFifo, Fifo!Spec

=============================================================================
