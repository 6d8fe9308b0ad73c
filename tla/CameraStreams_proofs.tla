------------------------ MODULE CameraStreams_proofs ------------------------
(***************************************************************************)
(* TLAPS proofs about the streams: of the client fed by any packets, of    *)
(* the playback of a recording, of the server's key frames and motion      *)
(* samples, and of a client fed by a server or a recording.                *)
(***************************************************************************)
EXTENDS CameraStreams, SequenceTheorems, FiniteSetTheorems, TLAPS

(* The client, whatever arrives (StreamClient's Spec).                     *)

(* What a context remembers: unless it waits for a key frame, the id of    *)
(* the packet its decoder took last, after which its picture is sound.     *)
Kept(c) == c.need \/ (c.ref \in Packet /\ c.last = c.ref.id /\ Sound(c))
ContextsKept == \A s \in Serials \X Video : Kept(context[s])

ClientInv == ContextsKept /\ PicturesAreSound /\ AbortsOnlyWhenMixed

LEMMA ClientStarts == Init => TypeOK /\ ClientInv
<1>1. Fresh \in Context
  BY DEF Fresh, Context
<1>2. Fresh.need
  BY DEF Fresh
<1>3. ASSUME Init PROVE TypeOK
  <2>1. inbox = [b \in Inboxes |-> <<>>]
    BY <1>3 DEF Init
  <2>2. /\ inbox \in [Inboxes -> Seq(Packet \cup Motion)]
        /\ \A b \in Video : inbox[b] \in Seq(Packet)
        /\ inbox["motion"] \in Seq(Motion)
    BY <2>1 DEF Inboxes, Video
  <2>3. context \in [Serials \X Video -> Context] /\ known \subseteq Serials
    BY <1>1, <1>3 DEF Init
  <2>4. /\ item \in [Streams -> Context \cup Motion \cup {None}]
        /\ state \in [Streams -> Context \cup Motion \cup {None}]
        /\ \A s \in Streams : item[s] \in Item(s[2]) /\ state[s] \in Item(s[2])
    BY <1>3 DEF Init, Item
  <2>5. QED
    BY <1>3, <2>2, <2>3, <2>4 DEF Init, TypeOK
<1>4. Init => ClientInv
  BY <1>2 DEF Init, ClientInv, ContextsKept, Kept, PicturesAreSound, AbortsOnlyWhenMixed, Streams,
    Video, Kinds
<1>5. QED
  BY <1>3, <1>4

-----------------------------------------------------------------------------
LEMMA HeadTail ==
  ASSUME NEW S, NEW q \in Seq(S), q # <<>>
  PROVE  Head(q) \in S /\ Tail(q) \in Seq(S)
BY HeadTailProperties

(* The head of a video thread's buffer, and the context it belongs to.     *)
LEMMA VideoHead ==
  ASSUME TypeOK, NEW b \in Video, inbox[b] # <<>>
  PROVE  /\ Head(inbox[b]) \in Packet
         /\ Head(inbox[b]).serial \in Serials
         /\ <<Head(inbox[b]).serial, b>> \in Serials \X Video
         /\ <<Head(inbox[b]).serial, b>> \in Streams
         /\ context[<<Head(inbox[b]).serial, b>>] \in Context
<1>1. Head(inbox[b]) \in Packet
  BY HeadTail DEF TypeOK
<1>2. Head(inbox[b]).serial \in Serials
  BY <1>1, PacketAssumption
<1>3. <<Head(inbox[b]).serial, b>> \in Serials \X Video
  BY <1>2
<1>4. <<Head(inbox[b]).serial, b>> \in Streams
  BY <1>2 DEF Streams, Video, Kinds
<1>5. QED
  BY <1>1, <1>2, <1>3, <1>4 DEF TypeOK

(* Starting again after a gap keeps what the context is kept for.          *)
LEMMA AfterGapKept ==
  ASSUME NEW c \in Context, Kept(c), NEW p \in Packet
  PROVE  /\ AfterGap(c, p) \in Context
         /\ Kept(AfterGap(c, p))
         /\ ~AfterGap(c, p).need => AfterGap(c, p) = c /\ (c.last = None \/ c.last + 1 = p.id)
BY DEF AfterGap, Fresh, Kept, Context

(* A packet that is taken leaves a sound picture behind, or one of mixed   *)
(* runs.                                                                   *)
LEMMA TakenKept ==
  ASSUME NEW c \in Context, Kept(c), NEW p \in Packet, ~Skip(AfterGap(c, p), p)
  PROVE  /\ Taken(AfterGap(c, p), p) \in Context
         /\ Taken(AfterGap(c, p), p).ref = p
         /\ Kept(Taken(AfterGap(c, p), p))
         /\ Sound(Taken(AfterGap(c, p), p))
<1> DEFINE g == AfterGap(c, p)
<1>1. g \in Context /\ Kept(g)
  BY AfterGapKept
<1>2. p.id \in Nat /\ (p.flag => p.key)
  BY PacketAssumption
<1>3. Taken(g, p) \in Context
  BY <1>1, <1>2 DEF Taken, Context
<1>4. Taken(g, p).ref = p /\ Taken(g, p).last = p.id
  BY DEF Taken
<1>5. Sound(Taken(g, p))
  <2>1. CASE p.key
    BY <2>1 DEF Taken, Sound
  <2>2. CASE ~p.key
    <3>1. ~g.need
      BY <2>2, <1>2 DEF Skip
    <3>2. g.ref \in Packet /\ g.last = g.ref.id /\ Sound(g)
      BY <3>1, <1>1 DEF Kept
    <3>3. g.last # None
      BY <3>2, PacketAssumption, NoneAssumption
    <3>4. g.ref.id + 1 = p.id
      BY <3>1, <3>2, <3>3, AfterGapKept
    <3>5. g.ref # None
      BY <3>2, NoneAssumption
    <3>6. CASE g.ref.run # p.run
      BY <3>5, <3>6, <2>2 DEF Taken, Sound, OfAnotherRun
    <3>7. CASE g.ref.run = p.run
      BY <3>2, <3>4, <3>7, <2>2 DEF Taken, Sound, Follows
    <3>8. QED
      BY <3>6, <3>7
  <2>3. QED
    BY <2>1, <2>2
<1>6. Kept(Taken(g, p))
  BY <1>4, <1>5 DEF Kept
<1>7. QED
  BY <1>3, <1>4, <1>5, <1>6

-----------------------------------------------------------------------------
(* Reading from a buffer.                                                  *)
LEMMA ThreadType ==
  ASSUME TypeOK, NEW b \in Inboxes, NEW here, NEW there \in {"loop", "read", "returned"},
         Thread(b, here, there)
  PROVE  /\ main' = main /\ stop' = stop /\ closed' = closed /\ state' = state
         /\ ~aborted
         /\ tpc' \in [Inboxes -> {"loop", "read", "returned"}]
BY DEF TypeOK, Thread

LEMMA ReadType ==
  ASSUME TypeOK, NEW b \in Inboxes, Read(b)
  PROVE  /\ inbox[b] # <<>>
         /\ inbox' \in [Inboxes -> Seq(Packet \cup Motion)]
         /\ \A v \in Video : inbox'[v] \in Seq(Packet)
         /\ inbox'["motion"] \in Seq(Motion)
         /\ known' \subseteq Serials
         /\ Thread(b, "read", "loop")
<1>1. inbox[b] # <<>> /\ inbox' = [inbox EXCEPT ![b] = Tail(@)]
      /\ known' = known \cup {Head(inbox[b]).serial} /\ Thread(b, "read", "loop")
  BY DEF Read
<1>2. /\ inbox \in [Inboxes -> Seq(Packet \cup Motion)]
      /\ \A v \in Video : inbox[v] \in Seq(Packet)
      /\ inbox["motion"] \in Seq(Motion) /\ known \subseteq Serials
  BY DEF TypeOK
<1>3. Head(inbox[b]) \in Packet \cup Motion /\ Tail(inbox[b]) \in Seq(Packet \cup Motion)
  BY <1>1, <1>2, HeadTail
<1>4. b \in Video => Tail(inbox[b]) \in Seq(Packet)
  BY <1>1, <1>2, HeadTail
<1>5. b = "motion" => Tail(inbox[b]) \in Seq(Motion)
  BY <1>1, <1>2, HeadTail
<1>6. Head(inbox[b]).serial \in Serials
  BY <1>3, PacketAssumption, MotionAssumption
<1>7. inbox' \in [Inboxes -> Seq(Packet \cup Motion)]
  BY <1>1, <1>2, <1>3
<1>8. \A v \in Video : inbox'[v] \in Seq(Packet)
  BY <1>1, <1>2, <1>4 DEF Video, Inboxes
<1>9. inbox'["motion"] \in Seq(Motion)
  BY <1>1, <1>2, <1>5 DEF Inboxes
<1>10. known' \subseteq Serials
  BY <1>1, <1>2, <1>6
<1>11. QED
  BY <1>1, <1>7, <1>8, <1>9, <1>10

(* Appending a message to the buffer of its kind.                          *)
LEMMA DeliverStep ==
  ASSUME TypeOK, ClientInv, NEW m \in Packet \cup Motion, Deliver(m)
  PROVE  TypeOK' /\ ClientInv'
<1> DEFINE b == InboxOf(m.kind)
<1>1. UNCHANGED <<main, stop, closed, tpc, context, loop, aborted>>
  BY DEF Deliver
<1>2. /\ inbox \in [Inboxes -> Seq(Packet \cup Motion)]
      /\ \A v \in Video : inbox[v] \in Seq(Packet)
      /\ inbox["motion"] \in Seq(Motion)
  BY DEF TypeOK
<1>3. b \in Inboxes
  BY DEF InboxOf, Inboxes, Video
<1>4. b \in Video => m \in Packet
  BY MotionAssumption DEF InboxOf, Video
<1>5. b = "motion" => m \in Motion
  BY PacketAssumption DEF InboxOf, Video
<1>6. inbox' = inbox \/ inbox' = [inbox EXCEPT ![b] = Append(@, m)]
  BY DEF Deliver
<1>7. Append(inbox[b], m) \in Seq(Packet \cup Motion)
  BY <1>2, <1>3, AppendProperties
<1>8. b \in Video => Append(inbox[b], m) \in Seq(Packet)
  BY <1>2, <1>4, AppendProperties
<1>9. b = "motion" => Append(inbox[b], m) \in Seq(Motion)
  BY <1>2, <1>5, AppendProperties
<1>10. inbox' \in [Inboxes -> Seq(Packet \cup Motion)]
  BY <1>2, <1>3, <1>6, <1>7
<1>11. \A v \in Video : inbox'[v] \in Seq(Packet)
  BY <1>2, <1>3, <1>6, <1>8 DEF Inboxes, Video
<1>12. inbox'["motion"] \in Seq(Motion)
  BY <1>2, <1>3, <1>6, <1>9 DEF Inboxes
<1>13. TypeOK'
  BY <1>1, <1>10, <1>11, <1>12 DEF TypeOK, loop
<1>14. ClientInv'
  BY <1>1 DEF ClientInv, ContextsKept, PicturesAreSound, AbortsOnlyWhenMixed, loop
<1>15. QED
  BY <1>13, <1>14

-----------------------------------------------------------------------------
(* The two kinds of actions that change nothing the invariant speaks of.   *)
LEMMA SkipStep ==
  ASSUME TypeOK, ClientInv, NEW b \in Inboxes, SkipPacket(b)
  PROVE  TypeOK' /\ ClientInv'
<1> DEFINE p == Head(inbox[b])
           s == <<p.serial, b>>
<1>1. b \in Video /\ Read(b)
  BY DEF SkipPacket
<1>2. context' = [context EXCEPT ![s] = AfterGap(@, p)] /\ item' = item /\ aborted' = aborted
  BY DEF SkipPacket
<1>3. inbox[b] # <<>>
  BY <1>1 DEF Read
<1>4. p \in Packet /\ s \in Serials \X Video /\ context[s] \in Context
  BY <1>1, <1>3, VideoHead
<1>5. AfterGap(context[s], p) \in Context /\ Kept(AfterGap(context[s], p))
  BY <1>4, AfterGapKept DEF ClientInv, ContextsKept
<1>6. /\ ~aborted /\ main' = main /\ stop' = stop /\ closed' = closed /\ state' = state
      /\ tpc' \in [Inboxes -> {"loop", "read", "returned"}]
  BY <1>1, ReadType, ThreadType
<1>7. context' \in [Serials \X Video -> Context]
  BY <1>2, <1>4, <1>5 DEF TypeOK
<1>8. TypeOK'
  BY <1>1, <1>2, <1>6, <1>7, ReadType DEF TypeOK
<1>9. ContextsKept'
  BY <1>2, <1>4, <1>5 DEF ClientInv, ContextsKept, TypeOK
<1>10. PicturesAreSound' /\ AbortsOnlyWhenMixed'
  BY <1>2, <1>6 DEF ClientInv, PicturesAreSound, AbortsOnlyWhenMixed
<1>11. QED
  BY <1>8, <1>9, <1>10 DEF ClientInv

(* A packet that is taken: what next is.                                   *)
LEMMA TakePacketNext ==
  ASSUME TypeOK, ClientInv, NEW b \in Inboxes, NEW next, TakePacket(b, next)
  PROVE  /\ b \in Video /\ Read(b)
         /\ <<next.ref.serial, b>> \in Serials \X Video
         /\ <<next.ref.serial, b>> \in Streams
         /\ next \in Context /\ Kept(next) /\ Sound(next)
<1> DEFINE p == Head(inbox[b])
           c == context[<<p.serial, b>>]
<1>1. b \in Video /\ Read(b) /\ ~Skip(AfterGap(c, p), p) /\ next = Taken(AfterGap(c, p), p)
  BY DEF TakePacket
<1>2. inbox[b] # <<>>
  BY <1>1 DEF Read
<1>3. /\ p \in Packet /\ <<p.serial, b>> \in Serials \X Video
      /\ <<p.serial, b>> \in Streams /\ c \in Context
  BY <1>1, <1>2, VideoHead
<1>4. Kept(c)
  BY <1>3 DEF ClientInv, ContextsKept
<1>5. next \in Context /\ next.ref = p /\ Kept(next) /\ Sound(next)
  BY <1>1, <1>3, <1>4, TakenKept
<1>6. QED
  BY <1>1, <1>3, <1>5

LEMMA DecodeStep ==
  ASSUME TypeOK, ClientInv, NEW b \in Inboxes, NEW next, Decode(b, next)
  PROVE  TypeOK' /\ ClientInv'
<1> DEFINE s == <<next.ref.serial, b>>
<1>1. TakePacket(b, next) /\ context' = [context EXCEPT ![s] = next]
      /\ item' = [item EXCEPT ![s] = next] /\ aborted' = aborted
  BY DEF Decode
<1>2. /\ b \in Video /\ Read(b) /\ s \in Serials \X Video /\ s \in Streams
      /\ next \in Context /\ Kept(next) /\ Sound(next)
  BY <1>1, TakePacketNext
<1>3. /\ ~aborted /\ main' = main /\ stop' = stop /\ closed' = closed /\ state' = state
      /\ tpc' \in [Inboxes -> {"loop", "read", "returned"}]
  BY <1>2, ReadType, ThreadType
<1>4. context' \in [Serials \X Video -> Context]
  BY <1>1, <1>2 DEF TypeOK
<1>5. \A t \in Streams : item'[t] \in Item(t[2]) /\ state'[t] \in Item(t[2])
  <2> SUFFICES ASSUME NEW t \in Streams PROVE item'[t] \in Item(t[2]) /\ state'[t] \in Item(t[2])
    OBVIOUS
  <2>1. item[t] \in Item(t[2]) /\ state[t] \in Item(t[2])
    BY DEF TypeOK
  <2>2. t = s => next \in Item(t[2])
    BY <1>2 DEF Item
  <2>3. item'[t] = item[t] \/ (t = s /\ item'[t] = next)
    BY <1>1, <1>2 DEF TypeOK
  <2>4. QED
    BY <1>3, <2>1, <2>2, <2>3
<1>6. item' \in [Streams -> Context \cup Motion \cup {None}]
  BY <1>1, <1>2 DEF TypeOK
<1>7. TypeOK'
  BY <1>1, <1>2, <1>3, <1>4, <1>5, <1>6, ReadType DEF TypeOK
<1>8. ContextsKept'
  BY <1>1, <1>2 DEF ClientInv, ContextsKept, TypeOK
<1>9. PicturesAreSound'
  BY <1>1, <1>2, <1>3 DEF ClientInv, PicturesAreSound, TypeOK, Streams, Video, Kinds
<1>10. AbortsOnlyWhenMixed'
  BY <1>1, <1>3 DEF AbortsOnlyWhenMixed
<1>11. QED
  BY <1>7, <1>8, <1>9, <1>10 DEF ClientInv

LEMMA RefuseStep ==
  ASSUME TypeOK, ClientInv, NEW b \in Inboxes, NEW next, Refuse(b, next)
  PROVE  TypeOK' /\ ClientInv'
<1> DEFINE s == <<next.ref.serial, b>>
           new == IF Checks(b) THEN next ELSE Fresh
<1>1. TakePacket(b, next) /\ ~next.good /\ context' = [context EXCEPT ![s] = new]
      /\ aborted' = Checks(b) /\ item' = item
  BY DEF Refuse
<1>2. /\ b \in Video /\ Read(b) /\ s \in Serials \X Video
      /\ next \in Context /\ Kept(next) /\ Sound(next)
  BY <1>1, TakePacketNext
<1>3. /\ ~aborted /\ main' = main /\ stop' = stop /\ closed' = closed /\ state' = state
      /\ tpc' \in [Inboxes -> {"loop", "read", "returned"}]
  BY <1>2, ReadType, ThreadType
<1>4. new \in Context /\ Kept(new)
  BY <1>2 DEF Fresh, Context, Kept
<1>5. context' \in [Serials \X Video -> Context]
  BY <1>1, <1>2, <1>4 DEF TypeOK
<1>6. TypeOK'
  BY <1>1, <1>2, <1>3, <1>5, ReadType DEF TypeOK, Checks
<1>7. ContextsKept'
  BY <1>1, <1>2, <1>4 DEF ClientInv, ContextsKept, TypeOK
<1>8. PicturesAreSound'
  BY <1>1, <1>3 DEF ClientInv, PicturesAreSound
<1>9. AbortsOnlyWhenMixed'
  <2> SUFFICES ASSUME Checks(b) PROVE \E t \in Serials : context'[<<t, "color">>].mixed
    BY <1>1 DEF AbortsOnlyWhenMixed
  <2>1. b = "color" /\ next.ref.serial \in Serials
    BY <1>2 DEF Checks
  <2>2. next.mixed
    BY <1>1, <1>2 DEF Sound
  <2>3. context'[s] = next
    BY <1>1, <1>2 DEF TypeOK
  <2>4. QED
    BY <2>1, <2>2, <2>3
<1>10. QED
  BY <1>6, <1>7, <1>8, <1>9 DEF ClientInv

LEMMA MotionStep ==
  ASSUME TypeOK, ClientInv, TakeMotion
  PROVE  TypeOK' /\ ClientInv'
<1> DEFINE m == Head(inbox["motion"])
           s == <<m.serial, m.kind>>
<1>0. "motion" \in Inboxes
  BY DEF Inboxes
<1>1. Read("motion") /\ item' = [item EXCEPT ![s] = m] /\ context' = context /\ aborted' = aborted
  BY DEF TakeMotion
<1>2. inbox["motion"] # <<>>
  BY <1>1 DEF Read
<1>3. m \in Motion
  BY <1>2, HeadTail DEF TypeOK
<1>4. s \in Streams /\ m.kind \notin Video
  BY <1>3, MotionAssumption DEF Streams, Kinds, Video
<1>5. /\ ~aborted /\ main' = main /\ stop' = stop /\ closed' = closed /\ state' = state
      /\ tpc' \in [Inboxes -> {"loop", "read", "returned"}]
  BY <1>0, <1>1, ReadType, ThreadType
<1>6. \A t \in Streams : item'[t] \in Item(t[2]) /\ state'[t] \in Item(t[2])
  <2> SUFFICES ASSUME NEW t \in Streams PROVE item'[t] \in Item(t[2]) /\ state'[t] \in Item(t[2])
    OBVIOUS
  <2>1. item[t] \in Item(t[2]) /\ state[t] \in Item(t[2])
    BY DEF TypeOK
  <2>2. t = s => m \in Item(t[2])
    BY <1>3, <1>4 DEF Item
  <2>3. item'[t] = item[t] \/ (t = s /\ item'[t] = m)
    BY <1>1, <1>4 DEF TypeOK
  <2>4. QED
    BY <1>5, <2>1, <2>2, <2>3
<1>7. item' \in [Streams -> Context \cup Motion \cup {None}]
  BY <1>1, <1>3, <1>4 DEF TypeOK
<1>8. TypeOK'
  BY <1>0, <1>1, <1>5, <1>6, <1>7, ReadType DEF TypeOK
<1>9. \A v \in Serials \X Video : item'[v] = item[v]
  <2> SUFFICES ASSUME NEW v \in Serials \X Video PROVE item'[v] = item[v]
    OBVIOUS
  <2>1. v \in Streams /\ v # s
    BY <1>4 DEF Streams, Kinds, Video
  <2>2. QED
    BY <1>1, <1>4, <2>1 DEF TypeOK
<1>10. ClientInv'
  BY <1>1, <1>5, <1>9 DEF ClientInv, ContextsKept, PicturesAreSound, AbortsOnlyWhenMixed
<1>11. QED
  BY <1>8, <1>10

-----------------------------------------------------------------------------
LEMMA LoopStep ==
  ASSUME TypeOK, ClientInv, NEW b \in Inboxes, LoopTest(b) \/ ReadStopped(b)
  PROVE  TypeOK' /\ ClientInv'
<1>1. UNCHANGED <<inbox, context, known, item, aborted>>
  BY DEF LoopTest, ReadStopped
<1>2. /\ main' = main /\ stop' = stop /\ closed' = closed /\ state' = state
      /\ tpc' \in [Inboxes -> {"loop", "read", "returned"}]
  BY DEF LoopTest, ReadStopped, Thread, TypeOK
<1>3. TypeOK'
  BY <1>1, <1>2 DEF TypeOK
<1>4. ClientInv'
  BY <1>1, <1>2 DEF ClientInv, ContextsKept, PicturesAreSound, AbortsOnlyWhenMixed
<1>5. QED
  BY <1>3, <1>4

LEMMA UpdateStep ==
  ASSUME TypeOK, ClientInv, NEW serial \in Serials, UpdateState(serial)
  PROVE  TypeOK' /\ ClientInv'
<1>1. UNCHANGED <<main, stop, closed, inbox, tpc, context, known, aborted>>
  BY DEF UpdateState
<1>2. /\ state' \in [Streams -> Context \cup Motion \cup {None}]
      /\ item' \in [Streams -> Context \cup Motion \cup {None}]
  BY DEF UpdateState, TypeOK
<1>3. \A t \in Streams : item'[t] \in {item[t], None} /\ state'[t] \in {item[t], state[t]}
  BY DEF UpdateState
<1>4. \A t \in Streams : item'[t] \in Item(t[2]) /\ state'[t] \in Item(t[2])
  BY <1>3 DEF TypeOK, Item
<1>5. TypeOK'
  BY <1>1, <1>2, <1>4 DEF TypeOK
<1>6. \A t \in Serials \X Video : t \in Streams
  BY DEF Streams, Video, Kinds
<1>7. PicturesAreSound'
  BY <1>3, <1>6 DEF ClientInv, PicturesAreSound
<1>8. ContextsKept' /\ AbortsOnlyWhenMixed'
  BY <1>1 DEF ClientInv, ContextsKept, AbortsOnlyWhenMixed
<1>9. QED
  BY <1>5, <1>7, <1>8 DEF ClientInv

LEMMA LifecycleStep ==
  ASSUME TypeOK, ClientInv, Lifecycle
  PROVE  TypeOK' /\ ClientInv'
<1>1. UNCHANGED <<inbox, tpc, context, loop, aborted>>
  BY DEF Lifecycle, StopAll, StopBuffers, Join, Main
<1>2. /\ main' \in {"running", "stopping", "joining", "done"}
      /\ stop' \in BOOLEAN /\ closed' \in BOOLEAN
  BY DEF Lifecycle, StopAll, StopBuffers, Join, Main, TypeOK
<1>3. TypeOK'
  BY <1>1, <1>2 DEF TypeOK, loop
<1>4. ClientInv'
  BY <1>1 DEF ClientInv, ContextsKept, PicturesAreSound, AbortsOnlyWhenMixed, loop
<1>5. QED
  BY <1>3, <1>4

(* The invariant is inductive.                                             *)
LEMMA ClientInvInductive == TypeOK /\ ClientInv /\ [Next]_vars => TypeOK' /\ ClientInv'
<1> SUFFICES ASSUME TypeOK, ClientInv, [Next]_vars PROVE TypeOK' /\ ClientInv'
  OBVIOUS
<1>1. ASSUME NEW m \in Packet \cup Motion, Deliver(m) PROVE TypeOK' /\ ClientInv'
  BY <1>1, DeliverStep
<1>2. ASSUME NEW b \in Inboxes, Worker(b) PROVE TypeOK' /\ ClientInv'
  BY <1>2, LoopStep, SkipStep, DecodeStep, RefuseStep, MotionStep DEF Worker
<1>3. ASSUME NEW s \in Serials, UpdateState(s) PROVE TypeOK' /\ ClientInv'
  BY <1>3, UpdateStep
<1>4. CASE Lifecycle
  BY <1>4, LifecycleStep
<1>5. CASE UNCHANGED vars
  <2>1. TypeOK'
    BY <1>5 DEF vars, loop, TypeOK
  <2>2. ClientInv'
    BY <1>5 DEF vars, loop, ClientInv, ContextsKept, PicturesAreSound, AbortsOnlyWhenMixed
  <2>3. QED
    BY <2>1, <2>2
<1>6. QED
  BY <1>1, <1>2, <1>3, <1>4, <1>5 DEF Next

LEMMA ClientInvAlways == Spec => [](TypeOK /\ ClientInv)
BY ClientStarts, ClientInvInductive, PTL DEF Spec

(* Every variable keeps its type; a video buffer holds packets of video    *)
(* streams only (client.cpp:44-66, 396-399).                               *)
THEOREM TypeCorrect == Spec => []TypeOK
BY ClientInvAlways, PTL

(* Whatever packets arrive, in whatever order, a picture shown is what the *)
(* server saw, unless packets of two of its runs were mixed                *)
(* (client.cpp:109-137, 206-231).                                          *)
THEOREM PicturesSound == Spec => []PicturesAreSound
<1>1. TypeOK /\ ClientInv => PicturesAreSound
  BY DEF ClientInv
<1>2. QED
  BY <1>1, ClientInvAlways, PTL

(* No CHECK of the threads fails otherwise (client.cpp:128, 226 and 239).  *)
THEOREM AbortsExplained == Spec => []AbortsOnlyWhenMixed
<1>1. TypeOK /\ ClientInv => AbortsOnlyWhenMixed
  BY DEF ClientInv
<1>2. QED
  BY <1>1, ClientInvAlways, PTL

-----------------------------------------------------------------------------
(* The playback of a recording.                                            *)
Seekbars == [current : 0..MaxMs, playing : BOOLEAN, timed : BOOLEAN]

PlaybackType ==
  /\ seekbar \in Seekbars /\ shared \in 0..MaxMs
  /\ position \in Nat /\ target \in 0..MaxMs /\ origin \in 0..MaxMs
  /\ todo \subseteq DOMAIN log /\ segments \subseteq SUBSET DOMAIN log
  /\ since \in Seq(DOMAIN log)

(* All that is due at ms has been published but for what is to follow.     *)
Leads(rows, ms) ==
  /\ origin - 1 <= ms
  /\ Playback!Published \cup rows = Playback!Due(ms)
  /\ \A i \in rows, j \in Playback!Published : Playback!MayFollow(j, i)

(* What is published from the key frames on, one topic after another.      *)
BeforeJump ==
  { i \in DOMAIN log : Playback!SinceKey(i) /\ log[i].at < origin * UsPerMs }
OneByOne ==
  /\ Playback!Published \cup todo \cup UNION segments = BeforeJump
  /\ \A i \in todo, j \in Playback!Published : Playback!MayFollow(j, i)
  /\ \A g \in segments : \A i \in g :
       /\ \A j \in todo \cup Playback!Published : log[j].topic # log[i].topic
       /\ \A h \in segments : \A j \in h : log[j].topic = log[i].topic => g = h

InOrder ==
  \A n \in DOMAIN since : \A m \in 1..(n - 1) : Playback!MayFollow(since[m], since[n])

Thorough ==
  /\ ppc \in {"read", "clear", "find"} => todo = {}
  /\ ppc = "read" => Leads({}, position)
  /\ ppc = "segments" => origin = target /\ OneByOne
  /\ ppc = "query" => Leads(Playback!Way(position, target), target)
  /\ ppc = "play" => Leads(todo, target)
  /\ InOrder

PlaybackInv == PlaybackType /\ Thorough

LEMMA Milliseconds ==
  ASSUME NEW a \in Int, NEW b \in Int
  PROVE  /\ a * UsPerMs \in Int
         /\ a <= b => a * UsPerMs <= b * UsPerMs
         /\ a < b => a * UsPerMs < b * UsPerMs
<1>1. UsPerMs \in Nat /\ UsPerMs > 0
  BY PlaybackAssumption
<1>2. b * UsPerMs = a * UsPerMs + (b - a) * UsPerMs
  BY <1>1
<1>3. a <= b => (b - a) * UsPerMs >= 0
  BY <1>1
<1>4. a < b => (b - a) * UsPerMs > 0
  BY <1>1
<1>5. (b - a) * UsPerMs \in Int
  BY <1>1
<1>6. QED
  BY <1>1, <1>2, <1>3, <1>4, <1>5

LEMMA RowTimes == \A i \in DOMAIN log : log[i].at \in Nat /\ log[i].at > 0
BY PlaybackAssumption

(* A rounded position is one, too.                                         *)
LEMMA DistanceType == ASSUME NEW x \in Nat PROVE Playback!Distance(x) \in Playback!Distances
<1>1. Precision \in Nat
  BY PlaybackAssumption
<1>2. \E d \in Playback!Distances :
        /\ x < Precision * d \/ d = 128
        /\ \A e \in Playback!Distances : e < d => x >= Precision * e
  <2>1. PICK a2, a4, a8, a16, a32, a64 \in Nat :
          /\ a2 = Precision * 2 /\ a4 = Precision * 4 /\ a8 = Precision * 8
          /\ a16 = Precision * 16 /\ a32 = Precision * 32 /\ a64 = Precision * 64
    BY <1>1
  <2>2. CASE x < a2
    BY <2>1, <2>2 DEF Playback!Distances
  <2>3. CASE x >= a2 /\ x < a4
    BY <2>1, <2>3 DEF Playback!Distances
  <2>4. CASE x >= a4 /\ x < a8
    BY <1>1, <2>1, <2>4 DEF Playback!Distances
  <2>5. CASE x >= a8 /\ x < a16
    BY <1>1, <2>1, <2>5 DEF Playback!Distances
  <2>6. CASE x >= a16 /\ x < a32
    BY <1>1, <2>1, <2>6 DEF Playback!Distances
  <2>7. CASE x >= a32 /\ x < a64
    BY <1>1, <2>1, <2>7 DEF Playback!Distances
  <2>8. CASE x >= a64
    BY <1>1, <2>1, <2>8 DEF Playback!Distances
  <2>9. QED
    BY <2>1, <2>2, <2>3, <2>4, <2>5, <2>6, <2>7, <2>8
<1>3. QED
  BY <1>2 DEF Playback!Distance

LEMMA FloatType == ASSUME NEW x \in Nat PROVE Playback!Float(x) \in Nat
<1>1. PICK d \in Nat : d = Playback!Distance(x) /\ d > 0
  BY DistanceType DEF Playback!Distances
<1>2. PICK below \in Nat : below = x \div d
  BY <1>1
<1>3. PICK m \in Nat :
        m = IF 2 * (x % d) > d \/ (2 * (x % d) = d /\ below % 2 = 1) THEN below + 1 ELSE below
  BY <1>2
<1>4. d * m \in Nat
  BY <1>1, <1>3
<1>5. Playback!Nearest(x, d) = d * m
  BY <1>2, <1>3 DEF Playback!Nearest
<1>6. QED
  BY <1>1, <1>4, <1>5 DEF Playback!Float

(* The seekbar stays within the log.                                       *)
LEMMA SeekbarStays ==
  ASSUME seekbar \in Seekbars, NEW keys, NEW elapsed \in 1..2, NEW click, NEW slide \in Int,
         Playback!Frame(keys, elapsed, click, slide)
  PROVE  seekbar' \in Seekbars /\ shared' \in 0..MaxMs
<1>1. MaxMs \in Nat /\ MinMs \in 0..MaxMs /\ SeekJump \in Nat /\ Wrap \in Nat \ {0}
  BY PlaybackAssumption
<1>2. ASSUME NEW s \in Seekbars
      PROVE  /\ \A ms \in 0..MaxMs : Playback!jump_playing_time(s, ms) \in Seekbars
             /\ Playback!Toggled(s) \in Seekbars /\ Playback!InRange(s) \in Seekbars
  BY <1>1, <1>2 DEF Seekbars, Playback!jump_playing_time, Playback!Toggled,
     Playback!start_playing, Playback!stop_playing, Playback!InRange
<1>3. \A ms \in 0..MaxMs : /\ Playback!Minimum(MaxMs, ms + SeekJump) \in 0..MaxMs
                           /\ Playback!Earlier(ms) \in 0..MaxMs
  <2>1. ASSUME NEW ms \in 0..MaxMs PROVE (ms - SeekJump) % Wrap \in Nat
    BY <1>1
  <2>2. QED
    BY <1>1, <2>1 DEF Playback!Minimum, Playback!Earlier
<1>4. \A s \in Seekbars : s.current \in 0..MaxMs
  BY DEF Seekbars
<1>5. Playback!handle_playback_control(seekbar, keys) \in Seekbars
  BY <1>2, <1>3, <1>4 DEF Playback!handle_playback_control
<1>6. ASSUME NEW s \in Seekbars
      PROVE  Playback!update_playing(s, elapsed) \in Seekbars
  <2>0. s.current \in Nat /\ elapsed \in Nat
    BY <1>1, <1>4
  <2>1. PICK c \in Nat : c = IF s.timed THEN Playback!Float(Playback!Float(s.current) + elapsed)
                             ELSE s.current
    <3>1. PICK f \in Nat : f = Playback!Float(s.current)
      BY <2>0, FloatType
    <3>2. f + elapsed \in Nat
      BY <2>0, <3>1
    <3>3. Playback!Float(f + elapsed) \in Nat
      BY <3>2, FloatType
    <3>4. QED
      BY <2>0, <3>1, <3>3
  <2>2. PICK t : t = [s EXCEPT !.current = c, !.timed = TRUE]
    OBVIOUS
  <2>3. t \in [current : Nat, playing : BOOLEAN, timed : BOOLEAN]
    BY <1>1, <2>2 DEF Seekbars
  <2>4. t.current <= MaxMs => t \in Seekbars
    BY <1>1, <2>3 DEF Seekbars
  <2>5. [t EXCEPT !.current = MaxMs] \in Seekbars
    BY <1>1, <2>3 DEF Seekbars
  <2>6. Playback!AtEnd(t) \in Seekbars
    BY <2>5 DEF Seekbars, Playback!AtEnd, Playback!stop_playing
  <2>7. t = [s EXCEPT !.current = IF s.timed
                                  THEN Playback!Float(Playback!Float(s.current) + elapsed)
                                  ELSE s.current,
                      !.timed = TRUE]
    BY <2>1, <2>2
  <2>8. Playback!update_playing(s, elapsed)
          = IF ~s.playing THEN s ELSE IF t.current > MaxMs THEN Playback!AtEnd(t) ELSE t
    BY <2>7 DEF Playback!update_playing
  <2>9. t.current \in Nat
    BY <2>3
  <2>10. QED
    BY <1>1, <2>4, <2>6, <2>8, <2>9
<1>7. ASSUME NEW s \in Seekbars
      PROVE  Playback!Seeked(s, click, slide) \in Seekbars
  <2>1. Playback!InRange(s) \in Seekbars
    BY <1>2
  <2>2. (IF click THEN Playback!Toggled(Playback!InRange(s)) ELSE Playback!InRange(s))
          \in Seekbars
    BY <1>2, <2>1
  <2>3. slide \in MinMs..MaxMs => slide \in 0..MaxMs
    BY <1>1
  <2>4. QED
    BY <1>2, <2>2, <2>3 DEF Playback!Seeked
<1>8. QED
  BY <1>4, <1>5, <1>6, <1>7 DEF Playback!Frame

LEMMA PlaybackStarts ==
  ASSUME Playback!Init PROVE PlaybackInv
<1>1. MaxMs \in Nat
  BY PlaybackAssumption
<1>2. since = <<>> /\ since \in Seq(DOMAIN log) /\ DOMAIN since = {}
  BY DEF Playback!Init
<1>3. PlaybackType
  BY <1>1, <1>2 DEF PlaybackType, Seekbars, Playback!Init
<1>4. Playback!Published = {} /\ InOrder
  BY <1>2 DEF Playback!Published, InOrder
<1>5. Playback!Due(0) = {}
  BY RowTimes, PlaybackAssumption DEF Playback!Due
<1>6. QED
  BY <1>3, <1>4, <1>5 DEF PlaybackInv, Thorough, Leads, Playback!Init

(* A step of the thread that publishes nothing.                            *)
LEMMA PublishedLeft ==
  ASSUME InOrder, UNCHANGED <<since, origin>>
  PROVE  /\ InOrder' /\ Playback!Published' = Playback!Published
         /\ BeforeJump' = BeforeJump
         /\ \A i, j : Playback!MayFollow(j, i)' = Playback!MayFollow(j, i)
         /\ \A i : Playback!SinceKey(i)' = Playback!SinceKey(i)
         /\ \A rows, ms : Leads(rows, ms)' = Leads(rows, ms)
BY DEF InOrder, BeforeJump, Leads, Playback!Published, Playback!Due, Playback!SinceKey,
   Playback!SinceJump, Playback!MayFollow, Playback!LastMs

(* What the thread has published is untouched by everyone else.            *)
LEMMA ThreadLeftAlone ==
  ASSUME PlaybackInv, UNCHANGED <<ppc, position, target, segments, todo, since, origin>>,
         seekbar' \in Seekbars, shared' \in 0..MaxMs
  PROVE  PlaybackInv'
<1>1. PlaybackType'
  BY DEF PlaybackInv, PlaybackType
<1>2. /\ InOrder' /\ Playback!Published' = Playback!Published
      /\ BeforeJump' = BeforeJump
      /\ \A i, j : Playback!MayFollow(j, i)' = Playback!MayFollow(j, i)
      /\ \A rows, ms : Leads(rows, ms)' = Leads(rows, ms)
  BY PublishedLeft DEF PlaybackInv, Thorough
<1>3. OneByOne => OneByOne'
  BY <1>2 DEF OneByOne
<1>4. Playback!Way(position, target)' = Playback!Way(position, target)
  BY DEF Playback!Way
<1>5. /\ Leads({}, position)' = Leads({}, position)
      /\ Leads(todo, target)' = Leads(todo, target)
      /\ Leads(Playback!Way(position, target), target)'
           = Leads(Playback!Way(position, target), target)
  BY <1>2, <1>4 DEF Leads, Playback!Due, Playback!SinceKey, Playback!SinceJump
<1>6. Thorough'
  BY <1>2, <1>3, <1>5 DEF PlaybackInv, Thorough
<1>7. QED
  BY <1>1, <1>6 DEF PlaybackInv

LEMMA UserStep ==
  ASSUME PlaybackInv, Playback!User \/ Playback!Quit \/ Playback!Publishing \/ Playback!Send
  PROVE  PlaybackInv'
<1>1. seekbar \in Seekbars /\ shared \in 0..MaxMs
  BY DEF PlaybackInv, PlaybackType
<1>2. CASE Playback!User
  <2>1. \E keys, click : \E elapsed \in 1..2, slide \in Int :
          Playback!Frame(keys, elapsed, click, slide)
    <3>1. \A ms \in MinMs..MaxMs : ms \in Int
      BY PlaybackAssumption
    <3>2. -1 \in Int
      OBVIOUS
    <3>3. QED
      BY <1>2, <3>1, <3>2, Zenon DEF Playback!User
  <2>2. seekbar' \in Seekbars /\ shared' \in 0..MaxMs
    BY <1>1, <2>1, SeekbarStays
  <2>3. UNCHANGED <<ppc, position, target, segments, todo, since, origin>>
    BY <2>1 DEF Playback!Frame, Playback!thread
  <2>4. QED
    BY <2>2, <2>3, ThreadLeftAlone
<1>3. CASE Playback!Quit \/ Playback!Publishing \/ Playback!Send
  <2>1. /\ UNCHANGED <<ppc, position, target, segments, todo, since, origin>>
        /\ UNCHANGED <<seekbar, shared>>
    BY <1>3 DEF Playback!Quit, Playback!Publishing, Playback!TestStop, Playback!TestClear,
       Playback!ClearQueue, Playback!Unflag, Playback!Send, Playback!Publisher,
       Playback!thread, Playback!loop
  <2>2. QED
    BY <1>1, <2>1, ThreadLeftAlone
<1>4. QED
  BY <1>2, <1>3

-----------------------------------------------------------------------------
(* Going on without a jump, the way on is what is missing.                 *)
LEMMA WayOn ==
  ASSUME PlaybackType, Leads({}, position), NEW ms \in 0..MaxMs, position <= ms
  PROVE  Leads(Playback!Way(position, ms), ms)
<1>1. /\ ms \in Int /\ position \in Int /\ origin - 1 \in Int /\ origin - 1 <= position
      /\ Playback!Published = Playback!Due(position)
  BY PlaybackAssumption DEF PlaybackType, Leads
<1>2. /\ (origin - 1) * UsPerMs \in Int /\ position * UsPerMs \in Int
      /\ ms * UsPerMs \in Int /\ (origin - 1) * UsPerMs <= position * UsPerMs
      /\ position * UsPerMs <= ms * UsPerMs
  BY <1>1, Milliseconds
<1>3. \A i \in DOMAIN log :
        i \in Playback!Due(ms) <=>
          i \in Playback!Due(position) \/ i \in Playback!Way(position, ms)
  BY <1>2, RowTimes DEF Playback!Due, Playback!Way, Playback!SinceJump
<1>4. /\ Playback!Due(ms) \subseteq DOMAIN log /\ Playback!Due(position) \subseteq DOMAIN log
      /\ Playback!Way(position, ms) \subseteq DOMAIN log
  BY DEF Playback!Due, Playback!Way
<1>5. Playback!Published \cup Playback!Way(position, ms) = Playback!Due(ms)
  BY <1>1, <1>3, <1>4
<1>6. ASSUME NEW i \in Playback!Way(position, ms), NEW j \in Playback!Due(position)
      PROVE  Playback!MayFollow(j, i)
  BY <1>2, RowTimes DEF Playback!Due, Playback!Way, Playback!MayFollow
<1>7. QED
  BY <1>1, <1>5, <1>6 DEF Leads

(* After a jump it is the last millisecond before the target, too.         *)
LEMMA WayFromJump ==
  ASSUME PlaybackType, origin = target, Playback!Published = BeforeJump
  PROVE  Leads(Playback!Way(Playback!BeforeTarget, target), target)
<1>1. /\ target \in 0..MaxMs /\ MaxMs \in Nat /\ Wrap \in Nat /\ MaxMs < Wrap
  BY PlaybackAssumption DEF PlaybackType
<1>2. /\ target * UsPerMs \in Int /\ (target - 1) * UsPerMs \in Int
      /\ (target - 1) * UsPerMs < target * UsPerMs
  BY <1>1, Milliseconds
<1>3. CASE target = 0
  <2>1. target * UsPerMs = 0
    BY <1>3, PlaybackAssumption
  <2>2. /\ Playback!Due(target) = {} /\ BeforeJump = {}
        /\ Playback!Way(Playback!BeforeTarget, target) = {}
    BY <2>1, RowTimes DEF Playback!Due, BeforeJump, Playback!Way
  <2>3. QED
    BY <1>1, <2>2 DEF Leads
<1>4. CASE target # 0
  <2>1. Playback!BeforeTarget = target - 1
    BY <1>1, <1>4 DEF Playback!BeforeTarget
  <2>2. \A i \in DOMAIN log :
          i \in Playback!Due(target) <=>
            i \in BeforeJump \/ i \in Playback!Way(target - 1, target)
    BY <1>2, RowTimes DEF Playback!Due, BeforeJump, Playback!Way, Playback!SinceJump
  <2>3. /\ Playback!Due(target) \subseteq DOMAIN log /\ BeforeJump \subseteq DOMAIN log
        /\ Playback!Way(target - 1, target) \subseteq DOMAIN log
    BY DEF Playback!Due, Playback!Way, BeforeJump
  <2>4. Playback!Published \cup Playback!Way(target - 1, target) = Playback!Due(target)
    BY <2>2, <2>3
  <2>5. ASSUME NEW i \in Playback!Way(target - 1, target), NEW j \in BeforeJump
        PROVE  Playback!MayFollow(j, i)
    BY <1>2, RowTimes DEF BeforeJump, Playback!Way, Playback!MayFollow, Playback!LastMs,
       Playback!SinceJump
  <2>6. origin - 1 <= target
    BY <1>1
  <2>7. QED
    BY <2>1, <2>4, <2>5, <2>6 DEF Leads
<1>5. QED
  BY <1>3, <1>4

-----------------------------------------------------------------------------
(* The steps of the thread.                                                *)
LEMMA ReadPositionStep ==
  ASSUME PlaybackInv, Playback!ReadPosition
  PROVE  PlaybackInv'
<1>1. PlaybackType'
  BY DEF PlaybackInv, PlaybackType, Playback!ReadPosition, Playback!Playback, Playback!loop
<1>2. /\ InOrder' /\ Playback!Published' = Playback!Published
      /\ \A rows, ms : Leads(rows, ms)' = Leads(rows, ms)
  BY PublishedLeft DEF PlaybackInv, Thorough, Playback!ReadPosition
<1>3. todo' = {}
  BY DEF PlaybackInv, Thorough, Playback!ReadPosition, Playback!Playback
<1>4. CASE Playback!NeedInitialize(shared)
  BY <1>1, <1>2, <1>3, <1>4 DEF PlaybackInv, Thorough, Playback!ReadPosition, Playback!Playback
<1>5. CASE ~Playback!NeedInitialize(shared)
  <2>1. position <= shared /\ shared \in 0..MaxMs /\ Leads({}, position)
    BY <1>5, PlaybackAssumption DEF PlaybackInv, PlaybackType, Thorough,
       Playback!NeedInitialize, Playback!ReadPosition, Playback!Playback
  <2>2. Leads(Playback!Way(position, shared), shared)
    BY <2>1, WayOn DEF PlaybackInv
  <2>3. position' = position /\ target' = shared /\ ppc' = "query"
    BY <1>5 DEF Playback!ReadPosition, Playback!Playback
  <2>4. Leads(Playback!Way(position, target), target)'
    BY <2>2, <2>3 DEF Leads, Playback!Way, Playback!ReadPosition, Playback!Published,
       Playback!Due, Playback!SinceKey, Playback!SinceJump, Playback!MayFollow, Playback!LastMs
  <2>5. QED
    BY <1>1, <1>2, <1>3, <2>3, <2>4 DEF PlaybackInv, Thorough
<1>6. QED
  BY <1>4, <1>5

LEMMA StopOrClearStep ==
  ASSUME PlaybackInv, Playback!StopPlayback \/ Playback!RequestClear
  PROVE  PlaybackInv'
<1>1. PlaybackType'
  BY DEF PlaybackInv, PlaybackType, Playback!StopPlayback, Playback!RequestClear,
     Playback!Playback, Playback!loop
<1>2. InOrder'
  BY PublishedLeft DEF PlaybackInv, Thorough, Playback!StopPlayback, Playback!RequestClear
<1>3. ppc' \in {"returned", "find"} /\ todo' = {}
  BY DEF PlaybackInv, Thorough, Playback!StopPlayback, Playback!RequestClear,
     Playback!Playback
<1>4. QED
  BY <1>1, <1>2, <1>3 DEF PlaybackInv, Thorough

LEMMA FindSegmentsStep ==
  ASSUME PlaybackInv, Playback!FindSegments
  PROVE  PlaybackInv'
<1>1. segments' \subseteq SUBSET DOMAIN log /\ target \in 0..MaxMs
  BY DEF PlaybackInv, PlaybackType, Playback!FindSegments, Playback!Segments, Playback!Segment
<1>2. /\ since' = <<>> /\ since' \in Seq(DOMAIN log) /\ DOMAIN since' = {}
      /\ origin' = target /\ target' = target /\ ppc' = "segments" /\ todo' = {}
      /\ segments' = Playback!Segments(target)
  BY DEF PlaybackInv, Thorough, Playback!FindSegments, Playback!Playback
<1>3. PlaybackType'
  BY <1>1, <1>2 DEF PlaybackInv, PlaybackType, Playback!FindSegments, Playback!Playback,
     Playback!loop
<1>4. Playback!Published' = {} /\ InOrder'
  BY <1>2 DEF Playback!Published, InOrder
<1>5. ASSUME NEW i \in DOMAIN log
      PROVE  i \in BeforeJump' <=> \E g \in Playback!Segments(target) : i \in g
  <2>1. i \in BeforeJump' <=>
          /\ Playback!KeyFrames(log[i].topic, target) # {}
          /\ i >= Playback!Latest(Playback!KeyFrames(log[i].topic, target))
          /\ log[i].at < target * UsPerMs
    BY <1>2 DEF BeforeJump, Playback!SinceKey
  <2>2. Playback!KeyFrames(log[i].topic, target) # {} => log[i].topic \in Videos
    BY DEF Playback!KeyFrames
  <2>3. Playback!KeyFrames(log[i].topic, target) # {} =>
          Playback!Segment(log[i].topic, target) \in Playback!Segments(target)
    BY <2>2 DEF Playback!Segments
  <2>4. i \in BeforeJump' => i \in Playback!Segment(log[i].topic, target)
    BY <2>1 DEF Playback!Segment
  <2>5. ASSUME NEW t \in Videos, Playback!KeyFrames(t, target) # {},
               i \in Playback!Segment(t, target)
        PROVE  i \in BeforeJump'
    BY <2>1, <2>5 DEF Playback!Segment
  <2>6. QED
    BY <2>1, <2>3, <2>4, <2>5 DEF Playback!Segments
<1>6. BeforeJump' \subseteq DOMAIN log
  BY DEF BeforeJump
<1>7. BeforeJump' = UNION segments'
  BY <1>1, <1>2, <1>5, <1>6
<1>8. \A g \in Playback!Segments(target) : \A i \in g :
        g = Playback!Segment(log[i].topic, target)
  BY DEF Playback!Segments, Playback!Segment
<1>9. OneByOne'
  BY <1>2, <1>4, <1>7, <1>8 DEF OneByOne
<1>10. QED
  BY <1>2, <1>3, <1>4, <1>9 DEF PlaybackInv, Thorough

LEMMA NextSegmentStep ==
  ASSUME PlaybackInv, Playback!NextSegment
  PROVE  PlaybackInv'
<1>1. PlaybackType'
  BY DEF PlaybackInv, PlaybackType, Playback!NextSegment, Playback!Playback, Playback!loop
<1>2. /\ InOrder' /\ Playback!Published' = Playback!Published /\ BeforeJump' = BeforeJump
      /\ \A i, j : Playback!MayFollow(j, i)' = Playback!MayFollow(j, i)
  BY PublishedLeft DEF PlaybackInv, Thorough, Playback!NextSegment
<1>3. OneByOne /\ origin = target /\ ppc' = "segments" /\ origin' = target'
  BY DEF PlaybackInv, Thorough, Playback!NextSegment, Playback!Playback
<1>4. todo = {} /\ todo' \in segments /\ segments' = segments \ {todo'}
  BY DEF Playback!NextSegment
<1>5. UNION segments = todo' \cup UNION segments'
  BY <1>4
<1>6. \A i \in todo', j \in Playback!Published : Playback!MayFollow(j, i)
  BY <1>3, <1>4 DEF OneByOne, Playback!MayFollow
<1>7. OneByOne'
  BY <1>2, <1>3, <1>4, <1>5, <1>6 DEF OneByOne
<1>8. QED
  BY <1>1, <1>2, <1>3, <1>7 DEF PlaybackInv, Thorough

(* A row is published after all it may follow.                             *)
LEMMA RowPublished ==
  ASSUME PlaybackInv, NEW i \in todo, Playback!FirstRow(i), Playback!Request(i)
  PROVE  /\ PlaybackType' /\ todo' = todo \ {i}
         /\ Playback!Published' = Playback!Published \cup {i}
         /\ BeforeJump' = BeforeJump /\ \A ms : Playback!Due(ms)' = Playback!Due(ms)
         /\ \A k, j : Playback!MayFollow(j, k)' = Playback!MayFollow(j, k)
         /\ \A k \in todo \ {i} : Playback!MayFollow(i, k)
         /\ (\A j \in Playback!Published : Playback!MayFollow(j, i)) => InOrder'
<1>1. /\ i \in DOMAIN log /\ since \in Seq(DOMAIN log) /\ since' = Append(since, i)
      /\ todo' = todo \ {i} /\ origin' = origin
      /\ \A j \in todo : log[i].at <= log[j].at
  BY DEF PlaybackInv, PlaybackType, Playback!FirstRow, Playback!Request
<1>2. /\ since' \in Seq(DOMAIN log) /\ Len(since') = Len(since) + 1 /\ Len(since) \in Nat
      /\ \A n \in 1..Len(since) : since'[n] = since[n]
      /\ since'[Len(since) + 1] = i
      /\ DOMAIN since = 1..Len(since) /\ DOMAIN since' = 1..(Len(since) + 1)
  BY <1>1
<1>3. PlaybackType'
  BY <1>1, <1>2 DEF PlaybackInv, PlaybackType, Playback!FirstRow, Playback!Playback,
     Playback!loop
<1>4. Playback!Published' = Playback!Published \cup {i}
  <2>1. ASSUME NEW x PROVE x \in Playback!Published' <=> x \in Playback!Published \/ x = i
    <3>1. \A n \in 1..(Len(since) + 1) : n \in 1..Len(since) \/ n = Len(since) + 1
      BY <1>2
    <3>2. Len(since) + 1 \in 1..(Len(since) + 1)
          /\ 1..Len(since) \subseteq 1..(Len(since) + 1)
      BY <1>2
    <3>3. QED
      BY <1>2, <3>1, <3>2 DEF Playback!Published
  <2>2. QED
    BY <2>1
<1>5. /\ BeforeJump' = BeforeJump /\ \A ms : Playback!Due(ms)' = Playback!Due(ms)
      /\ \A k, j : Playback!MayFollow(j, k)' = Playback!MayFollow(j, k)
  BY <1>1 DEF BeforeJump, Playback!Due, Playback!SinceKey, Playback!SinceJump,
     Playback!MayFollow, Playback!LastMs
<1>6. \A k \in todo \ {i} : Playback!MayFollow(i, k)
  BY <1>1 DEF Playback!MayFollow
<1>7. ASSUME \A j \in Playback!Published : Playback!MayFollow(j, i) PROVE InOrder'
  <2>1. ASSUME NEW n \in 1..(Len(since) + 1), NEW m \in 1..(n - 1)
        PROVE  Playback!MayFollow(since'[m], since'[n])
    <3>1. m \in 1..Len(since) /\ since'[m] = since[m]
      BY <1>2
    <3>2. CASE n \in 1..Len(since)
      BY <1>2, <3>1, <3>2 DEF PlaybackInv, Thorough, InOrder
    <3>3. CASE n = Len(since) + 1
      BY <1>2, <1>7, <3>1, <3>3 DEF Playback!Published
    <3>4. QED
      BY <1>2, <3>2, <3>3
  <2>2. QED
    BY <1>2, <1>5, <2>1 DEF InOrder
<1>8. QED
  BY <1>1, <1>3, <1>4, <1>5, <1>6, <1>7

LEMMA RequestStep ==
  ASSUME PlaybackInv, NEW i \in todo, Playback!FirstRow(i), Playback!Request(i)
  PROVE  PlaybackInv'
<1>1. /\ PlaybackType' /\ todo' = todo \ {i}
      /\ Playback!Published' = Playback!Published \cup {i}
      /\ BeforeJump' = BeforeJump /\ \A ms : Playback!Due(ms)' = Playback!Due(ms)
      /\ \A k, j : Playback!MayFollow(j, k)' = Playback!MayFollow(j, k)
      /\ \A k \in todo \ {i} : Playback!MayFollow(i, k)
      /\ (\A j \in Playback!Published : Playback!MayFollow(j, i)) => InOrder'
  BY RowPublished
<1>2. ppc' = ppc /\ UNCHANGED <<position, target, segments, origin>>
  BY DEF Playback!FirstRow, Playback!Playback
<1>3. CASE ppc = "segments"
  <2>1. OneByOne /\ origin = target
    BY <1>3 DEF PlaybackInv, Thorough
  <2>2. OneByOne'
    BY <1>1, <1>2, <2>1 DEF OneByOne
  <2>3. InOrder'
    BY <1>1, <2>1 DEF OneByOne
  <2>4. QED
    BY <1>1, <1>2, <1>3, <2>1, <2>2, <2>3 DEF PlaybackInv, Thorough
<1>4. CASE ppc = "play"
  <2>1. Leads(todo, target)
    BY <1>4 DEF PlaybackInv, Thorough
  <2>2. Leads(todo, target)'
    BY <1>1, <1>2, <2>1 DEF Leads
  <2>3. InOrder'
    BY <1>1, <2>1 DEF Leads
  <2>4. QED
    BY <1>1, <1>2, <1>4, <2>2, <2>3 DEF PlaybackInv, Thorough
<1>5. QED
  BY <1>3, <1>4 DEF Playback!FirstRow

LEMMA PublishRowStep ==
  ASSUME PlaybackInv, NEW i \in todo, Playback!PublishRow(i)
  PROVE  PlaybackInv'
<1>1. CASE Playback!Request(i)
  BY <1>1, RequestStep DEF Playback!PublishRow
<1>2. CASE UNCHANGED <<since, todo>>
  <2>1. /\ UNCHANGED <<ppc, position, target, segments, todo, since, origin>>
        /\ UNCHANGED <<seekbar, shared>>
    BY <1>2 DEF Playback!PublishRow, Playback!FirstRow, Playback!Playback, Playback!loop
  <2>2. QED
    BY <2>1, ThreadLeftAlone DEF PlaybackInv, PlaybackType
<1>3. QED
  BY <1>1, <1>2 DEF Playback!PublishRow

LEMMA StartHereStep ==
  ASSUME PlaybackInv, Playback!StartHere
  PROVE  PlaybackInv'
<1>1. /\ OneByOne /\ origin = target /\ todo = {} /\ segments = {}
      /\ position' = Playback!BeforeTarget /\ target' = target /\ ppc' = "query"
  BY DEF PlaybackInv, Thorough, Playback!StartHere, Playback!Playback
<1>2. Playback!Published = BeforeJump
  BY <1>1 DEF OneByOne
<1>3. Leads(Playback!Way(Playback!BeforeTarget, target), target)
  BY <1>1, <1>2, WayFromJump DEF PlaybackInv
<1>4. Playback!BeforeTarget \in Nat
  BY PlaybackAssumption DEF Playback!BeforeTarget, PlaybackInv, PlaybackType
<1>5. PlaybackType'
  BY <1>1, <1>4 DEF PlaybackInv, PlaybackType, Playback!StartHere, Playback!Playback,
     Playback!loop
<1>6. UNCHANGED <<since, origin>> /\ InOrder'
  BY PublishedLeft DEF PlaybackInv, Thorough, Playback!StartHere
<1>7. Leads(Playback!Way(position, target), target)'
  BY <1>1, <1>3, <1>6 DEF Leads, Playback!Way, Playback!Published,
     Playback!Due, Playback!SinceKey, Playback!SinceJump, Playback!MayFollow, Playback!LastMs
<1>8. QED
  BY <1>1, <1>5, <1>6, <1>7 DEF PlaybackInv, Thorough

LEMMA QueryStep ==
  ASSUME PlaybackInv, Playback!Query
  PROVE  PlaybackInv'
<1>1. /\ Leads(Playback!Way(position, target), target) /\ todo' = Playback!Way(position, target)
      /\ target' = target /\ ppc' = "play" /\ UNCHANGED <<since, origin>>
  BY DEF PlaybackInv, Thorough, Playback!Query, Playback!Playback
<1>2. PlaybackType'
  BY <1>1 DEF PlaybackInv, PlaybackType, Playback!Query, Playback!Playback, Playback!loop,
     Playback!Way
<1>3. InOrder'
  BY <1>1, PublishedLeft DEF PlaybackInv, Thorough
<1>4. Leads(todo, target)'
  BY <1>1 DEF Leads, Playback!Published, Playback!Due, Playback!SinceKey,
     Playback!SinceJump, Playback!MayFollow, Playback!LastMs
<1>5. QED
  BY <1>1, <1>2, <1>3, <1>4 DEF PlaybackInv, Thorough

LEMMA EndTurnStep ==
  ASSUME PlaybackInv, Playback!EndTurn
  PROVE  PlaybackInv'
<1>1. /\ Leads(todo, target) /\ todo = {} /\ todo' = {} /\ position' = target
      /\ ppc' = "read" /\ UNCHANGED <<since, origin>>
  BY DEF PlaybackInv, Thorough, Playback!EndTurn, Playback!Playback
<1>2. PlaybackType'
  BY <1>1, PlaybackAssumption DEF PlaybackInv, PlaybackType, Playback!EndTurn,
     Playback!Playback, Playback!loop
<1>3. InOrder'
  BY <1>1, PublishedLeft DEF PlaybackInv, Thorough
<1>4. Leads({}, position)'
  BY <1>1 DEF Leads, Playback!Published, Playback!Due, Playback!SinceKey,
     Playback!SinceJump, Playback!MayFollow, Playback!LastMs
<1>5. QED
  BY <1>1, <1>2, <1>3, <1>4 DEF PlaybackInv, Thorough

LEMMA TurnStep ==
  ASSUME PlaybackInv, Playback!Turn
  PROVE  PlaybackInv'
BY ReadPositionStep, StopOrClearStep, FindSegmentsStep, NextSegmentStep, PublishRowStep,
   StartHereStep, QueryStep, EndTurnStep DEF Playback!Turn

LEMMA PlaybackAlways == StreamsSpec => []PlaybackInv
<1>1. StreamsInit => PlaybackInv
  BY PlaybackStarts DEF StreamsInit
<1>2. PlaybackInv /\ [StreamsNext]_streams => PlaybackInv'
  <2>1. ASSUME PlaybackInv, UNCHANGED playback PROVE PlaybackInv'
    BY <2>1, ThreadLeftAlone DEF playback, PlaybackInv, PlaybackType
  <2>2. ASSUME PlaybackInv, Ignored \/ Watch PROVE PlaybackInv'
    BY <2>2, UserStep DEF Ignored, Watch
  <2>3. QED
    BY <2>1, <2>2, UserStep, TurnStep DEF StreamsNext, OfServer, Lose, Receive, OfClient,
       OfPlayback, streams
<1>3. QED
  BY <1>1, <1>2, PTL DEF StreamsSpec

(* Whatever is recorded, and wherever the user jumps while the playback    *)
(* thread publishes: nothing of the recording is left out on the way, and  *)
(* nothing of a topic comes twice or out of order but for the last         *)
(* millisecond before a jump's target (log_viewer.cpp:243-296).            *)
THEOREM PlaybackIsComplete == StreamsSpec => []PlayedInFull
<1>1. PlaybackInv => PlayedInFull
  BY DEF PlaybackInv, Thorough, Leads, InOrder, PlayedInFull, Playback!PlayedInFull
<1>2. QED
  BY <1>1, PlaybackAlways, PTL

(* However far the user jumps, in unsigned integers, and whatever adding   *)
(* up floats makes of the position, the one the playback thread is given   *)
(* is one of the log (seekbar.cpp:27-110).                                 *)
THEOREM PositionStays == StreamsSpec => []PositionInLog
<1>1. PlaybackInv => PositionInLog
  BY PlaybackAssumption DEF PlaybackInv, PlaybackType, PositionInLog, Playback!PositionInLog
<1>2. QED
  BY <1>1, PlaybackAlways, PTL

-----------------------------------------------------------------------------
(* The server.                                                             *)
AllUids == cameras \X Kinds
OfVideo(uid) == uid[2] \in Video
MotionUids == cameras \X (Kinds \ Video)
FrameAt == [uid : AllUids, at : Nat, n : Nat]
Sample == [at : Nat, n : Nat]
VideoPacket == [uid : AllUids, kind : Video, run : Nat, id : Nat, key : BOOLEAN,
                flag : BOOLEAN]
MotionPacket == [uid : AllUids, kind : Kinds \ Video, run : Nat, id : Nat,
                 samples : Seq(Sample) \ {<<>>}]
Counts == [taken : Nat, out : Nat]

ServerType ==
  /\ focus \subseteq Kinds /\ cameras \in SUBSET UNION Setups /\ IsFiniteSet(cameras)
  /\ run \in Nat \ {0} /\ now \in Nat
  /\ ring \in [Server!Rings -> Seq(FrameAt)]
  /\ encoder \in [AllUids -> [seq : Nat, last : Nat]]
  /\ batch \in [MotionUids -> Seq(Sample)]
  /\ count \in [MotionUids -> Counts]
  /\ sent \in Seq(VideoPacket \cup MotionPacket)
  /\ \A r \in Server!Rings : \A n \in DOMAIN ring[r] :
       Server!RingOf(ring[r][n].uid[2]) = r
  /\ \A n \in DOMAIN sent : sent[n].kind = sent[n].uid[2] /\ sent[n].run <= run

LEMMA RingKinds ==
  /\ Server!Rings = {"color", "depth", "motion"} /\ Server!Kinds = Kinds
  /\ Server!Video = Video
  /\ \A k \in Kinds : /\ Server!RingOf(k) \in Server!Rings
                      /\ Server!RingOf(k) = "motion" <=> k \notin Video
                      /\ \A r \in Video : Server!RingOf(k) = r <=> k = r
BY DEF Server!Rings, Server!Kinds, Kinds, Server!Video, Video, Server!RingOf

LEMMA ServerStarts ==
  ASSUME StreamsInit PROVE ServerType
<1>1. cameras \in SUBSET UNION Setups /\ IsFiniteSet(cameras)
  <2>1. PICK plugged \in Setups : cameras \subseteq plugged
    BY DEF StreamsInit, Server!Init, Server!Configured
  <2>2. QED
    BY <2>1, ServerAssumption, FS_Subset
<1>2. Server!Uids(Server!Kinds) = AllUids
  BY RingKinds DEF Server!Uids, AllUids
<1>3. encoder \in [AllUids -> [seq : Nat, last : Nat]]
  BY <1>2 DEF StreamsInit, Server!Init, Server!NewEncoders
<1>4. batch \in [MotionUids -> Seq(Sample)] /\ count \in [MotionUids -> Counts]
  BY RingKinds DEF StreamsInit, Server!Init, Server!NoSamples, Server!NoneCounted,
     Server!Uids, MotionUids, Counts
<1>5. ring \in [Server!Rings -> Seq(FrameAt)] /\ \A r \in Server!Rings : DOMAIN ring[r] = {}
  BY DEF StreamsInit, Server!Init
<1>6. sent \in Seq(VideoPacket \cup MotionPacket) /\ DOMAIN sent = {}
  BY DEF StreamsInit, Server!Init
<1>7. QED
  BY <1>1, <1>3, <1>4, <1>5, <1>6 DEF ServerType, StreamsInit, Server!Init

LEMMA Shares ==
  /\ \A a \in Nat, n \in Nat : n > 0 => a \div n \in Nat
  /\ \A a \in Nat, n \in Nat : a * n \in Nat /\ a + n \in Nat
<1>1. ASSUME NEW a \in Nat, NEW n \in Nat, n > 0 PROVE a \div n \in Nat
  BY <1>1
<1>2. QED
  BY <1>1

LEMMA SameCardinality == \A S : Server!Cardinality(S) = Cardinality(S)
BY DEF Server!Cardinality, Cardinality, Server!IsFiniteSet, IsFiniteSet

(* The phases are numbers, for there are cameras.                          *)
LEMMA PhaseType ==
  ASSUME ServerType, NEW uid \in AllUids
  PROVE  Server!Phase(uid) \in Nat
<1>1. Cardinality(cameras) \in Nat /\ Cardinality(cameras) > 0
  <2>1. cameras # {} /\ IsFiniteSet(cameras)
    BY DEF ServerType, AllUids
  <2>2. Cardinality(cameras) \in Nat
    BY <2>1, FS_CardinalityType
  <2>3. Cardinality(cameras) # 0
    BY <2>1, FS_EmptySet
  <2>4. QED
    BY <2>2, <2>3
<1>2. Server!Rank(uid) \in Nat
  <2>1. PICK before : before = { c \in cameras : c < uid[1] }
    OBVIOUS
  <2>2. IsFiniteSet(before)
    BY <2>1, FS_Subset DEF ServerType
  <2>3. Cardinality(before) \in Nat
    BY <2>2, FS_CardinalityType
  <2>4. QED
    BY <2>1, <2>3, SameCardinality DEF Server!Rank
<1>3. Period \in Nat /\ 2 \in Nat /\ 2 > 0 /\ 0 \in Nat
  BY ServerAssumption
<1>4. Period \div Cardinality(cameras) \in Nat
  BY <1>1, <1>3, Shares, Zenon
<1>5. Server!ColorShare \in Nat
  BY <1>3, <1>4, SameCardinality DEF Server!ColorShare
<1>6. Server!ColorShare \div 2 \in Nat
  BY <1>3, <1>5, Shares, Zenon
<1>7. (Server!Rank(uid) * Period) \div Cardinality(cameras) \in Nat
  BY <1>1, <1>2, <1>3, Shares, Zenon
<1>8. PICK offset \in Nat :
        offset = IF Server!kind_of(uid) = "depth" THEN Server!ColorShare \div 2 ELSE 0
  BY <1>3, <1>6
<1>9. Server!Phase(uid)
        = ((Server!Rank(uid) * Period) \div Cardinality(cameras)) + offset
  BY <1>8, SameCardinality, Zenon DEF Server!Phase
<1>10. QED
  BY <1>7, <1>8, <1>9, Shares, Zenon

(* Less than a period has gone by as long as no multiple of it is passed.  *)
LEMMA NoneMissed ==
  ASSUME NEW p \in Nat, p > 0, NEW a \in Nat, NEW b \in Nat, ~(a \div p > b \div p)
  PROVE  a - b < p
<1>1. /\ a \div p \in Nat /\ b \div p \in Nat
      /\ a % p \in 0..(p - 1) /\ b % p \in 0..(p - 1)
  OBVIOUS
<1>2. a = p * (a \div p) + (a % p) /\ b = p * (b \div p) + (b % p)
  OBVIOUS
<1>3. \A x, y \in Nat : x <= y => p * x <= p * y /\ p * x \in Nat /\ p * y \in Nat
  OBVIOUS
<1>4. p * (a \div p) <= p * (b \div p) /\ p * (a \div p) \in Nat /\ p * (b \div p) \in Nat
  BY <1>1, <1>3
<1>5. QED
  BY <1>1, <1>2, <1>4

(* A multiple that is passed is the largest one reached.                   *)
LEMMA OnePassed ==
  ASSUME NEW p \in Nat, p > 0, NEW a \in Nat, NEW b \in Nat, a \div p > b \div p
  PROVE  \E m \in Nat : m % p = 0 /\ b < m /\ m <= a
<1>1. /\ a \div p \in Nat /\ b \div p \in Nat
      /\ a % p \in 0..(p - 1) /\ b % p \in 0..(p - 1)
  OBVIOUS
<1>2. a = p * (a \div p) + (a % p) /\ b = p * (b \div p) + (b % p)
  OBVIOUS
<1>3. \A x, y \in Nat : x < y => p * x + p <= p * y /\ p * x \in Nat /\ p * y \in Nat
  OBVIOUS
<1>4. PICK k \in Nat, m \in Nat : k = a \div p /\ m = p * k
  BY <1>1
<1>5. b < m /\ m <= a
  BY <1>1, <1>2, <1>3, <1>4
<1>6. m % p = 0
  <2>1. PICK q \in Nat, r \in 0..(p - 1) : q = m \div p /\ r = m % p /\ m = p * q + r
    <3>1. m \div p \in Nat /\ m % p \in 0..(p - 1) /\ m = p * (m \div p) + (m % p)
      OBVIOUS
    <3>2. QED
      BY <3>1
  <2>2. ~(q < k) /\ ~(k < q)
    BY <1>3, <1>4, <2>1
  <2>3. q = k
    BY <2>2
  <2>4. p * k \in Nat /\ r = 0
    BY <1>4, <2>1, <2>3
  <2>5. QED
    BY <2>1, <2>4
<1>7. QED
  BY <1>5, <1>6

LEMMA ShouldActIf ==
  ASSUME ServerType, NEW uid \in AllUids
  PROVE  /\ Server!should_act(uid) \in BOOLEAN
         /\ ~Server!should_act(uid) => now - encoder[uid].last < Period
         /\ Server!should_act(uid) =>
              \E t \in (encoder[uid].last + 1)..now : Server!DueAt(uid, t)
<1>1. /\ now \in Nat /\ encoder[uid].last \in Nat /\ Server!Phase(uid) \in Nat
      /\ Period \in Nat /\ Period > 0
  BY PhaseType, ServerAssumption DEF ServerType
<1>2. PICK a \in Nat, b \in Nat :
        a = now + Server!Phase(uid) /\ b = encoder[uid].last + Server!Phase(uid)
  BY <1>1
<1>3. Server!should_act(uid) <=> a \div Period > b \div Period
  BY <1>2 DEF Server!should_act
<1>4. a \div Period \in Nat /\ b \div Period \in Nat
  BY <1>1
<1>5. Server!should_act(uid) \in BOOLEAN
  BY <1>2, <1>4 DEF Server!should_act
<1>6. ~Server!should_act(uid) => a - b < Period
  BY <1>1, <1>3, NoneMissed
<1>7. ASSUME Server!should_act(uid)
      PROVE  \E t \in (encoder[uid].last + 1)..now : Server!DueAt(uid, t)
  <2>1. PICK m \in Nat : m % Period = 0 /\ b < m /\ m <= a
    BY <1>1, <1>3, <1>7, OnePassed
  <2>2. PICK t \in (encoder[uid].last + 1)..now : t + Server!Phase(uid) = m
    <3>1. m - Server!Phase(uid) \in (encoder[uid].last + 1)..now
      BY <1>1, <1>2, <2>1
    <3>2. (m - Server!Phase(uid)) + Server!Phase(uid) = m
      BY <1>1
    <3>3. QED
      BY <3>1, <3>2
  <2>3. Server!DueAt(uid, t)
    BY <2>1, <2>2, Zenon DEF Server!DueAt
  <2>4. QED
    BY <2>3
<1>8. QED
  BY <1>1, <1>2, <1>5, <1>6, <1>7

(* A queue at its ends.                                                    *)
LEMMA QueueGrows ==
  ASSUME NEW S, NEW q \in Seq(S), NEW x \in S
  PROVE  /\ Append(q, x) \in Seq(S)
         /\ \A n \in DOMAIN Append(q, x) :
              \/ n \in DOMAIN q /\ Append(q, x)[n] = q[n]
              \/ n = Len(q) + 1 /\ Append(q, x)[n] = x
         /\ \A n \in DOMAIN q : n \in Nat /\ n < Len(q) + 1
         /\ DOMAIN q \subseteq DOMAIN Append(q, x) /\ Len(q) + 1 \in DOMAIN Append(q, x)
OBVIOUS

LEMMA QueueShrinks ==
  ASSUME NEW S, NEW q \in Seq(S), q # <<>>
  PROVE  /\ Tail(q) \in Seq(S) /\ Head(q) = q[1] /\ Head(q) \in S /\ 1 \in DOMAIN q
         /\ \A n \in DOMAIN Tail(q) :
              n \in Nat /\ n + 1 \in DOMAIN q /\ Tail(q)[n] = q[n + 1] /\ 1 < n + 1
         /\ \A n \in DOMAIN q : n = 1 \/ n - 1 \in DOMAIN Tail(q)
OBVIOUS

LEMMA QuietStep ==
  ASSUME ServerType, now' \in Nat,
         UNCHANGED <<focus, cameras, run, ring, encoder, batch, count, sent>>
  PROVE  ServerType'
BY DEF ServerType, AllUids, MotionUids, FrameAt, VideoPacket, MotionPacket

(* What leaves, ring, encoders and packets in transit alone.               *)
Quiet == Server!Tick \/ Server!Lifecycle \/ Server!CodecDropsFrame \/ Server!Interrupt
  \/ \E r \in Server!Rings : Server!LoopTest(r) \/ Server!ReadStopped(r)

LEMMA QuietLeaves ==
  ASSUME ServerType, Quiet
  PROVE  now' \in Nat /\ UNCHANGED <<cameras, run, ring, encoder, batch, count, sent>>
BY DEF ServerType, Quiet, Server!Tick, Server!Lifecycle, Server!OpenSensors,
   Server!StartSensors, Server!RegisterCallback, Server!StartThreads, Server!Join,
   Server!Main, Server!CodecDropsFrame, Server!Interrupt, Server!LoopTest,
   Server!ReadStopped, Server!Thread, Server!process, Server!encoders, Server!flags

LEMMA RestartType ==
  ASSUME ServerType, UNCHANGED focus, Server!Restart
  PROVE  ServerType' /\ run' = run + 1 /\ sent' = sent /\ cameras' = cameras
         /\ batch' \in [MotionUids -> {<<>>}]
         /\ count' \in [MotionUids -> [taken : {0}, out : {0}]]
         /\ ring' = [r \in Server!Rings |-> <<>>]
<1>1. /\ UNCHANGED <<cameras, sent>> /\ run' = run + 1 /\ now' = 0
      /\ ring' = [r \in Server!Rings |-> <<>>]
  BY DEF Server!Restart
<1>2. /\ Server!Uids(Server!Kinds) = AllUids /\ AllUids' = AllUids
      /\ MotionUids' = MotionUids
  BY <1>1, RingKinds DEF Server!Uids, AllUids, MotionUids
<1>3. encoder' \in [AllUids -> [seq : Nat, last : Nat]]
  BY <1>2 DEF Server!Restart, Server!NewEncoders
<1>4. /\ batch' \in [MotionUids -> Seq(Sample)] /\ batch' \in [MotionUids -> {<<>>}]
      /\ count' \in [MotionUids -> Counts]
      /\ count' \in [MotionUids -> [taken : {0}, out : {0}]]
  BY RingKinds DEF Server!Restart, Server!NoSamples, Server!NoneCounted, Server!Uids,
     MotionUids, Counts
<1>5. /\ ring' \in [Server!Rings -> Seq(FrameAt)]
      /\ \A r \in Server!Rings : DOMAIN ring'[r] = {}
  BY <1>1
<1>6. /\ run' \in Nat \ {0} /\ now' \in Nat
      /\ \A n \in DOMAIN sent : sent[n].kind = sent[n].uid[2] /\ sent[n].run <= run'
  <2>1. \A n \in DOMAIN sent : sent[n].run \in Nat
    BY DEF ServerType, VideoPacket, MotionPacket
  <2>2. QED
    BY <1>1, <2>1 DEF ServerType
<1>7. FrameAt' = FrameAt /\ VideoPacket' = VideoPacket /\ MotionPacket' = MotionPacket
  BY <1>2 DEF FrameAt, VideoPacket, MotionPacket
<1>8. QED
  BY <1>1, <1>2, <1>3, <1>4, <1>5, <1>6, <1>7 DEF ServerType

(* A frame the ring buffer of its stream has room for; a motion sample is  *)
(* counted.                                                                *)
Joins(f, uid) ==
  /\ f.uid = uid
  /\ ring' = [ring EXCEPT ![Server!RingOf(uid[2])] = Append(@, f)]
  /\ uid \in MotionUids =>
       /\ f.n = count[uid].taken + 1
       /\ count' = [count EXCEPT ![uid].taken = @ + 1]
  /\ uid \notin MotionUids => count' = count

LEMMA FrameArrivesType ==
  ASSUME ServerType, UNCHANGED focus, NEW uid \in Server!Uids(focus), Server!FrameArrives(uid)
  PROVE  /\ ServerType' /\ UNCHANGED <<cameras, run, now, encoder, batch, sent>>
         /\ \/ ring' = ring /\ count' = count
            \/ /\ Server!RingOf(uid[2]) = "motion" <=> uid[2] \notin Video
               /\ uid \in AllUids
               /\ \E f \in FrameAt : Joins(f, uid)
<1>1. uid \in AllUids /\ uid[2] \in Kinds
  BY DEF ServerType, Server!Uids, AllUids
<1>2. PICK r \in Server!Rings : /\ r = Server!RingOf(uid[2])
                                /\ r = "motion" <=> uid[2] \notin Video
  BY <1>1, RingKinds
<1>3. PICK f \in FrameAt : f = [uid |-> uid, at |-> now, n |-> Server!Number(uid)]
  <2>1. Server!Number(uid) \in Nat
    BY <1>1, RingKinds DEF ServerType, Server!Number, Server!kind_of, MotionUids, AllUids,
       Counts
  <2>2. QED
    BY <1>1, <2>1 DEF FrameAt, ServerType
<1>4. UNCHANGED <<focus, cameras, run, now, encoder, batch, sent>>
  BY DEF Server!FrameArrives, Server!encoders
<1>5. CASE ring' = ring /\ count' = count
  BY <1>4, <1>5, QuietStep DEF ServerType
<1>6. CASE ring' = [ring EXCEPT ![r] = Append(@, f)] /\ count' = Server!Counted(uid)
  <2>1. ring[r] \in Seq(FrameAt) /\ ring'[r] = Append(ring[r], f)
    BY <1>6 DEF ServerType
  <2>2. /\ Append(ring[r], f) \in Seq(FrameAt)
        /\ \A n \in DOMAIN Append(ring[r], f) :
              \/ n \in DOMAIN ring[r] /\ Append(ring[r], f)[n] = ring[r][n]
              \/ n = Len(ring[r]) + 1 /\ Append(ring[r], f)[n] = f
    BY <2>1, QueueGrows
  <2>3. ring' \in [Server!Rings -> Seq(FrameAt)]
    BY <1>6, <2>2 DEF ServerType
  <2>4. ASSUME NEW q \in Server!Rings
        PROVE  \A n \in DOMAIN ring'[q] : Server!RingOf(ring'[q][n].uid[2]) = q
    <3>1. CASE q = r
      <4>1. f.uid = uid /\ Server!RingOf(f.uid[2]) = r
        BY <1>2, <1>3
      <4>2. \A n \in DOMAIN ring[r] : Server!RingOf(ring[r][n].uid[2]) = r
        BY DEF ServerType
      <4>3. PICK old, new : old = ring[r] /\ new = ring'[r]
        OBVIOUS
      <4>4. \A n \in DOMAIN new : (n \in DOMAIN old /\ new[n] = old[n]) \/ new[n] = f
        BY <2>1, <2>2, <4>3
      <4>5. \A n \in DOMAIN old : Server!RingOf(old[n].uid[2]) = r
        BY <4>2, <4>3
      <4>6. \A n \in DOMAIN new : Server!RingOf(new[n].uid[2]) = r
        BY <4>1, <4>4, <4>5
      <4>7. QED
        BY <3>1, <4>3, <4>6
    <3>2. CASE q # r
      BY <1>6, <3>2 DEF ServerType
    <3>3. QED
      BY <3>1, <3>2
  <2>5. AllUids' = AllUids /\ MotionUids' = MotionUids
    BY <1>4 DEF AllUids, MotionUids
  <2>6. FrameAt' = FrameAt /\ VideoPacket' = VideoPacket /\ MotionPacket' = MotionPacket
    BY <2>5 DEF FrameAt, VideoPacket, MotionPacket
  <2>7. /\ uid \in MotionUids =>
             /\ f.n = count[uid].taken + 1
             /\ count' = [count EXCEPT ![uid].taken = @ + 1]
        /\ uid \notin MotionUids => count' = count
    <3>1. uid \in MotionUids <=> uid[2] \notin Video
      BY <1>1 DEF MotionUids, AllUids
    <3>2. QED
      BY <1>3, <1>6, <3>1, RingKinds DEF Server!Number, Server!Counted, Server!kind_of
  <2>8. count' \in [MotionUids -> Counts]
    <3>1. CASE uid \in MotionUids
      <4>1. PICK c \in Counts : c = [count[uid] EXCEPT !.taken = @ + 1]
        <5>1. count[uid] \in Counts
          BY <3>1 DEF ServerType
        <5>2. [count[uid] EXCEPT !.taken = count[uid].taken + 1] \in Counts
          BY <5>1 DEF Counts
        <5>3. QED
          BY <5>2
      <4>2. count' = [count EXCEPT ![uid] = c]
        BY <2>7, <3>1, <4>1
      <4>3. QED
        BY <4>2 DEF ServerType
    <3>2. CASE uid \notin MotionUids
      BY <2>7, <3>2 DEF ServerType
    <3>3. QED
      BY <3>1, <3>2
  <2>9. ServerType'
    BY <1>4, <2>3, <2>4, <2>5, <2>6, <2>8 DEF ServerType
  <2>10. Joins(f, uid)
    BY <1>2, <1>3, <1>6, <2>7 DEF Joins
  <2>11. QED
    BY <1>1, <1>2, <1>4, <2>9, <2>10
<1>7. QED
  BY <1>2, <1>3, <1>5, <1>6 DEF Server!FrameArrives, Server!kind_of

LEMMA LeaveType ==
  ASSUME ServerType, UNCHANGED focus, Server!Leave
  PROVE  /\ ServerType' /\ UNCHANGED <<cameras, run, now, ring, encoder, batch, count>>
         /\ sent \in Seq(VideoPacket \cup MotionPacket) /\ sent # <<>> /\ sent' = Tail(sent)
<1>1. /\ UNCHANGED <<cameras, run, now, ring, encoder, batch, count>>
      /\ sent \in Seq(VideoPacket \cup MotionPacket) /\ sent # <<>> /\ sent' = Tail(sent)
  BY DEF ServerType, Server!Leave, Server!process, Server!encoders
<1>2. /\ sent' \in Seq(VideoPacket \cup MotionPacket)
      /\ \A n \in DOMAIN sent' : n + 1 \in DOMAIN sent /\ sent'[n] = sent[n + 1]
  BY <1>1, QueueShrinks
<1>3. \A n \in DOMAIN sent' : sent'[n].kind = sent'[n].uid[2] /\ sent'[n].run <= run
  BY <1>2 DEF ServerType
<1>4. AllUids' = AllUids /\ MotionUids' = MotionUids
  BY <1>1 DEF AllUids, MotionUids
<1>5. FrameAt' = FrameAt /\ VideoPacket' = VideoPacket /\ MotionPacket' = MotionPacket
  BY <1>4 DEF FrameAt, VideoPacket, MotionPacket
<1>6. QED
  BY <1>1, <1>2, <1>3, <1>4, <1>5 DEF ServerType

(* A frame of a ring buffer is of a camera's stream, and of its kind.      *)
LEMMA RingHead ==
  ASSUME ServerType, NEW r \in Server!Rings, ring[r] # <<>>
  PROVE  /\ Head(ring[r]).uid \in AllUids /\ Head(ring[r]).at \in Nat
         /\ Head(ring[r]).uid[2] \in Kinds
         /\ r = "motion" <=> Head(ring[r]).uid[2] \notin Video
         /\ r \in Video => Head(ring[r]).uid[2] = r
<1>1. ring[r] \in Seq(FrameAt)
  BY DEF ServerType
<1>2. Head(ring[r]) \in FrameAt /\ 1 \in DOMAIN ring[r] /\ Head(ring[r]) = ring[r][1]
  BY <1>1, QueueShrinks
<1>3. Server!RingOf(Head(ring[r]).uid[2]) = r
  BY <1>2 DEF ServerType
<1>4. Head(ring[r]).uid \in AllUids /\ Head(ring[r]).at \in Nat
  BY <1>2 DEF FrameAt
<1>5. Head(ring[r]).uid[2] \in Kinds
  BY <1>4 DEF AllUids
<1>6. QED
  BY <1>3, <1>4, <1>5, RingKinds

(* A frame is taken from its buffer.                                       *)
LEMMA RingShrinks ==
  ASSUME ServerType, NEW r \in Server!Rings, ring[r] # <<>>,
         ring' = [ring EXCEPT ![r] = Tail(@)], cameras' = cameras
  PROVE  /\ ring' \in [Server!Rings -> Seq(FrameAt)]
         /\ \A q \in Server!Rings : \A n \in DOMAIN ring'[q] :
              Server!RingOf(ring'[q][n].uid[2]) = q
         /\ FrameAt' = FrameAt
<1>1. ring[r] \in Seq(FrameAt) /\ ring'[r] = Tail(ring[r])
  BY DEF ServerType
<1>2. /\ ring'[r] \in Seq(FrameAt)
      /\ \A n \in DOMAIN ring'[r] : n + 1 \in DOMAIN ring[r] /\ ring'[r][n] = ring[r][n + 1]
  <2>1. PICK old, new, S : old = ring[r] /\ new = ring'[r] /\ S = FrameAt
    OBVIOUS
  <2>2. old \in Seq(S) /\ old # <<>> /\ new = Tail(old)
    BY <1>1, <2>1
  <2>3. /\ new \in Seq(S)
        /\ \A n \in DOMAIN new : n + 1 \in DOMAIN old /\ new[n] = old[n + 1]
    BY <2>2, QueueShrinks
  <2>4. QED
    BY <2>1, <2>3
<1>3. ring' \in [Server!Rings -> Seq(FrameAt)]
  BY <1>2 DEF ServerType
<1>4. ASSUME NEW q \in Server!Rings
      PROVE  \A n \in DOMAIN ring'[q] : Server!RingOf(ring'[q][n].uid[2]) = q
  BY <1>2 DEF ServerType
<1>5. QED
  BY <1>3, <1>4 DEF FrameAt, AllUids

LEMMA EncodeType ==
  ASSUME ServerType, UNCHANGED focus, NEW r, Server!Encode(r)
  PROVE  /\ ServerType' /\ UNCHANGED <<cameras, run, now, batch, count>> /\ r \in Video
         /\ ring[r] # <<>> /\ ring' = [ring EXCEPT ![r] = Tail(@)]
         /\ LET uid == Head(ring[r]).uid IN
            /\ encoder' =
                 [encoder EXCEPT ![uid].seq = @ + 1,
                                 ![uid].last = IF Server!should_act(uid) THEN now ELSE @]
            /\ \E p \in VideoPacket :
                 /\ sent' = Append(sent, p)
                 /\ p.uid = uid /\ p.kind = r /\ p.run = run /\ p.id = encoder[uid].seq
                 /\ p.flag => p.key
<1>1. /\ r \in Video /\ ring[r] # <<>> /\ ring' = [ring EXCEPT ![r] = Tail(@)]
      /\ UNCHANGED <<focus, cameras, run, now, batch, count>>
  BY RingKinds DEF Server!Encode, Server!Thread
<1>2. r \in Server!Rings
  BY <1>1 DEF Video, Server!Rings
<1>3. PICK uid \in AllUids : uid = Head(ring[r]).uid /\ uid[2] = r
  BY <1>1, <1>2, RingHead
<1>4. PICK t \in Nat : t = IF Server!should_act(uid) THEN now ELSE encoder[uid].last
  BY DEF ServerType
<1>5. encoder' = [encoder EXCEPT ![uid].seq = @ + 1, ![uid].last = t]
  BY <1>3, <1>4 DEF Server!Encode, Server!NextId
<1>6. PICK key \in BOOLEAN :
        /\ Server!IsKey(uid, Server!should_act(uid), key)
        /\ sent' = Append(sent, [uid |-> uid, kind |-> r, run |-> run,
                                 id |-> encoder[uid].seq, key |-> key,
                                 flag |-> Server!Flag(r, Server!should_act(uid), key)])
  BY <1>3 DEF Server!Encode
<1>7. PICK flag \in BOOLEAN :
        flag = Server!Flag(r, Server!should_act(uid), key) /\ (flag => key)
  <2>1. CASE r = "color" /\ Server!should_act(uid)
    BY <1>6, <2>1 DEF Server!Flag, Server!IsKey
  <2>2. CASE r = "color" /\ ~Server!should_act(uid)
    <3>1. Server!should_act(uid) = FALSE
      BY <1>3, <2>2, ShouldActIf
    <3>2. QED
      BY <2>2, <3>1, Zenon DEF Server!Flag
  <2>3. CASE r # "color"
    BY <1>6, <2>3 DEF Server!Flag, Server!IsKey
  <2>4. QED
    BY <2>1, <2>2, <2>3
<1>8. PICK p : p = [uid |-> uid, kind |-> r, run |-> run, id |-> encoder[uid].seq,
                    key |-> key, flag |-> flag]
  OBVIOUS
<1>9. p \in VideoPacket
  BY <1>1, <1>8 DEF VideoPacket, ServerType
<1>10. p.uid = uid /\ p.kind = r /\ p.run = run /\ p.id = encoder[uid].seq /\ (p.flag => p.key)
  BY <1>7, <1>8
<1>11. sent' = Append(sent, p)
  BY <1>6, <1>7, <1>8
<1>12. /\ sent' \in Seq(VideoPacket \cup MotionPacket)
       /\ \A n \in DOMAIN sent' : \/ n \in DOMAIN sent /\ sent'[n] = sent[n]
                                  \/ sent'[n] = p
  BY <1>9, <1>11, QueueGrows DEF ServerType
<1>13. \A n \in DOMAIN sent' : sent'[n].kind = sent'[n].uid[2] /\ sent'[n].run <= run
  <2>1. p.kind = p.uid[2] /\ p.run <= run
    BY <1>3, <1>10 DEF ServerType
  <2>2. \A n \in DOMAIN sent : sent[n].kind = sent[n].uid[2] /\ sent[n].run <= run
    BY DEF ServerType
  <2>3. QED
    BY <1>12, <2>1, <2>2
<1>14. encoder' \in [AllUids -> [seq : Nat, last : Nat]]
  <2>1. PICK e \in [seq : Nat, last : Nat] :
          e = [encoder[uid] EXCEPT !.seq = @ + 1, !.last = t]
    <3>1. PICK c \in [seq : Nat, last : Nat] : c = [encoder[uid] EXCEPT !.seq = @ + 1]
      <4>1. encoder[uid] \in [seq : Nat, last : Nat]
        BY DEF ServerType
      <4>2. [encoder[uid] EXCEPT !.seq = encoder[uid].seq + 1] \in [seq : Nat, last : Nat]
        BY <4>1
      <4>3. QED
        BY <4>2
    <3>2. PICK e \in [seq : Nat, last : Nat] : e = [c EXCEPT !.last = t]
      OBVIOUS
    <3>3. e = [encoder[uid] EXCEPT !.seq = @ + 1, !.last = t]
      BY <3>1, <3>2
    <3>4. QED
      BY <3>3
  <2>2. encoder' = [encoder EXCEPT ![uid] = e]
    BY <1>5, <2>1 DEF ServerType
  <2>3. QED
    BY <2>2 DEF ServerType
<1>15. /\ ring' \in [Server!Rings -> Seq(FrameAt)]
       /\ \A q \in Server!Rings : \A n \in DOMAIN ring'[q] :
            Server!RingOf(ring'[q][n].uid[2]) = q
  BY <1>1, <1>2, RingShrinks
<1>16. AllUids' = AllUids /\ MotionUids' = MotionUids
  BY <1>1 DEF AllUids, MotionUids
<1>17. FrameAt' = FrameAt /\ VideoPacket' = VideoPacket /\ MotionPacket' = MotionPacket
  BY <1>16 DEF FrameAt, VideoPacket, MotionPacket
<1>18. ServerType'
  BY <1>1, <1>12, <1>13, <1>14, <1>15, <1>16, <1>17 DEF ServerType
<1>19. QED
  <2>1. encoder' = [encoder EXCEPT ![uid].seq = @ + 1,
                      ![uid].last = IF Server!should_act(uid) THEN now ELSE @]
    BY <1>3 DEF Server!Encode, Server!NextId
  <2>2. QED
    BY <1>1, <1>3, <1>9, <1>10, <1>11, <1>18, <2>1

(* A sample joins the batch of its stream, which leaves once it is long.   *)
Sends(f, samples) ==
  /\ \E p \in MotionPacket : /\ sent' = Append(sent, p) /\ p.uid = f.uid /\ p.run = run
                             /\ p.kind = f.uid[2] /\ p.samples = samples
  /\ batch' = [batch EXCEPT ![f.uid] = <<>>]
  /\ count' = [count EXCEPT ![f.uid].out = @ + Len(samples)]
Keeps(f, samples) ==
  /\ UNCHANGED <<sent, encoder, count>>
  /\ batch' = [batch EXCEPT ![f.uid] = samples]

LEMMA CollectType ==
  ASSUME ServerType, UNCHANGED focus, Server!Collect
  PROVE  /\ ServerType' /\ UNCHANGED <<cameras, run, now>>
         /\ ring["motion"] # <<>> /\ ring' = [ring EXCEPT !["motion"] = Tail(@)]
         /\ \A uid \in AllUids : OfVideo(uid) => encoder'[uid] = encoder[uid]
         /\ LET f == Head(ring["motion"])
                samples == Append(batch[f.uid], [at |-> f.at, n |-> f.n]) IN
            Sends(f, samples) \/ Keeps(f, samples)
<1>1. /\ ring["motion"] # <<>> /\ ring' = [ring EXCEPT !["motion"] = Tail(@)]
      /\ UNCHANGED <<focus, cameras, run, now>> /\ "motion" \in Server!Rings
  BY RingKinds DEF Server!Collect, Server!Thread
<1>2. PICK f \in FrameAt : /\ f = Head(ring["motion"]) /\ f.uid \in AllUids /\ f.at \in Nat
                           /\ f.uid[2] \in Kinds \ Video
  <2>1. Head(ring["motion"]) \in FrameAt
    BY <1>1, QueueShrinks DEF ServerType
  <2>2. QED
    BY <1>1, <2>1, RingHead
<1>3. f.uid \in MotionUids /\ f.n \in Nat
  BY <1>2 DEF AllUids, MotionUids, FrameAt
<1>4. PICK samples \in Seq(Sample) :
        samples = Append(batch[f.uid], [at |-> f.at, n |-> f.n]) /\ samples # <<>>
  <2>1. PICK x \in Sample : x = [at |-> f.at, n |-> f.n]
    BY <1>2, <1>3 DEF Sample
  <2>2. PICK b \in Seq(Sample) : b = batch[f.uid]
    BY <1>3 DEF ServerType
  <2>3. Append(b, x) \in Seq(Sample) /\ Append(b, x) # <<>>
    <3>1. Append(b, x) \in Seq(Sample) /\ Len(b) + 1 \in DOMAIN Append(b, x)
      BY QueueGrows
    <3>2. DOMAIN <<>> = {}
      OBVIOUS
    <3>3. QED
      BY <3>1, <3>2
  <2>4. QED
    BY <2>1, <2>2, <2>3
<1>5. PICK p : p = [uid |-> f.uid, kind |-> f.uid[2], run |-> run,
                    id |-> encoder[f.uid].seq, samples |-> samples]
  OBVIOUS
<1>6. encoder[f.uid].seq \in Nat
  BY <1>2 DEF ServerType
<1>7. p \in MotionPacket /\ p.uid = f.uid /\ p.kind = f.uid[2] /\ p.run = run
      /\ p.samples = samples
  BY <1>2, <1>4, <1>5, <1>6 DEF MotionPacket, ServerType
<1>8. \/ /\ sent' = Append(sent, p)
         /\ encoder' = [encoder EXCEPT ![f.uid].seq = @ + 1]
         /\ batch' = [batch EXCEPT ![f.uid] = <<>>]
         /\ count' = [count EXCEPT ![f.uid].out = @ + Len(samples)]
      \/ Keeps(f, samples)
  BY <1>2, <1>4, <1>5, Zenon DEF Server!Collect, Server!ClearBatch, Server!kind_of, Keeps
<1>9. /\ ring' \in [Server!Rings -> Seq(FrameAt)]
      /\ \A q \in Server!Rings : \A n \in DOMAIN ring'[q] :
           Server!RingOf(ring'[q][n].uid[2]) = q
  BY <1>1, RingShrinks
<1>10. AllUids' = AllUids /\ MotionUids' = MotionUids
  BY <1>1 DEF AllUids, MotionUids
<1>11. FrameAt' = FrameAt /\ VideoPacket' = VideoPacket /\ MotionPacket' = MotionPacket
  BY <1>10 DEF FrameAt, VideoPacket, MotionPacket
<1>12. batch' \in [MotionUids -> Seq(Sample)]
  <2>1. PICK b \in Seq(Sample) : batch' = [batch EXCEPT ![f.uid] = b]
    <3>1. <<>> \in Seq(Sample)
      OBVIOUS
    <3>2. QED
      BY <1>8, <3>1 DEF Keeps
  <2>2. batch \in [MotionUids -> Seq(Sample)]
    BY DEF ServerType
  <2>3. QED
    BY <2>1, <2>2
<1>13. CASE Keeps(f, samples)
  <2>1. ServerType'
    BY <1>1, <1>9, <1>10, <1>11, <1>12, <1>13 DEF ServerType, Keeps
  <2>2. QED
    BY <1>1, <1>2, <1>4, <1>13, <2>1 DEF Keeps
<1>14. CASE /\ sent' = Append(sent, p)
            /\ encoder' = [encoder EXCEPT ![f.uid].seq = @ + 1]
            /\ batch' = [batch EXCEPT ![f.uid] = <<>>]
            /\ count' = [count EXCEPT ![f.uid].out = @ + Len(samples)]
  <2>1. PICK e \in [seq : Nat, last : Nat] : e = [encoder[f.uid] EXCEPT !.seq = @ + 1]
    <3>1. encoder[f.uid] \in [seq : Nat, last : Nat]
      BY <1>2 DEF ServerType
    <3>2. [encoder[f.uid] EXCEPT !.seq = encoder[f.uid].seq + 1] \in [seq : Nat, last : Nat]
      BY <3>1
    <3>3. QED
      BY <3>2
  <2>2. encoder' = [encoder EXCEPT ![f.uid] = e]
    BY <1>14, <2>1
  <2>3. encoder' \in [AllUids -> [seq : Nat, last : Nat]]
    BY <2>2 DEF ServerType
  <2>4. \A uid \in AllUids : OfVideo(uid) => encoder'[uid] = encoder[uid]
    BY <1>2, <2>2 DEF ServerType, OfVideo
  <2>5. /\ sent' \in Seq(VideoPacket \cup MotionPacket)
        /\ \A n \in DOMAIN sent' : \/ n \in DOMAIN sent /\ sent'[n] = sent[n]
                                   \/ sent'[n] = p
    BY <1>7, <1>14, QueueGrows DEF ServerType
  <2>6. \A n \in DOMAIN sent' : sent'[n].kind = sent'[n].uid[2] /\ sent'[n].run <= run
    <3>1. p.kind = p.uid[2] /\ p.run <= run
      BY <1>7 DEF ServerType
    <3>2. \A n \in DOMAIN sent : sent[n].kind = sent[n].uid[2] /\ sent[n].run <= run
      BY DEF ServerType
    <3>3. QED
      BY <2>5, <3>1, <3>2
  <2>10. count' \in [MotionUids -> Counts]
    <3>1. PICK c \in Counts : c = [count[f.uid] EXCEPT !.out = @ + Len(samples)]
      <4>1. count[f.uid] \in Counts /\ Len(samples) \in Nat
        BY <1>3 DEF ServerType
      <4>2. [count[f.uid] EXCEPT !.out = count[f.uid].out + Len(samples)] \in Counts
        BY <4>1 DEF Counts
      <4>3. QED
        BY <4>2
    <3>2. count' = [count EXCEPT ![f.uid] = c]
      BY <1>14, <3>1
    <3>3. QED
      BY <3>2 DEF ServerType
  <2>7. ServerType'
    BY <1>1, <1>9, <1>10, <1>11, <1>12, <2>3, <2>5, <2>6, <2>10 DEF ServerType
  <2>8. Sends(f, samples)
    BY <1>7, <1>14 DEF Sends
  <2>9. QED
    BY <1>1, <1>2, <1>4, <2>4, <2>7, <2>8
<1>15. QED
  BY <1>8, <1>13, <1>14

(* The steps of the server, one by one.                                    *)
LEMMA StepCases ==
  ASSUME ServerType, UNCHANGED focus, Server!Step(focus)
  PROVE  \/ Quiet \/ Server!Restart \/ Server!Collect
         \/ \E uid \in Server!Uids(focus) : Server!FrameArrives(uid)
         \/ \E r : Server!Encode(r)
BY DEF Server!Step, Server!Worker, Quiet

LEMMA ServerStep ==
  ASSUME ServerType, UNCHANGED focus, Server!Step(focus) \/ Server!Leave \/ UNCHANGED server
  PROVE  ServerType' /\ cameras' = cameras
<1>1. CASE UNCHANGED server
  BY <1>1, QuietStep DEF server, ServerType
<1>2. CASE Quiet
  BY <1>2, QuietStep, QuietLeaves
<1>3. QED
  BY <1>1, <1>2, StepCases, RestartType, CollectType, FrameArrivesType, EncodeType, LeaveType

(* What any step does to the server.                                       *)
LEMMA ServersPart ==
  ASSUME [StreamsNext]_streams
  PROVE  UNCHANGED focus /\ (Server!Step(focus) \/ Server!Leave \/ UNCHANGED server)
BY DEF StreamsNext, OfServer, Lose, Receive, OfClient, OfPlayback, Watch, streams

LEMMA ServerAlways == StreamsSpec => []ServerType
<1>1. StreamsInit => ServerType
  BY ServerStarts
<1>2. ServerType /\ [StreamsNext]_streams => ServerType'
  BY ServersPart, ServerStep
<1>3. QED
  BY <1>1, <1>2, PTL DEF StreamsSpec

(* Whenever a video frame is encoded, the last key frame asked for is less *)
(* than a period old, and none is asked for unless a time at which one is  *)
(* due has come since the last, for any number of cameras and thus         *)
(* whatever the phases that spread the key frames (server.cpp:180-186,     *)
(* 263, 437-464).                                                          *)
THEOREM KeyframesAreDue == StreamsSpec => KeyframeDue
<1>1. ASSUME ServerType, [StreamsNext]_streams
      PROVE  [Server!KeyframeIsDue]_server
  <2> DEFINE InTime(uid) ==
        /\ now - encoder'[uid].last < Period
        /\ encoder'[uid].last # encoder[uid].last =>
             \E t \in (encoder[uid].last + 1)..now : Server!DueAt(uid, t)
  <2>1. SUFFICES ASSUME Server!Step(focus) \/ Server!Leave,
                        NEW uid \in Server!Uids(Server!Video),
                        encoder'[uid].seq > encoder[uid].seq
                 PROVE  InTime(uid)
    BY <1>1, ServersPart DEF Server!KeyframeIsDue
  <2>2. uid \in AllUids /\ OfVideo(uid) /\ encoder[uid].seq \in Nat
        /\ Server!Uids(Server!Kinds) = AllUids
    BY <1>1, RingKinds DEF Server!Uids, AllUids, OfVideo, ServerType, Video, Kinds
  <2>3. encoder'[uid] # encoder[uid]
    BY <2>1, <2>2
  <2>4. ASSUME NEW r, Server!Encode(r) PROVE InTime(uid)
    <3>1. PICK u : u = Head(ring[r]).uid
      OBVIOUS
    <3>2. encoder' = [encoder EXCEPT ![u].seq = @ + 1,
                        ![u].last = IF Server!should_act(u) THEN now ELSE @]
      BY <1>1, <2>4, <3>1, EncodeType, ServersPart
    <3>3. u = uid
      <4>1. PICK e : encoder' = [encoder EXCEPT ![u] = e]
        BY <3>2
      <4>2. QED
        BY <1>1, <2>2, <2>3, <4>1 DEF ServerType
    <3>4. encoder'[uid].last = IF Server!should_act(uid) THEN now ELSE encoder[uid].last
      BY <1>1, <2>2, <3>2, <3>3 DEF ServerType
    <3>5. now \in Nat /\ Period \in Nat /\ Period > 0
      BY <1>1, ServerAssumption DEF ServerType
    <3>6. QED
      BY <1>1, <2>2, <3>4, <3>5, ShouldActIf
  <2>5. ASSUME Server!Restart PROVE FALSE
    BY <2>1, <2>2, <2>5 DEF Server!Restart, Server!NewEncoders
  <2> HIDE DEF InTime
  <2>6. QED
    BY <1>1, <2>1, <2>2, <2>3, <2>4, <2>5, StepCases, ServersPart, QuietLeaves, LeaveType,
       FrameArrivesType, CollectType
<1>2. QED
  BY <1>1, ServerAlways, PTL DEF StreamsSpec, KeyframeDue


-----------------------------------------------------------------------------
(* The line of a motion stream, by the numbers of its samples: packets of  *)
(* the run that are in transit up to out, the batch, and the frames in the *)
(* ring buffer.                                                            *)
SentIn(s, uid, r) == { n \in DOMAIN s : s[n].uid = uid /\ s[n].run = r }
WaitingIn(w, uid) == { n \in DOMAIN w : w[n].uid = uid }

Leaving(uid, s, r, out) ==
  \A n \in SentIn(s, uid, r) :
    /\ Server!LastOf(s[n]) <= out
    /\ Server!GoOnFrom(Server!FirstOf(s[n]) - 1, s[n].samples)
    /\ \A m \in SentIn(s, uid, r) : m < n => Server!LastOf(s[m]) < Server!FirstOf(s[n])
    /\ \/ Server!LastOf(s[n]) = out
       \/ \E m \in SentIn(s, uid, r) : n < m /\ Server!FirstOf(s[m]) = Server!LastOf(s[n]) + 1

Waiting(uid, w, low, taken) ==
  /\ \A n \in WaitingIn(w, uid) :
       /\ w[n].n \in (low + 1)..taken
       /\ \A m \in WaitingIn(w, uid) : m < n => w[m].n < w[n].n
  /\ \A i \in (low + 1)..taken : \E n \in WaitingIn(w, uid) : w[n].n = i
  /\ low <= taken

LineOf(uid, s, r, b, w, c) ==
  /\ Server!GoOnFrom(c.out, b)
  /\ Leaving(uid, s, r, c.out) /\ Waiting(uid, w, c.out + Len(b), c.taken)

(* The packets and the frames of a motion stream.                          *)
LEMMA SentType ==
  ASSUME NEW s \in Seq(VideoPacket \cup MotionPacket), NEW uid, NEW r,
         uid[2] \in Kinds \ Video, \A m \in DOMAIN s : s[m].kind = s[m].uid[2],
         NEW n \in SentIn(s, uid, r)
  PROVE  /\ n \in Nat /\ n \in DOMAIN s
         /\ s[n].samples \in Seq(Sample) /\ s[n].samples # <<>>
         /\ Server!FirstOf(s[n]) \in Nat /\ Server!LastOf(s[n]) \in Nat
<1>1. n \in DOMAIN s /\ s[n].uid = uid /\ n \in Nat
  BY DEF SentIn
<1>2. s[n] \in VideoPacket \cup MotionPacket /\ s[n].kind = uid[2]
  BY <1>1
<1>3. s[n] \in MotionPacket
  BY <1>2 DEF VideoPacket
<1>4. PICK b \in Seq(Sample) : b = s[n].samples /\ b # <<>>
  BY <1>3 DEF MotionPacket
<1>5. b[1].n \in Nat /\ b[Len(b)].n \in Nat
  <2>1. b[1] \in Sample /\ b[Len(b)] \in Sample
    BY <1>4
  <2>2. QED
    BY <2>1 DEF Sample
<1>6. QED
  BY <1>1, <1>4, <1>5 DEF Server!FirstOf, Server!LastOf

LEMMA WaitingType ==
  ASSUME NEW w \in Seq(FrameAt), NEW uid, NEW n \in WaitingIn(w, uid)
  PROVE  n \in Nat /\ n \in DOMAIN w /\ w[n].n \in Nat
<1>1. n \in DOMAIN w /\ n \in Nat
  BY DEF WaitingIn
<1>2. w[n] \in FrameAt
  BY <1>1
<1>3. QED
  BY <1>1, <1>2 DEF FrameAt

(* A new sample is the last of its stream.                                 *)
LEMMA SampleComes ==
  ASSUME NEW w \in Seq(FrameAt), NEW uid, NEW low \in Nat, NEW taken \in Nat,
         Waiting(uid, w, low, taken), NEW f \in FrameAt, f.uid = uid, f.n = taken + 1
  PROVE  Waiting(uid, Append(w, f), low, taken + 1)
<1>1. PICK v \in Seq(FrameAt) : v = Append(w, f)
  BY QueueGrows
<1>2. Len(w) \in Nat /\ Len(w) + 1 \in WaitingIn(v, uid) /\ v[Len(w) + 1].n = taken + 1
  BY <1>1, QueueGrows DEF WaitingIn
<1>3. \A n \in WaitingIn(w, uid) :
        n \in WaitingIn(v, uid) /\ v[n] = w[n] /\ n < Len(w) + 1 /\ n \in Nat
  BY <1>1, QueueGrows DEF WaitingIn
<1>4. \A n \in WaitingIn(v, uid) : n \in WaitingIn(w, uid) \/ n = Len(w) + 1
  BY <1>1, QueueGrows DEF WaitingIn
<1>5. ASSUME NEW n \in WaitingIn(v, uid)
      PROVE  /\ v[n].n \in (low + 1)..(taken + 1)
             /\ \A m \in WaitingIn(v, uid) : m < n => v[m].n < v[n].n
  <2>1. CASE n \in WaitingIn(w, uid)
    <3>1. w[n].n \in (low + 1)..taken
          /\ \A m \in WaitingIn(w, uid) : m < n => w[m].n < w[n].n
      BY <2>1 DEF Waiting
    <3>2. \A m \in WaitingIn(v, uid) : m < n => m \in WaitingIn(w, uid)
      BY <1>2, <1>3, <1>4, <2>1
    <3>3. v[n].n \in (low + 1)..(taken + 1)
      BY <1>3, <2>1, <3>1
    <3>4. QED
      BY <1>3, <2>1, <3>1, <3>2, <3>3
  <2>2. CASE n = Len(w) + 1
    <3>1. \A m \in WaitingIn(w, uid) : w[m].n \in (low + 1)..taken /\ v[m] = w[m]
      BY <1>3 DEF Waiting
    <3>2. \A m \in WaitingIn(v, uid) : m < n => m \in WaitingIn(w, uid)
      BY <1>2, <1>4, <2>2
    <3>3. low <= taken
      BY DEF Waiting
    <3>4. QED
      BY <1>2, <2>2, <3>1, <3>2, <3>3
  <2>3. QED
    BY <1>4, <2>1, <2>2
<1>6. ASSUME NEW i \in (low + 1)..(taken + 1) PROVE \E n \in WaitingIn(v, uid) : v[n].n = i
  <2>1. CASE i = taken + 1
    BY <1>2, <2>1
  <2>2. CASE i \in (low + 1)..taken
    <3>1. PICK n \in WaitingIn(w, uid) : w[n].n = i
      BY <2>2 DEF Waiting
    <3>2. QED
      BY <1>3, <3>1
  <2>3. QED
    BY <2>1, <2>2
<1>7. low <= taken + 1
  BY DEF Waiting
<1>8. QED
  BY <1>1, <1>5, <1>6, <1>7 DEF Waiting

(* Frames of other streams come and go.                                    *)
LEMMA OtherJoins ==
  ASSUME NEW w \in Seq(FrameAt), NEW uid, NEW low \in Nat, NEW taken \in Nat,
         Waiting(uid, w, low, taken), NEW f \in FrameAt, f.uid # uid
  PROVE  Waiting(uid, Append(w, f), low, taken)
<1>1. PICK v \in Seq(FrameAt) : v = Append(w, f)
  BY QueueGrows
<1>2. \A n \in WaitingIn(v, uid) : n \in WaitingIn(w, uid)
  BY <1>1, QueueGrows DEF WaitingIn
<1>3. \A n \in WaitingIn(w, uid) : n \in WaitingIn(v, uid) /\ v[n] = w[n]
  BY <1>1, QueueGrows DEF WaitingIn
<1>4. QED
  BY <1>1, <1>2, <1>3 DEF Waiting

LEMMA HeadLeaves ==
  ASSUME NEW w \in Seq(FrameAt), NEW uid, w # <<>>
  PROVE  /\ \A n \in WaitingIn(Tail(w), uid) :
              n \in Nat /\ n + 1 \in WaitingIn(w, uid) /\ Tail(w)[n] = w[n + 1]
         /\ \A n \in WaitingIn(w, uid) :
              n \in Nat /\ (n = 1 \/ (n - 1 \in WaitingIn(Tail(w), uid)
                                      /\ Tail(w)[n - 1] = w[n]))
<1>1. PICK v \in Seq(FrameAt) : v = Tail(w)
  BY QueueShrinks
<1>2. \A n \in DOMAIN v : n \in Nat /\ n + 1 \in DOMAIN w /\ v[n] = w[n + 1]
  BY <1>1, QueueShrinks
<1>3. \A n \in DOMAIN w : n \in Nat /\ (n = 1 \/ n - 1 \in DOMAIN v)
  BY <1>1, QueueShrinks
<1>4. \A n \in WaitingIn(v, uid) : n \in Nat /\ n + 1 \in WaitingIn(w, uid) /\ v[n] = w[n + 1]
  BY <1>2 DEF WaitingIn
<1>5. ASSUME NEW n \in WaitingIn(w, uid), n # 1
      PROVE  n - 1 \in WaitingIn(v, uid) /\ v[n - 1] = w[n]
  <2>1. n \in DOMAIN w /\ w[n].uid = uid
    BY DEF WaitingIn
  <2>2. n \in Nat /\ n - 1 \in DOMAIN v
    BY <1>3, <1>5, <2>1
  <2>3. v[n - 1] = w[(n - 1) + 1] /\ (n - 1) + 1 = n
    BY <1>2, <2>2
  <2>4. QED
    BY <2>1, <2>2, <2>3 DEF WaitingIn
<1>6. \A n \in WaitingIn(w, uid) : n \in Nat
  BY <1>3 DEF WaitingIn
<1>7. QED
  BY <1>1, <1>4, <1>5, <1>6

LEMMA OtherIsRead ==
  ASSUME NEW w \in Seq(FrameAt), NEW uid, NEW low \in Nat, NEW taken \in Nat,
         Waiting(uid, w, low, taken), w # <<>>, Head(w).uid # uid
  PROVE  Waiting(uid, Tail(w), low, taken)
<1>1. PICK v : v = Tail(w)
  OBVIOUS
<1>2. \A n \in WaitingIn(v, uid) : n \in Nat /\ n + 1 \in WaitingIn(w, uid) /\ v[n] = w[n + 1]
  <2>1. \A n \in WaitingIn(Tail(w), uid) :
          n \in Nat /\ n + 1 \in WaitingIn(w, uid) /\ Tail(w)[n] = w[n + 1]
    BY HeadLeaves
  <2>2. QED
    BY <1>1, <2>1
<1>3. 1 \notin WaitingIn(w, uid)
  BY QueueShrinks DEF WaitingIn
<1>4. \A n \in WaitingIn(w, uid) : n - 1 \in WaitingIn(v, uid) /\ v[n - 1] = w[n]
  BY <1>1, <1>3, HeadLeaves
<1>5. \A n \in WaitingIn(v, uid), m \in WaitingIn(v, uid) : m < n => m + 1 < n + 1
  BY <1>2
<1>6. \A n \in WaitingIn(v, uid) :
        /\ v[n].n \in (low + 1)..taken
        /\ \A m \in WaitingIn(v, uid) : m < n => v[m].n < v[n].n
  BY <1>2, <1>5 DEF Waiting
<1>7. \A i \in (low + 1)..taken : \E n \in WaitingIn(v, uid) : v[n].n = i
  <2>1. ASSUME NEW i \in (low + 1)..taken PROVE \E n \in WaitingIn(v, uid) : v[n].n = i
    <3>1. PICK n \in WaitingIn(w, uid) : w[n].n = i
      BY DEF Waiting
    <3>2. n - 1 \in WaitingIn(v, uid) /\ v[n - 1] = w[n]
      BY <1>4
    <3>3. QED
      BY <3>1, <3>2
  <2>2. QED
    BY <2>1
<1>8. QED
  BY <1>1, <1>6, <1>7 DEF Waiting

(* The sample that is read is the lowest that waits.                       *)
LEMMA SampleIsRead ==
  ASSUME NEW w \in Seq(FrameAt), NEW uid, NEW low \in Nat, NEW taken \in Nat,
         Waiting(uid, w, low, taken), w # <<>>, Head(w).uid = uid
  PROVE  Head(w).n = low + 1 /\ Waiting(uid, Tail(w), low + 1, taken)
<1>1. PICK v : v = Tail(w)
  OBVIOUS
<1>2. \A n \in WaitingIn(v, uid) : n \in Nat /\ n + 1 \in WaitingIn(w, uid) /\ v[n] = w[n + 1]
  <2>1. \A n \in WaitingIn(Tail(w), uid) :
          n \in Nat /\ n + 1 \in WaitingIn(w, uid) /\ Tail(w)[n] = w[n + 1]
    BY HeadLeaves
  <2>2. QED
    BY <1>1, <2>1
<1>3. 1 \in WaitingIn(w, uid) /\ Head(w) = w[1]
  BY QueueShrinks DEF WaitingIn
<1>4. \A n \in WaitingIn(w, uid) : n = 1 \/ (n - 1 \in WaitingIn(v, uid) /\ v[n - 1] = w[n])
  BY <1>1, HeadLeaves
<1>5. PICK a \in (low + 1)..taken : a = Head(w).n
  BY <1>3 DEF Waiting
<1>6. \A n \in WaitingIn(w, uid) : n # 1 => a < w[n].n
  <2>1. ASSUME NEW n \in WaitingIn(w, uid), n # 1 PROVE a < w[n].n
    <3>1. n \in DOMAIN w /\ 1 < n
      BY <2>1 DEF WaitingIn
    <3>2. QED
      BY <1>3, <1>5, <3>1 DEF Waiting
  <2>2. QED
    BY <2>1
<1>7. a = low + 1
  <2>1. PICK n \in WaitingIn(w, uid) : w[n].n = low + 1
    BY <1>5 DEF Waiting
  <2>2. n # 1 => FALSE
    BY <1>5, <1>6, <2>1
  <2>3. QED
    BY <1>3, <1>5, <2>1, <2>2
<1>8. ASSUME NEW n \in WaitingIn(v, uid)
      PROVE  /\ v[n].n \in (low + 2)..taken
             /\ \A m \in WaitingIn(v, uid) : m < n => v[m].n < v[n].n
  <2>1. n \in Nat /\ n + 1 \in WaitingIn(w, uid) /\ v[n] = w[n + 1]
    BY <1>2
  <2>2. w[n + 1].n \in (low + 1)..taken /\ a < w[n + 1].n
    <3>1. n + 1 # 1
      <4>1. n \in DOMAIN v /\ v \in Seq(FrameAt)
        BY <1>1, QueueShrinks DEF WaitingIn
      <4>2. QED
        BY <4>1
    <3>2. QED
      BY <1>6, <2>1, <3>1 DEF Waiting
  <2>3. \A m \in WaitingIn(v, uid) : m < n => v[m].n < v[n].n
    <3>1. \A m \in WaitingIn(v, uid) : m < n => m + 1 < n + 1
      BY <1>2, <2>1
    <3>2. QED
      BY <1>2, <2>1, <3>1 DEF Waiting
  <2>4. v[n].n \in (low + 2)..taken
    BY <1>7, <2>1, <2>2
  <2>5. QED
    BY <2>3, <2>4
<1>9. ASSUME NEW i \in (low + 2)..taken PROVE \E n \in WaitingIn(v, uid) : v[n].n = i
  <2>1. i \in (low + 1)..taken /\ i # low + 1
    OBVIOUS
  <2>2. PICK n \in WaitingIn(w, uid) : w[n].n = i
    BY <2>1 DEF Waiting
  <2>3. n # 1
    BY <1>3, <1>5, <1>7, <2>1, <2>2
  <2>4. QED
    BY <1>4, <2>2, <2>3
<1>10. (low + 1) + 1 = low + 2 /\ low + 1 <= taken
  BY <1>5
<1>11. Waiting(uid, v, low + 1, taken)
  BY <1>8, <1>9, <1>10 DEF Waiting
<1>12. QED
  BY <1>1, <1>5, <1>7, <1>11

(* The batch goes on with it.                                              *)
LEMMA BatchGoesOn ==
  ASSUME NEW b \in Seq(Sample), NEW out \in Nat, Server!GoOnFrom(out, b),
         NEW x \in Sample, x.n = out + Len(b) + 1
  PROVE  Server!GoOnFrom(out, Append(b, x)) /\ Len(Append(b, x)) = Len(b) + 1
<1>1. \A n \in DOMAIN Append(b, x) :
        \/ n \in DOMAIN b /\ Append(b, x)[n] = b[n]
        \/ n = Len(b) + 1 /\ Append(b, x)[n] = x
  BY QueueGrows
<1>2. Len(b) \in Nat /\ x.n = out + (Len(b) + 1)
  OBVIOUS
<1>3. QED
  BY <1>1, <1>2 DEF Server!GoOnFrom

(* A packet of another stream changes nothing, and neither does it when    *)
(* the first packet leaves.                                                *)
LEMMA OtherIsSent ==
  ASSUME NEW s \in Seq(VideoPacket \cup MotionPacket), NEW uid, NEW r, NEW out,
         Leaving(uid, s, r, out), NEW p \in VideoPacket \cup MotionPacket, p.uid # uid
  PROVE  Leaving(uid, Append(s, p), r, out)
<1>1. PICK z : z = Append(s, p)
  OBVIOUS
<1>2. \A n \in SentIn(z, uid, r) : n \in SentIn(s, uid, r) /\ z[n] = s[n]
  BY <1>1, QueueGrows DEF SentIn
<1>3. \A n \in SentIn(s, uid, r) : n \in SentIn(z, uid, r) /\ z[n] = s[n]
  BY <1>1, QueueGrows DEF SentIn
<1>4. QED
  BY <1>1, <1>2, <1>3 DEF Leaving

LEMMA FirstLeaves ==
  ASSUME NEW s \in Seq(VideoPacket \cup MotionPacket), NEW uid, NEW r, NEW out,
         Leaving(uid, s, r, out), s # <<>>
  PROVE  Leaving(uid, Tail(s), r, out)
<1>1. PICK z : z = Tail(s)
  OBVIOUS
<1>2. /\ z \in Seq(VideoPacket \cup MotionPacket)
      /\ \A n \in DOMAIN z : n \in Nat /\ n + 1 \in DOMAIN s /\ z[n] = s[n + 1]
      /\ \A n \in DOMAIN s : n \in Nat /\ (n = 1 \/ n - 1 \in DOMAIN z)
  BY <1>1, QueueShrinks
<1>3. \A n \in SentIn(z, uid, r) : n \in Nat /\ n + 1 \in SentIn(s, uid, r) /\ z[n] = s[n + 1]
  BY <1>2 DEF SentIn
<1>4. \A n \in SentIn(z, uid, r), m \in SentIn(z, uid, r) : m < n => m + 1 < n + 1
  BY <1>3
<1>5. ASSUME NEW n \in SentIn(z, uid, r), NEW m \in SentIn(s, uid, r), n + 1 < m
      PROVE  m - 1 \in SentIn(z, uid, r) /\ n < m - 1 /\ z[m - 1] = s[m]
  <2>1. n \in Nat /\ 1 <= n /\ m \in DOMAIN s /\ m \in Nat
    BY <1>2 DEF SentIn
  <2>2. m - 1 \in DOMAIN z
    BY <1>2, <1>5, <2>1
  <2>3. z[m - 1] = s[(m - 1) + 1]
    BY <1>2, <2>2
  <2>4. (m - 1) + 1 = m /\ n < m - 1
    BY <1>5, <2>1
  <2>5. z[m - 1] = s[m]
    BY <2>3, <2>4
  <2>6. QED
    BY <2>2, <2>4, <2>5 DEF SentIn
<1>6. ASSUME NEW n \in SentIn(z, uid, r)
      PROVE  \/ Server!LastOf(z[n]) = out
             \/ \E m \in SentIn(z, uid, r) :
                  n < m /\ Server!FirstOf(z[m]) = Server!LastOf(z[n]) + 1
  <2>1. n + 1 \in SentIn(s, uid, r) /\ z[n] = s[n + 1]
    BY <1>3
  <2>2. CASE Server!LastOf(s[n + 1]) = out
    BY <2>1, <2>2
  <2>3. ASSUME NEW m \in SentIn(s, uid, r), n + 1 < m,
               Server!FirstOf(s[m]) = Server!LastOf(s[n + 1]) + 1
        PROVE  \E k \in SentIn(z, uid, r) :
                  n < k /\ Server!FirstOf(z[k]) = Server!LastOf(z[n]) + 1
    BY <1>5, <2>1, <2>3
  <2>4. QED
    BY <2>1, <2>2, <2>3 DEF Leaving
<1>7. QED
  BY <1>1, <1>3, <1>4, <1>6 DEF Leaving

(* The batch leaves as a whole, after all that went before.                *)
LEMMA BatchIsSent ==
  ASSUME NEW s \in Seq(VideoPacket \cup MotionPacket), NEW uid, NEW r, NEW out \in Nat,
         uid[2] \in Kinds \ Video, \A n \in DOMAIN s : s[n].kind = s[n].uid[2],
         Leaving(uid, s, r, out), NEW p \in MotionPacket, p.uid = uid, p.run = r,
         Server!GoOnFrom(out, p.samples)
  PROVE  Leaving(uid, Append(s, p), r, out + Len(p.samples))
<1>1. PICK z : z = Append(s, p)
  OBVIOUS
<1>2. Len(s) \in Nat /\ Len(s) + 1 \in SentIn(z, uid, r) /\ z[Len(s) + 1] = p
  BY <1>1, QueueGrows DEF SentIn
<1>3. \A n \in SentIn(s, uid, r) : n \in SentIn(z, uid, r) /\ z[n] = s[n] /\ n < Len(s) + 1
  BY <1>1, QueueGrows DEF SentIn
<1>4. \A n \in SentIn(z, uid, r) : n \in SentIn(s, uid, r) \/ n = Len(s) + 1
  BY <1>1, QueueGrows DEF SentIn
<1>5. \A n \in SentIn(s, uid, r) :
        n \in Nat /\ Server!FirstOf(s[n]) \in Nat /\ Server!LastOf(s[n]) \in Nat
  BY SentType
<1>6. PICK b \in Seq(Sample) : b = p.samples /\ b # <<>>
  BY DEF MotionPacket
<1>7. PICK end \in Nat : end = out + Len(b) /\ out < end
  <2>1. Len(b) \in Nat /\ Len(b) > 0
    BY <1>6
  <2>2. QED
    BY <2>1
<1>8. Server!FirstOf(p) = out + 1 /\ Server!LastOf(p) = end
  <2>1. 1 \in DOMAIN b /\ Len(b) \in DOMAIN b
    BY <1>6
  <2>2. b[1].n = out + 1 /\ b[Len(b)].n = out + Len(b)
    BY <1>6, <2>1 DEF Server!GoOnFrom
  <2>3. QED
    BY <1>6, <1>7, <2>2 DEF Server!FirstOf, Server!LastOf
<1>9. ASSUME NEW n \in SentIn(z, uid, r)
      PROVE  /\ Server!LastOf(z[n]) <= end
             /\ Server!GoOnFrom(Server!FirstOf(z[n]) - 1, z[n].samples)
             /\ \A m \in SentIn(z, uid, r) : m < n =>
                  Server!LastOf(z[m]) < Server!FirstOf(z[n])
             /\ \/ Server!LastOf(z[n]) = end
                \/ \E m \in SentIn(z, uid, r) :
                     n < m /\ Server!FirstOf(z[m]) = Server!LastOf(z[n]) + 1
  <2>1. CASE n \in SentIn(s, uid, r)
    <3>1. Server!LastOf(s[n]) <= out
          /\ Server!GoOnFrom(Server!FirstOf(s[n]) - 1, s[n].samples)
      BY <2>1 DEF Leaving
    <3>2. Server!LastOf(z[n]) <= end
      BY <1>3, <1>5, <1>7, <2>1, <3>1
    <3>3. \A m \in SentIn(z, uid, r) : m < n => m \in SentIn(s, uid, r) /\ z[m] = s[m]
      BY <1>2, <1>3, <1>4, <1>5, <2>1
    <3>4. \A m \in SentIn(z, uid, r) : m < n => Server!LastOf(z[m]) < Server!FirstOf(z[n])
      BY <1>3, <2>1, <3>3 DEF Leaving
    <3>5. \E m \in SentIn(z, uid, r) :
             n < m /\ Server!FirstOf(z[m]) = Server!LastOf(z[n]) + 1
      <4>1. CASE Server!LastOf(s[n]) = out
        BY <1>2, <1>3, <1>8, <2>1, <4>1
      <4>2. ASSUME NEW m \in SentIn(s, uid, r), n < m,
                   Server!FirstOf(s[m]) = Server!LastOf(s[n]) + 1
            PROVE  m \in SentIn(z, uid, r) /\ Server!FirstOf(z[m]) = Server!LastOf(z[n]) + 1
        BY <1>3, <2>1, <4>2
      <4>3. QED
        BY <2>1, <4>1, <4>2 DEF Leaving
    <3>6. QED
      BY <1>3, <2>1, <3>1, <3>2, <3>4, <3>5
  <2>2. CASE n = Len(s) + 1
    <3>1. z[n] = p /\ (Server!FirstOf(p) - 1) = out
      BY <1>2, <1>8, <2>2
    <3>2. \A m \in SentIn(z, uid, r) : m < n => m \in SentIn(s, uid, r) /\ z[m] = s[m]
      BY <1>2, <1>3, <1>4, <2>2
    <3>3. \A m \in SentIn(s, uid, r) : Server!LastOf(s[m]) < out + 1
      <4>1. \A m \in SentIn(s, uid, r) : Server!LastOf(s[m]) <= out
        BY DEF Leaving
      <4>2. QED
        BY <1>5, <4>1
    <3>4. QED
      BY <1>7, <1>8, <3>1, <3>2, <3>3
  <2>3. QED
    BY <1>4, <2>1, <2>2
<1>10. QED
  BY <1>1, <1>6, <1>7, <1>9 DEF Leaving

(* Nothing is in line before anything has been sent by this run.           *)
LEMMA NothingInLine ==
  ASSUME NEW uid, NEW s, NEW r, SentIn(s, uid, r) = {}, NEW c \in Counts, c.out = 0,
         c.taken = 0
  PROVE  LineOf(uid, s, r, <<>>, <<>>, c)
<1>1. PICK e : e = <<>> /\ DOMAIN e = {} /\ Len(e) = 0
  OBVIOUS
<1>2. c.out + Len(e) = 0 /\ (0 + 1)..0 = {} /\ 0 <= 0
  BY <1>1
<1>3. Waiting(uid, e, 0, 0)
  BY <1>1, <1>2 DEF Waiting, WaitingIn
<1>4. Leaving(uid, s, r, c.out) /\ Server!GoOnFrom(c.out, e)
  BY <1>1 DEF Leaving, Server!GoOnFrom
<1>5. LineOf(uid, s, r, e, e, c)
  BY <1>2, <1>3, <1>4 DEF LineOf
<1>6. QED
  BY <1>1, <1>5

-----------------------------------------------------------------------------
(* The line of every motion stream of the server.                          *)
Line(uid) == LineOf(uid, sent, run, batch[uid], ring["motion"], count[uid])
ServerInv == ServerType /\ \A uid \in MotionUids : Line(uid)

LEMMA LineParts ==
  ASSUME ServerType, NEW uid \in MotionUids
  PROVE  /\ uid \in AllUids /\ uid[2] \in Kinds \ Video
         /\ sent \in Seq(VideoPacket \cup MotionPacket)
         /\ \A n \in DOMAIN sent : sent[n].kind = sent[n].uid[2]
         /\ batch[uid] \in Seq(Sample) /\ ring["motion"] \in Seq(FrameAt)
         /\ count[uid] \in Counts /\ count[uid].out \in Nat /\ count[uid].taken \in Nat
         /\ count[uid].out + Len(batch[uid]) \in Nat
<1>1. uid \in AllUids /\ uid[2] \in Kinds \ Video
  BY DEF MotionUids, AllUids
<1>2. batch[uid] \in Seq(Sample) /\ count[uid] \in Counts
  BY DEF ServerType
<1>3. count[uid].out \in Nat /\ count[uid].taken \in Nat /\ Len(batch[uid]) \in Nat
  BY <1>2 DEF Counts
<1>4. ring["motion"] \in Seq(FrameAt)
  BY RingKinds DEF ServerType
<1>5. sent \in Seq(VideoPacket \cup MotionPacket)
      /\ \A n \in DOMAIN sent : sent[n].kind = sent[n].uid[2]
  BY DEF ServerType
<1>6. QED
  BY <1>1, <1>2, <1>3, <1>4, <1>5

(* A sample is read, and its stream's batch may leave.                     *)
LEMMA LineCollects ==
  ASSUME ServerInv, UNCHANGED focus, Server!Collect, NEW uid \in MotionUids
  PROVE  LineOf(uid, sent', run', batch'[uid], ring'["motion"], count'[uid])
<1>1. /\ uid \in AllUids /\ uid[2] \in Kinds \ Video /\ ServerType
      /\ sent \in Seq(VideoPacket \cup MotionPacket)
      /\ \A n \in DOMAIN sent : sent[n].kind = sent[n].uid[2]
      /\ batch[uid] \in Seq(Sample) /\ ring["motion"] \in Seq(FrameAt)
      /\ count[uid] \in Counts /\ count[uid].out \in Nat /\ count[uid].taken \in Nat
      /\ count[uid].out + Len(batch[uid]) \in Nat
  BY LineParts DEF ServerInv
<1>2. /\ run' = run /\ ring["motion"] # <<>> /\ ring' = [ring EXCEPT !["motion"] = Tail(@)]
  BY <1>1, CollectType
<1>3. PICK f, samples :
        /\ f = Head(ring["motion"])
        /\ samples = Append(batch[f.uid], [at |-> f.at, n |-> f.n])
        /\ Sends(f, samples) \/ Keeps(f, samples)
  BY <1>1, CollectType
<1>4. PICK w, v : w = ring["motion"] /\ v = Tail(w) /\ v = ring'["motion"]
  BY <1>1, <1>2, RingKinds DEF ServerType
<1>5. w \in Seq(FrameAt) /\ w # <<>> /\ f = Head(w) /\ f \in FrameAt
  BY <1>1, <1>2, <1>3, <1>4, QueueShrinks
<1>6. f.uid \in MotionUids /\ f.at \in Nat /\ f.n \in Nat
  <2>1. "motion" \in Server!Rings
    BY RingKinds
  <2>2. f.uid \in AllUids /\ f.uid[2] \in Kinds \ Video
    BY <1>1, <1>2, <1>3, <2>1, RingHead
  <2>3. QED
    BY <1>5, <2>2 DEF AllUids, MotionUids, FrameAt
<1>7. /\ Server!GoOnFrom(count[uid].out, batch[uid])
      /\ Leaving(uid, sent, run, count[uid].out)
      /\ Waiting(uid, w, count[uid].out + Len(batch[uid]), count[uid].taken)
  BY <1>4 DEF ServerInv, Line, LineOf
<1>8. CASE f.uid # uid
  <2>1. Waiting(uid, v, count[uid].out + Len(batch[uid]), count[uid].taken)
    BY <1>1, <1>4, <1>5, <1>7, <1>8, OtherIsRead
  <2>2. batch'[uid] = batch[uid] /\ count'[uid] = count[uid]
    BY <1>1, <1>3, <1>8 DEF Sends, Keeps, ServerType
  <2>3. Leaving(uid, sent', run, count[uid].out)
    <3>1. CASE Keeps(f, samples)
      BY <1>7, <3>1 DEF Keeps
    <3>2. CASE Sends(f, samples)
      <4>1. PICK p \in MotionPacket : sent' = Append(sent, p) /\ p.uid = f.uid
        BY <3>2 DEF Sends
      <4>2. Leaving(uid, Append(sent, p), run, count[uid].out)
        BY <1>1, <1>7, <1>8, <4>1, OtherIsSent
      <4>3. QED
        BY <4>1, <4>2
    <3>3. QED
      BY <1>3, <3>1, <3>2
  <2>4. QED
    BY <1>2, <1>4, <1>7, <2>1, <2>2, <2>3 DEF LineOf
<1>9. CASE f.uid = uid
  <2>1. PICK out \in Nat, taken \in Nat, b \in Seq(Sample) :
          out = count[uid].out /\ taken = count[uid].taken /\ b = batch[uid]
    BY <1>1
  <2>2. PICK low \in Nat : low = out + Len(b)
    BY <1>1, <2>1
  <2>3. Head(w).n = low + 1 /\ Waiting(uid, v, low + 1, taken)
    <3>1. Waiting(uid, w, low, taken)
      BY <1>7, <2>1, <2>2
    <3>2. w \in Seq(FrameAt) /\ w # <<>> /\ Head(w).uid = uid
      BY <1>5, <1>9
    <3>3. Head(w).n = low + 1 /\ Waiting(uid, Tail(w), low + 1, taken)
      BY <3>1, <3>2, SampleIsRead
    <3>4. QED
      BY <1>4, <3>3
  <2>4. PICK x : x = [at |-> f.at, n |-> f.n]
    OBVIOUS
  <2>5. x \in Sample /\ x.n = out + Len(b) + 1
    <3>1. x.n = f.n /\ x \in Sample
      BY <1>6, <2>4 DEF Sample
    <3>2. f.n = low + 1
      BY <1>5, <2>3
    <3>3. QED
      BY <2>2, <3>1, <3>2
  <2>6. /\ samples \in Seq(Sample) /\ Server!GoOnFrom(out, samples)
        /\ out + Len(samples) = low + 1
    <3>1. samples = Append(b, x)
      BY <1>3, <1>9, <2>1, <2>4, Zenon
    <3>2. Server!GoOnFrom(out, b)
      BY <1>7, <2>1
    <3>3. Server!GoOnFrom(out, Append(b, x)) /\ Len(Append(b, x)) = Len(b) + 1
      BY <2>5, <3>2, BatchGoesOn
    <3>4. Append(b, x) \in Seq(Sample)
      BY <2>5, QueueGrows
    <3>5. Len(b) \in Nat
      OBVIOUS
    <3>6. QED
      BY <2>2, <3>1, <3>3, <3>4, <3>5
  <2>7. CASE Keeps(f, samples)
    <3>1. batch'[uid] = samples /\ count' = count /\ sent' = sent
      BY <1>1, <1>6, <1>9, <2>7 DEF Keeps, ServerType
    <3>2. QED
      BY <1>2, <1>4, <1>7, <2>1, <2>3, <2>6, <3>1 DEF LineOf
  <2>8. CASE Sends(f, samples)
    <3>1. PICK p \in MotionPacket :
            /\ sent' = Append(sent, p) /\ p.uid = uid /\ p.run = run /\ p.samples = samples
      BY <1>9, <2>8 DEF Sends
    <3>2. Leaving(uid, Append(sent, p), run, out + Len(samples))
      BY <1>1, <1>7, <2>1, <2>6, <3>1, BatchIsSent
    <3>3. PICK e : e = <<>> /\ DOMAIN e = {} /\ Len(e) = 0
      OBVIOUS
    <3>4. batch'[uid] = e
      BY <1>1, <1>9, <2>8, <3>3 DEF Sends, ServerType
    <3>5. count'[uid].out = low + 1 /\ count'[uid].taken = taken
      <4>1. count'[uid] = [count[uid] EXCEPT !.out = @ + Len(samples)]
        BY <1>1, <1>9, <2>8 DEF Sends, ServerType
      <4>2. QED
        BY <1>1, <2>1, <2>6, <4>1 DEF Counts
    <3>6. Server!GoOnFrom(low + 1, e) /\ (low + 1) + Len(e) = low + 1
      BY <3>3 DEF Server!GoOnFrom
    <3>7. QED
      BY <1>2, <1>4, <2>3, <2>6, <3>1, <3>2, <3>4, <3>5, <3>6 DEF LineOf
  <2>9. QED
    BY <1>3, <2>7, <2>8
<1>10. QED
  BY <1>8, <1>9

LEMMA LineStep ==
  ASSUME ServerInv, UNCHANGED focus,
         Server!Step(focus) \/ Server!Leave \/ UNCHANGED server,
         NEW uid \in MotionUids
  PROVE  LineOf(uid, sent', run', batch'[uid], ring'["motion"], count'[uid])
<1>1. /\ uid \in AllUids /\ uid[2] \in Kinds \ Video /\ ServerType /\ Line(uid)
      /\ sent \in Seq(VideoPacket \cup MotionPacket)
      /\ ring["motion"] \in Seq(FrameAt)
      /\ count[uid] \in Counts /\ count[uid].out \in Nat /\ count[uid].taken \in Nat
      /\ count[uid].out + Len(batch[uid]) \in Nat
  BY LineParts DEF ServerInv
<1>2. /\ Server!GoOnFrom(count[uid].out, batch[uid])
      /\ Leaving(uid, sent, run, count[uid].out)
      /\ Waiting(uid, ring["motion"], count[uid].out + Len(batch[uid]), count[uid].taken)
  BY <1>1 DEF Line, LineOf
<1>3. CASE Quiet \/ UNCHANGED server
  <2>1. UNCHANGED <<run, ring, batch, count, sent>>
    BY <1>1, <1>3, QuietLeaves DEF server
  <2>2. QED
    BY <1>1, <2>1 DEF Line
<1>4. CASE Server!Restart
  <2>1. /\ run' = run + 1 /\ sent' = sent
        /\ batch' \in [MotionUids -> {<<>>}]
        /\ count' \in [MotionUids -> [taken : {0}, out : {0}]]
        /\ ring' = [r \in Server!Rings |-> <<>>]
    BY <1>1, <1>4, RestartType
  <2>2. batch'[uid] = <<>> /\ ring'["motion"] = <<>>
    BY <2>1, RingKinds
  <2>3. PICK c \in Counts : c = count'[uid] /\ c.out = 0 /\ c.taken = 0
    <3>1. count'[uid] \in [taken : {0}, out : {0}]
      BY <2>1
    <3>2. QED
      BY <3>1 DEF Counts
  <2>4. SentIn(sent, uid, run + 1) = {}
    <3>1. \A n \in DOMAIN sent : sent[n].run <= run /\ sent[n].run \in Nat
      BY <1>1 DEF ServerType, VideoPacket, MotionPacket
    <3>2. run \in Nat
      BY <1>1 DEF ServerType
    <3>3. QED
      BY <3>1, <3>2 DEF SentIn
  <2>5. LineOf(uid, sent, run + 1, <<>>, <<>>, c)
    BY <2>3, <2>4, NothingInLine
  <2>6. QED
    BY <2>1, <2>2, <2>3, <2>5
<1>5. ASSUME NEW u \in Server!Uids(focus), Server!FrameArrives(u)
      PROVE  LineOf(uid, sent', run', batch'[uid], ring'["motion"], count'[uid])
  <2>1. UNCHANGED <<run, batch, sent>>
    BY <1>1, <1>5, FrameArrivesType
  <2>2. CASE ring' = ring /\ count' = count
    BY <1>1, <2>1, <2>2 DEF Line
  <2>3. ASSUME NEW f \in FrameAt, Joins(f, u), u \in AllUids,
               Server!RingOf(u[2]) = "motion" <=> u[2] \notin Video
        PROVE  LineOf(uid, sent', run', batch'[uid], ring'["motion"], count'[uid])
    <3>1. u[2] \in Kinds /\ (u \in MotionUids <=> u[2] \notin Video)
      BY <2>3 DEF AllUids, MotionUids
    <3>2. CASE u \notin MotionUids
      <4>1. ring'["motion"] = ring["motion"] /\ count' = count
        BY <1>1, <2>3, <3>1, <3>2, RingKinds DEF Joins, ServerType
      <4>2. QED
        BY <1>1, <2>1, <4>1 DEF Line
    <3>3. CASE u \in MotionUids
      <4>1. ring'["motion"] = Append(ring["motion"], f)
        BY <1>1, <2>3, <3>1, <3>3, RingKinds DEF Joins, ServerType
      <4>2. /\ f.uid = u /\ f.n = count[u].taken + 1
            /\ count' = [count EXCEPT ![u].taken = @ + 1]
        BY <2>3, <3>3 DEF Joins
      <4>3. PICK w \in Seq(FrameAt), low \in Nat, taken \in Nat :
              /\ w = ring["motion"] /\ taken = count[uid].taken
              /\ low = count[uid].out + Len(batch[uid])
        BY <1>1
      <4>4. Waiting(uid, w, low, taken)
        BY <1>2, <4>3
      <4>5. CASE u = uid
        <5>1. Waiting(uid, Append(w, f), low, taken + 1)
          BY <4>2, <4>3, <4>4, <4>5, SampleComes
        <5>2. count'[uid].taken = taken + 1 /\ count'[uid].out = count[uid].out
          <6>1. count'[uid] = [count[uid] EXCEPT !.taken = @ + 1]
            BY <1>1, <4>2, <4>5 DEF ServerType
          <6>2. QED
            BY <1>1, <4>3, <6>1 DEF Counts
        <5>3. QED
          BY <1>2, <2>1, <4>1, <4>3, <5>1, <5>2 DEF LineOf
      <4>6. CASE u # uid
        <5>1. Waiting(uid, Append(w, f), low, taken)
          BY <4>2, <4>3, <4>4, <4>6, OtherJoins
        <5>2. count'[uid] = count[uid]
          BY <1>1, <4>2, <4>6 DEF ServerType
        <5>3. QED
          BY <1>2, <2>1, <4>1, <4>3, <5>1, <5>2 DEF LineOf
      <4>7. QED
        BY <4>5, <4>6
    <3>4. QED
      BY <3>2, <3>3
  <2>4. QED
    BY <1>1, <1>5, <2>2, <2>3, FrameArrivesType
<1>6. ASSUME NEW r, Server!Encode(r)
      PROVE  LineOf(uid, sent', run', batch'[uid], ring'["motion"], count'[uid])
  <2>1. /\ UNCHANGED <<run, batch, count>> /\ r \in Video /\ ring[r] # <<>>
        /\ ring' = [ring EXCEPT ![r] = Tail(@)]
    BY <1>1, <1>6, EncodeType
  <2>2. PICK u : u = Head(ring[r]).uid /\ u[2] = r
    <3>1. r \in Server!Rings
      BY <2>1 DEF Video, Server!Rings
    <3>2. QED
      BY <1>1, <2>1, <3>1, RingHead
  <2>3. PICK p \in VideoPacket : sent' = Append(sent, p) /\ p.uid = u
    BY <1>1, <1>6, <2>2, EncodeType
  <2>4. ring'["motion"] = ring["motion"] /\ u # uid
    BY <1>1, <2>1, <2>2 DEF Video, ServerType
  <2>5. Leaving(uid, Append(sent, p), run, count[uid].out)
    BY <1>1, <1>2, <2>3, <2>4, OtherIsSent
  <2>6. QED
    BY <1>2, <2>1, <2>3, <2>4, <2>5 DEF LineOf
<1>7. CASE Server!Leave
  <2>1. UNCHANGED <<run, ring, batch, count>> /\ sent # <<>> /\ sent' = Tail(sent)
    BY <1>1, <1>7, LeaveType
  <2>2. Leaving(uid, Tail(sent), run, count[uid].out)
    BY <1>1, <1>2, <2>1, FirstLeaves
  <2>3. QED
    BY <1>2, <2>1, <2>2 DEF LineOf
<1>8. QED
  BY <1>1, <1>3, <1>4, <1>5, <1>6, <1>7, LineCollects, StepCases

LEMMA LineAlways == StreamsSpec => []ServerInv
<1>1. StreamsInit => ServerInv
  <2>1. SUFFICES ASSUME StreamsInit PROVE ServerInv
    OBVIOUS
  <2>2. ServerType
    BY <2>1, ServerStarts
  <2>3. ASSUME NEW uid \in MotionUids PROVE Line(uid)
    <3>1. batch[uid] = <<>> /\ ring["motion"] = <<>> /\ sent = <<>>
      BY <2>1, RingKinds DEF StreamsInit, Server!Init, MotionUids, Server!NoSamples,
         Server!Uids
    <3>2. PICK c \in Counts : c = count[uid] /\ c.out = 0 /\ c.taken = 0
      BY <2>1, RingKinds DEF StreamsInit, Server!Init, MotionUids, Server!NoneCounted,
         Server!Uids, Counts
    <3>3. SentIn(sent, uid, run) = {}
      BY <3>1 DEF SentIn
    <3>4. LineOf(uid, sent, run, <<>>, <<>>, c)
      BY <3>2, <3>3, NothingInLine
    <3>5. QED
      BY <3>1, <3>2, <3>4 DEF Line
  <2>4. QED
    BY <2>2, <2>3 DEF ServerInv
<1>2. ServerInv /\ [StreamsNext]_streams => ServerInv'
  <2>1. SUFFICES ASSUME ServerInv, [StreamsNext]_streams PROVE ServerInv'
    OBVIOUS
  <2>2. ServerType' /\ cameras' = cameras
    BY <2>1, ServersPart, ServerStep DEF ServerInv
  <2>3. \A uid \in MotionUids :
          LineOf(uid, sent', run', batch'[uid], ring'["motion"], count'[uid])
    BY <2>1, ServersPart, LineStep
  <2>4. QED
    BY <2>2, <2>3 DEF ServerInv, MotionUids, Line
<1>3. QED
  BY <1>1, <1>2, PTL DEF StreamsSpec

(* Every motion sample the ring buffer took is in one place, and in its    *)
(* turn: the packets in transit hold the last of those published without a *)
(* gap, the batch goes on from there, and the rest waits in the ring       *)
(* buffer.  None is left out and none is sent twice (server.cpp:317-338).  *)
THEOREM SamplesAreInOrder == StreamsSpec => []SamplesInOrder
<1>1. ServerInv => SamplesInOrder
  <2>1. SUFFICES ASSUME ServerInv, NEW uid \in DOMAIN batch PROVE Server!InLine(uid)
    BY DEF SamplesInOrder, Server!SamplesInOrder
  <2>2. uid \in MotionUids /\ Line(uid)
    BY <2>1 DEF ServerInv, ServerType
  <2>3. SentIn(sent, uid, run) = Server!SentOf(uid)
        /\ WaitingIn(ring["motion"], uid) = Server!WaitingOf(uid)
    BY DEF SentIn, WaitingIn, Server!SentOf, Server!WaitingOf
  <2>4. QED
    BY <2>2, <2>3 DEF Line, LineOf, Leaving, Waiting, Server!InLine
<1>2. QED
  BY <1>1, LineAlways, PTL

-----------------------------------------------------------------------------
(* A video packet as a client of these cameras gets it from the first run. *)
Received(cams) == [serial : cams, kind : Video, run : {1}, id : Nat, key : BOOLEAN,
                   flag : BOOLEAN]

(* The packets of a stream that the client has not read: first those in    *)
(* its buffer, then those in transit, numbered low, low + 1, ..., high - 1.*)
InBuffer(q, uid) == { n \in DOMAIN q : q[n].serial = uid[1] }
InTransit(s, uid) == { n \in DOMAIN s : s[n].uid = uid }

Pending(uid, q, s, low, high) ==
  /\ low <= high
  /\ \A n \in InBuffer(q, uid) :
       /\ q[n].id >= low /\ q[n].id < high
       /\ \A m \in InBuffer(q, uid) : m < n => q[m].id < q[n].id
       /\ q[n].flag => q[n].key
  /\ \A n \in InTransit(s, uid) :
       /\ s[n].id >= low /\ s[n].id < high
       /\ \A m \in InTransit(s, uid) : m < n => s[m].id < s[n].id
       /\ \A m \in InBuffer(q, uid) : q[m].id < s[n].id
       /\ s[n].run = 1 /\ (s[n].flag => s[n].key)
  /\ \A i \in low..(high - 1) : \/ \E n \in InBuffer(q, uid) : q[n].id = i
                                \/ \E n \in InTransit(s, uid) : s[n].id = i

(* The two queues.                                                         *)
Queues(uid, q, s, cams) ==
  /\ q \in Seq(Received(cams)) /\ s \in Seq(VideoPacket \cup MotionPacket)
  /\ \A n \in DOMAIN s : s[n].kind = s[n].uid[2]
  /\ uid[2] \in Video

LEMMA QueuesType ==
  ASSUME NEW uid, NEW q, NEW s, NEW cams, Queues(uid, q, s, cams)
  PROVE  /\ \A n \in InBuffer(q, uid) : n \in Nat /\ q[n] \in Received(cams) /\ q[n].id \in Nat
         /\ \A n \in InTransit(s, uid) : n \in Nat /\ s[n] \in VideoPacket /\ s[n].id \in Nat
         /\ Len(q) \in Nat /\ Len(s) \in Nat
<1>1. ASSUME NEW n \in InBuffer(q, uid)
      PROVE  n \in Nat /\ q[n] \in Received(cams) /\ q[n].id \in Nat
  <2>1. n \in Nat /\ q[n] \in Received(cams)
    BY DEF InBuffer, Queues
  <2>2. QED
    BY <2>1 DEF Received
<1>2. ASSUME NEW n \in InTransit(s, uid)
      PROVE  n \in Nat /\ s[n] \in VideoPacket /\ s[n].id \in Nat
  <2>1. n \in DOMAIN s /\ s[n].uid = uid
    BY DEF InTransit
  <2>2. n \in Nat /\ s[n] \in VideoPacket \cup MotionPacket /\ s[n].kind = uid[2]
    BY <2>1 DEF Queues
  <2>3. s[n] \in VideoPacket
    BY <2>2 DEF MotionPacket, Queues
  <2>4. QED
    BY <2>2, <2>3 DEF VideoPacket
<1>3. QED
  BY <1>1, <1>2 DEF Queues

LEMMA PacketEncoded ==
  ASSUME NEW uid, NEW q, NEW s, NEW cams, Queues(uid, q, s, cams), NEW low \in Nat,
         NEW high \in Nat, Pending(uid, q, s, low, high),
         NEW p \in VideoPacket, p.uid = uid, p.id = high, p.run = 1, p.flag => p.key
  PROVE  Pending(uid, q, Append(s, p), low, high + 1)
<1>1. PICK z : z = Append(s, p)
  OBVIOUS
<1>2. /\ \A n \in InTransit(z, uid) : \/ n \in InTransit(s, uid) /\ z[n] = s[n] /\ n < Len(s) + 1
                                      \/ n = Len(s) + 1 /\ z[n] = p
      /\ \A n \in InTransit(s, uid) : n \in InTransit(z, uid) /\ z[n] = s[n]
      /\ Len(s) + 1 \in InTransit(z, uid) /\ z[Len(s) + 1] = p
  <2>1. s \in Seq(VideoPacket \cup MotionPacket)
    BY DEF Queues
  <2>2. QED
    BY <1>1, <2>1 DEF InTransit
<1>3. ASSUME NEW n \in InBuffer(q, uid) PROVE q[n].id >= low /\ q[n].id < high + 1
  BY QueuesType DEF Pending
<1>4. ASSUME NEW n \in InTransit(z, uid)
      PROVE  /\ z[n].id >= low /\ z[n].id < high + 1
             /\ \A m \in InTransit(z, uid) : m < n => z[m].id < z[n].id
             /\ \A m \in InBuffer(q, uid) : q[m].id < z[n].id
             /\ z[n].run = 1 /\ (z[n].flag => z[n].key)
  <2>1. CASE n \in InTransit(s, uid) /\ z[n] = s[n] /\ n < Len(s) + 1
    <3>1. \A m \in InTransit(z, uid) : m < n => m \in InTransit(s, uid) /\ z[m] = s[m]
      BY <1>2, <2>1, QueuesType
    <3>2. z[n].id >= low /\ z[n].id < high + 1
      BY <2>1, QueuesType DEF Pending
    <3>3. QED
      BY <2>1, <3>1, <3>2 DEF Pending
  <2>2. CASE n = Len(s) + 1 /\ z[n] = p
    <3>1. \A m \in InTransit(z, uid) : m < n => m \in InTransit(s, uid) /\ z[m] = s[m]
      BY <1>2, <2>2, QueuesType
    <3>2. QED
      BY <2>2, <3>1 DEF Pending
  <2>3. QED
    BY <1>2, <2>1, <2>2
<1>5. ASSUME NEW i \in low..((high + 1) - 1)
      PROVE  \/ \E n \in InBuffer(q, uid) : q[n].id = i
             \/ \E n \in InTransit(z, uid) : z[n].id = i
  <2>1. CASE i = high
    BY <1>2, <2>1
  <2>2. CASE i # high
    <3>1. i \in low..(high - 1)
      BY <2>2
    <3>2. QED
      BY <1>2, <3>1 DEF Pending
  <2>3. QED
    BY <2>1, <2>2
<1>6. low <= high + 1
  BY DEF Pending
<1>7. \A n \in InBuffer(q, uid) :
        /\ \A m \in InBuffer(q, uid) : m < n => q[m].id < q[n].id
        /\ q[n].flag => q[n].key
  BY DEF Pending
<1>8. Pending(uid, q, z, low, high + 1)
  BY <1>3, <1>4, <1>5, <1>6, <1>7 DEF Pending
<1>9. QED
  BY <1>1, <1>8

LEMMA OtherEncoded ==
  ASSUME NEW uid, NEW q, NEW s, NEW cams, Queues(uid, q, s, cams), NEW low, NEW high,
         Pending(uid, q, s, low, high),
         NEW p \in VideoPacket \cup MotionPacket, p.uid # uid
  PROVE  Pending(uid, q, Append(s, p), low, high)
<1>1. PICK z : z = Append(s, p)
  OBVIOUS
<1>2. /\ \A n \in InTransit(z, uid) : n \in InTransit(s, uid) /\ z[n] = s[n]
      /\ \A n \in InTransit(s, uid) : n \in InTransit(z, uid) /\ z[n] = s[n]
  <2>1. s \in Seq(VideoPacket \cup MotionPacket)
    BY DEF Queues
  <2>2. QED
    BY <1>1, <2>1 DEF InTransit
<1>3. InTransit(z, uid) = InTransit(s, uid)
  BY <1>2
<1>4. \A n \in InTransit(z, uid) :
        /\ z[n].id >= low /\ z[n].id < high
        /\ \A m \in InTransit(z, uid) : m < n => z[m].id < z[n].id
        /\ \A m \in InBuffer(q, uid) : q[m].id < z[n].id
        /\ z[n].run = 1 /\ (z[n].flag => z[n].key)
  BY <1>2, <1>3 DEF Pending
<1>5. \A i \in low..(high - 1) : \/ \E n \in InBuffer(q, uid) : q[n].id = i
                                \/ \E n \in InTransit(z, uid) : z[n].id = i
  <2> SUFFICES ASSUME NEW i \in low..(high - 1)
               PROVE  \/ \E n \in InBuffer(q, uid) : q[n].id = i
                      \/ \E n \in InTransit(z, uid) : z[n].id = i
    OBVIOUS
  <2>1. \/ \E n \in InBuffer(q, uid) : q[n].id = i
        \/ \E n \in InTransit(s, uid) : s[n].id = i
    BY DEF Pending
  <2>2. QED
    BY <1>2, <2>1
<1>6. /\ low <= high
      /\ \A n \in InBuffer(q, uid) :
           /\ q[n].id >= low /\ q[n].id < high
           /\ \A m \in InBuffer(q, uid) : m < n => q[m].id < q[n].id
           /\ q[n].flag => q[n].key
  BY DEF Pending
<1>7. Pending(uid, q, z, low, high)
  BY <1>4, <1>5, <1>6 DEF Pending
<1>8. QED
  BY <1>1, <1>7

LEMMA OtherLeaves ==
  ASSUME NEW uid, NEW q, NEW s, NEW cams, Queues(uid, q, s, cams), NEW low, NEW high,
         Pending(uid, q, s, low, high), s # <<>>, Head(s).uid # uid
  PROVE  Pending(uid, q, Tail(s), low, high)
<1>1. PICK z : z = Tail(s)
  OBVIOUS
<1>2. /\ \A n \in InTransit(z, uid) : n \in Nat /\ n + 1 \in InTransit(s, uid) /\ z[n] = s[n + 1]
      /\ \A n \in InTransit(s, uid) : n - 1 \in InTransit(z, uid) /\ z[n - 1] = s[n]
  <2>1. s \in Seq(VideoPacket \cup MotionPacket)
    BY DEF Queues
  <2>2. QED
    BY <1>1, <2>1 DEF InTransit
<1>3. \A n \in InTransit(z, uid), m \in InTransit(z, uid) : m < n => m + 1 < n + 1
  BY <1>2
<1>4. \A i \in low..(high - 1) : \/ \E n \in InBuffer(q, uid) : q[n].id = i
                                 \/ \E n \in InTransit(z, uid) : z[n].id = i
  BY <1>2 DEF Pending
<1>5. ASSUME NEW n \in InTransit(z, uid)
      PROVE  /\ z[n].id >= low /\ z[n].id < high
             /\ \A m \in InTransit(z, uid) : m < n => z[m].id < z[n].id
             /\ \A m \in InBuffer(q, uid) : q[m].id < z[n].id
             /\ z[n].run = 1 /\ (z[n].flag => z[n].key)
  BY <1>2, <1>3 DEF Pending
<1>6. Pending(uid, q, z, low, high)
  BY <1>4, <1>5 DEF Pending
<1>7. QED
  BY <1>1, <1>6

LEMMA OtherComes ==
  ASSUME NEW uid, NEW q, NEW s, NEW cams, Queues(uid, q, s, cams), NEW low, NEW high,
         Pending(uid, q, s, low, high), NEW x \in Received(cams), x.serial # uid[1]
  PROVE  Pending(uid, Append(q, x), s, low, high)
<1>1. PICK z : z = Append(q, x)
  OBVIOUS
<1>2. /\ \A n \in InBuffer(z, uid) : n \in InBuffer(q, uid) /\ z[n] = q[n]
      /\ \A n \in InBuffer(q, uid) : n \in InBuffer(z, uid) /\ z[n] = q[n]
  <2>1. q \in Seq(Received(cams))
    BY DEF Queues
  <2>2. QED
    BY <1>1, <2>1 DEF InBuffer
<1>3. \A i \in low..(high - 1) : \/ \E n \in InBuffer(z, uid) : z[n].id = i
                                 \/ \E n \in InTransit(s, uid) : s[n].id = i
  BY <1>2 DEF Pending
<1>4. ASSUME NEW n \in InBuffer(z, uid)
      PROVE  /\ z[n].id >= low /\ z[n].id < high
             /\ \A m \in InBuffer(z, uid) : m < n => z[m].id < z[n].id
             /\ z[n].flag => z[n].key
             /\ \A m \in InTransit(s, uid) : z[n].id < s[m].id
  BY <1>2 DEF Pending
<1>5. Pending(uid, z, s, low, high)
  BY <1>3, <1>4 DEF Pending
<1>6. QED
  BY <1>1, <1>5

LEMMA PacketComes ==
  ASSUME NEW uid, NEW q, NEW s, NEW cams, Queues(uid, q, s, cams), NEW low \in Nat,
         NEW high \in Nat, Pending(uid, q, s, low, high), s # <<>>, Head(s).uid = uid,
         NEW x \in Received(cams), x.serial = uid[1], x.id = Head(s).id,
         x.flag => x.key
  PROVE  Pending(uid, Append(q, x), Tail(s), low, high)
<1>1. PICK y, z : y = Append(q, x) /\ z = Tail(s)
  OBVIOUS
<1>2. /\ \A n \in InTransit(z, uid) : /\ n \in Nat /\ n + 1 \in InTransit(s, uid)
                                      /\ z[n] = s[n + 1] /\ 1 < n + 1
      /\ \A n \in InTransit(s, uid) :
           n = 1 \/ (n - 1 \in InTransit(z, uid) /\ z[n - 1] = s[n])
      /\ 1 \in InTransit(s, uid) /\ s[1].id = x.id
  <2>1. s \in Seq(VideoPacket \cup MotionPacket)
    BY DEF Queues
  <2>2. QED
    BY <1>1, <2>1 DEF InTransit
<1>3. /\ \A n \in InBuffer(y, uid) : \/ n \in InBuffer(q, uid) /\ y[n] = q[n] /\ n < Len(q) + 1
                                     \/ n = Len(q) + 1 /\ y[n] = x
      /\ \A n \in InBuffer(q, uid) : n \in InBuffer(y, uid) /\ y[n] = q[n]
      /\ Len(q) + 1 \in InBuffer(y, uid) /\ y[Len(q) + 1] = x
  <2>1. q \in Seq(Received(cams))
    BY DEF Queues
  <2>2. QED
    BY <1>1, <2>1 DEF InBuffer
<1>4. ASSUME NEW n \in InBuffer(y, uid)
      PROVE  /\ y[n].id >= low /\ y[n].id < high
             /\ \A m \in InBuffer(y, uid) : m < n => y[m].id < y[n].id
             /\ y[n].flag => y[n].key
             /\ \A m \in InTransit(z, uid) : y[n].id < z[m].id
  <2>1. CASE n \in InBuffer(q, uid) /\ y[n] = q[n] /\ n < Len(q) + 1
    <3>1. \A m \in InBuffer(y, uid) : m < n => m \in InBuffer(q, uid) /\ y[m] = q[m]
      BY <1>3, <2>1, QueuesType
    <3>2. QED
      BY <1>2, <2>1, <3>1 DEF Pending
  <2>2. CASE n = Len(q) + 1 /\ y[n] = x
    <3>1. \A m \in InBuffer(y, uid) : m < n => m \in InBuffer(q, uid) /\ y[m] = q[m]
      BY <1>3, <2>2, QueuesType
    <3>2. \A m \in InTransit(z, uid) : x.id < z[m].id
      BY <1>2 DEF Pending
    <3>3. QED
      BY <1>2, <2>2, <3>1, <3>2 DEF Pending
  <2>3. QED
    BY <1>3, <2>1, <2>2
<1>5. ASSUME NEW n \in InTransit(z, uid)
      PROVE  /\ z[n].id >= low /\ z[n].id < high
             /\ \A m \in InTransit(z, uid) : m < n => z[m].id < z[n].id
             /\ z[n].run = 1 /\ (z[n].flag => z[n].key)
  <2>1. \A m \in InTransit(z, uid) : m < n => m + 1 < n + 1
    BY <1>2
  <2>2. QED
    BY <1>2, <2>1 DEF Pending
<1>6. \A i \in low..(high - 1) : \/ \E n \in InBuffer(y, uid) : y[n].id = i
                                 \/ \E n \in InTransit(z, uid) : z[n].id = i
  BY <1>2, <1>3 DEF Pending
<1>7. low <= high
  BY DEF Pending
<1>8. Pending(uid, y, z, low, high)
  BY <1>4, <1>5, <1>6, <1>7 DEF Pending
<1>9. QED
  BY <1>1, <1>8

LEMMA OtherRead ==
  ASSUME NEW uid, NEW q, NEW s, NEW cams, Queues(uid, q, s, cams), NEW low, NEW high,
         Pending(uid, q, s, low, high), q # <<>>, Head(q).serial # uid[1]
  PROVE  Pending(uid, Tail(q), s, low, high)
<1>1. PICK z : z = Tail(q)
  OBVIOUS
<1>2. /\ \A n \in InBuffer(z, uid) : n \in Nat /\ n + 1 \in InBuffer(q, uid) /\ z[n] = q[n + 1]
      /\ \A n \in InBuffer(q, uid) : n - 1 \in InBuffer(z, uid) /\ z[n - 1] = q[n]
  <2>1. q \in Seq(Received(cams))
    BY DEF Queues
  <2>2. QED
    BY <1>1, <2>1 DEF InBuffer
<1>3. \A n \in InBuffer(z, uid), m \in InBuffer(z, uid) : m < n => m + 1 < n + 1
  BY <1>2
<1>4. \A i \in low..(high - 1) : \/ \E n \in InBuffer(z, uid) : z[n].id = i
                                 \/ \E n \in InTransit(s, uid) : s[n].id = i
  BY <1>2 DEF Pending
<1>5. ASSUME NEW n \in InBuffer(z, uid)
      PROVE  /\ z[n].id >= low /\ z[n].id < high
             /\ \A m \in InBuffer(z, uid) : m < n => z[m].id < z[n].id
             /\ z[n].flag => z[n].key
             /\ \A m \in InTransit(s, uid) : z[n].id < s[m].id
  BY <1>2, <1>3 DEF Pending
<1>6. Pending(uid, z, s, low, high)
  BY <1>4, <1>5 DEF Pending
<1>7. QED
  BY <1>1, <1>6

(* The packet that is read is the lowest.                                  *)
LEMMA PacketRead ==
  ASSUME NEW uid, NEW q, NEW s, NEW cams, Queues(uid, q, s, cams), NEW low \in Nat,
         NEW high \in Nat, Pending(uid, q, s, low, high), q # <<>>,
         Head(q).serial = uid[1]
  PROVE  /\ Head(q).id = low /\ Head(q) \in Received(cams)
         /\ Head(q).flag => Head(q).key
         /\ Pending(uid, Tail(q), s, low + 1, high)
<1>1. PICK z : z = Tail(q)
  OBVIOUS
<1>2. /\ \A n \in InBuffer(z, uid) : /\ n \in Nat /\ n + 1 \in InBuffer(q, uid)
                                     /\ z[n] = q[n + 1] /\ 1 < n + 1
      /\ \A n \in InBuffer(q, uid) :
           n = 1 \/ (n - 1 \in InBuffer(z, uid) /\ z[n - 1] = q[n] /\ 1 < n)
      /\ 1 \in InBuffer(q, uid) /\ q[1] = Head(q)
  <2>1. q \in Seq(Received(cams))
    BY DEF Queues
  <2>2. QED
    BY <1>1, <2>1 DEF InBuffer
<1>3. q[1] \in Received(cams) /\ q[1].id \in Nat /\ (q[1].flag => q[1].key)
      /\ q[1].id >= low /\ q[1].id < high
  BY <1>2, QueuesType DEF Pending
<1>4. /\ \A n \in InBuffer(q, uid) : n # 1 => q[1].id < q[n].id
      /\ \A n \in InTransit(s, uid) : q[1].id < s[n].id
  BY <1>2 DEF Pending
<1>5. q[1].id = low
  <2>1. low \in low..(high - 1)
    BY <1>3
  <2>2. \/ \E n \in InBuffer(q, uid) : q[n].id = low
        \/ \E n \in InTransit(s, uid) : s[n].id = low
    BY <2>1 DEF Pending
  <2>3. QED
    BY <1>3, <1>4, <2>2
<1>6. ASSUME NEW n \in InBuffer(z, uid)
      PROVE  /\ z[n].id >= low + 1 /\ z[n].id < high
             /\ \A m \in InBuffer(z, uid) : m < n => z[m].id < z[n].id
             /\ z[n].flag => z[n].key
             /\ \A m \in InTransit(s, uid) : z[n].id < s[m].id
  <2>1. \A m \in InBuffer(z, uid) : m < n => m + 1 < n + 1
    BY <1>2
  <2>2. n + 1 # 1 /\ z[n].id \in Nat
    <3>1. n + 1 \in InBuffer(q, uid) /\ z[n] = q[n + 1] /\ 1 < n + 1
      BY <1>2
    <3>2. q[n + 1].id \in Nat
      BY <3>1, QueuesType
    <3>3. QED
      BY <3>1, <3>2
  <2>3. low < z[n].id
    BY <1>2, <1>4, <1>5, <2>2
  <2>4. QED
    BY <1>2, <2>1, <2>2, <2>3 DEF Pending
<1>7. ASSUME NEW n \in InTransit(s, uid)
      PROVE  s[n].id >= low + 1
  BY <1>4, <1>5, QueuesType
<1>8. ASSUME NEW i \in (low + 1)..(high - 1)
      PROVE  \/ \E n \in InBuffer(z, uid) : z[n].id = i
             \/ \E n \in InTransit(s, uid) : s[n].id = i
  <2>1. i \in low..(high - 1) /\ i # low
    OBVIOUS
  <2>2. QED
    BY <1>2, <1>5, <2>1 DEF Pending
<1>9. low + 1 <= high
  BY <1>3
<1>10. \A n \in InTransit(s, uid) :
         /\ s[n].id < high
         /\ \A m \in InTransit(s, uid) : m < n => s[m].id < s[n].id
         /\ s[n].run = 1 /\ (s[n].flag => s[n].key)
  BY DEF Pending
<1>11. Pending(uid, z, s, low + 1, high)
  BY <1>6, <1>7, <1>8, <1>9, <1>10 DEF Pending
<1>12. QED
  BY <1>1, <1>2, <1>3, <1>5, <1>11


-----------------------------------------------------------------------------
(* A client fed by the first run of a server, with nothing lost: if it has *)
(* its key frame, it waits for the lowest of the packets it has not read.  *)
Undisturbed == mode = "live" /\ ~lost /\ run = 1
WaitsFor(c, low) ==
  IF c.need THEN c.last = None
  ELSE c.last = low - 1 /\ low > 0 /\ c.good /\ c.ref.run = 1 /\ c.ref.id = c.last
KeepsUp(uid) ==
  \E low \in Nat : /\ Pending(uid, inbox[uid[2]], sent, low, encoder[uid].seq)
                   /\ WaitsFor(context[uid], low)

ClientType ==
  /\ cameras \subseteq Serials
  /\ \E T : inbox \in [Inboxes -> T]
  /\ \A k \in Video : inbox[k] \in Seq(Received(cameras))
  /\ \E T : context \in [Serials \X Video -> T]
  /\ \A uid \in Serials \X Video : context[uid].need \in BOOLEAN
KeepingUp == ClientType /\ \A uid \in cameras \X Video : KeepsUp(uid)
LiveInv == ServerType /\ (Undisturbed => KeepingUp)

(* What a step of the server hands to pubsub.                              *)
SameIds == \A uid \in AllUids : OfVideo(uid) => encoder'[uid].seq = encoder[uid].seq
SendsVideo(p) ==
  /\ sent' = Append(sent, p) /\ p.uid \in AllUids /\ OfVideo(p.uid)
  /\ p.run = run /\ p.id = encoder[p.uid].seq /\ (p.flag => p.key)
  /\ encoder'[p.uid].seq = encoder[p.uid].seq + 1
  /\ \A uid \in AllUids : uid # p.uid => encoder'[uid].seq = encoder[uid].seq

LEMMA ServerSends ==
  ASSUME ServerType, UNCHANGED focus, Server!Step(focus), run' = run
  PROVE  \/ sent' = sent /\ SameIds
         \/ \E p \in MotionPacket : /\ sent' = Append(sent, p) /\ p.kind = p.uid[2]
                                     /\ SameIds
         \/ \E p \in VideoPacket : SendsVideo(p)
<1>1. CASE Quiet
  BY <1>1, QuietLeaves DEF SameIds
<1>2. CASE Server!Restart
  <2>1. run' = run + 1 /\ run \in Nat
    BY <1>2, RestartType DEF ServerType
  <2>2. QED
    BY <2>1
<1>3. CASE Server!Collect
  <2>1. \A uid \in AllUids : OfVideo(uid) => encoder'[uid] = encoder[uid]
    BY <1>3, CollectType
  <2>2. PICK f, samples : Sends(f, samples) \/ Keeps(f, samples)
    BY <1>3, CollectType
  <2>3. SameIds
    BY <2>1 DEF SameIds
  <2>4. CASE Keeps(f, samples)
    BY <2>3, <2>4 DEF Keeps
  <2>5. CASE Sends(f, samples)
    <3>1. PICK p \in MotionPacket :
            sent' = Append(sent, p) /\ p.uid = f.uid /\ p.kind = f.uid[2]
      BY <2>5 DEF Sends
    <3>2. p.kind = p.uid[2]
      BY <3>1
    <3>3. QED
      BY <2>3, <3>1, <3>2
  <2>6. QED
    BY <2>2, <2>4, <2>5
<1>4. ASSUME NEW uid \in Server!Uids(focus), Server!FrameArrives(uid)
      PROVE  sent' = sent /\ SameIds
  BY <1>4, FrameArrivesType DEF SameIds
<1>5. ASSUME NEW r, Server!Encode(r) PROVE \E p \in VideoPacket : SendsVideo(p)
  <2>1. r \in Video /\ ring[r] # <<>>
    BY <1>5, EncodeType
  <2>2. r \in Server!Rings
    BY <2>1 DEF Video, Server!Rings
  <2>3. PICK u \in AllUids : u = Head(ring[r]).uid /\ u[2] = r
    BY <2>1, <2>2, RingHead
  <2>4. PICK p \in VideoPacket : /\ sent' = Append(sent, p) /\ p.uid = u /\ p.run = run
                                 /\ p.id = encoder[u].seq /\ (p.flag => p.key)
    BY <1>5, <2>3, EncodeType
  <2>5. PICK t : encoder' = [encoder EXCEPT ![u].seq = @ + 1, ![u].last = t]
    <3>1. encoder' = [encoder EXCEPT ![u].seq = @ + 1,
                        ![u].last = IF Server!should_act(u) THEN now ELSE @]
      BY <1>5, <2>3, EncodeType
    <3>2. PICK t : t = IF Server!should_act(u) THEN now ELSE encoder[u].last
      OBVIOUS
    <3>3. encoder' = [encoder EXCEPT ![u].seq = @ + 1, ![u].last = t]
      BY <3>1, <3>2
    <3>4. QED
      BY <3>3
  <2>6. encoder \in [AllUids -> [seq : Nat, last : Nat]]
    BY DEF ServerType
  <2>7. encoder'[u].seq = encoder[u].seq + 1
    BY <2>3, <2>5, <2>6
  <2>8. \A uid \in AllUids : uid # u => encoder'[uid].seq = encoder[uid].seq
    <3>1. PICK e : encoder' = [encoder EXCEPT ![u] = e]
      BY <2>5
    <3>2. QED
      BY <2>6, <3>1
  <2>9. QED
    BY <2>1, <2>3, <2>4, <2>7, <2>8 DEF SendsVideo, OfVideo
<1>6. QED
  BY <1>1, <1>2, <1>3, <1>4, <1>5, StepCases

LEMMA StreamParts ==
  ASSUME ServerType, ClientType, NEW uid \in cameras \X Video
  PROVE  /\ Queues(uid, inbox[uid[2]], sent, cameras)
         /\ uid \in AllUids /\ OfVideo(uid) /\ encoder[uid].seq \in Nat
         /\ uid \in Serials \X Video /\ uid[2] \in Video /\ uid[1] \in cameras
         /\ uid = <<uid[1], uid[2]>>
<1>1. uid \in AllUids /\ uid[2] \in Video /\ uid[1] \in cameras /\ uid = <<uid[1], uid[2]>>
  BY DEF AllUids, Video, Kinds
<1>2. uid \in Serials \X Video
  BY DEF ClientType
<1>3. encoder[uid].seq \in Nat
  BY <1>1 DEF ServerType
<1>4. QED
  BY <1>1, <1>2, <1>3 DEF Queues, ServerType, ClientType, OfVideo

LEMMA ServerKeepsUp ==
  ASSUME ServerType, UNCHANGED <<focus, inbox, context, cameras>>, Server!Step(focus),
         run = 1, run' = run, KeepingUp
  PROVE  KeepingUp'
<1>1. ClientType'
  BY DEF KeepingUp, ClientType, Received
<1>2. ASSUME NEW uid \in cameras \X Video PROVE KeepsUp(uid)'
  <2>1. PICK low \in Nat : /\ Pending(uid, inbox[uid[2]], sent, low, encoder[uid].seq)
                           /\ WaitsFor(context[uid], low)
    BY <1>2 DEF KeepingUp, KeepsUp
  <2>2. /\ Queues(uid, inbox[uid[2]], sent, cameras) /\ encoder[uid].seq \in Nat
        /\ uid \in AllUids /\ OfVideo(uid)
    BY <1>2, StreamParts DEF KeepingUp
  <2>3. SUFFICES Pending(uid, inbox[uid[2]], sent', low, encoder'[uid].seq)
    BY <2>1 DEF KeepsUp
  <2>4. CASE sent' = sent /\ SameIds
    BY <2>1, <2>2, <2>4 DEF SameIds
  <2>5. ASSUME NEW p \in MotionPacket, sent' = Append(sent, p), p.kind = p.uid[2], SameIds
        PROVE  Pending(uid, inbox[uid[2]], sent', low, encoder'[uid].seq)
    <3>1. p.uid # uid
      <4>1. p.uid[2] \notin Video
        BY <2>5 DEF MotionPacket
      <4>2. QED
        BY <2>2, <4>1 DEF OfVideo
    <3>2. QED
      BY <2>1, <2>2, <2>5, <3>1, OtherEncoded DEF SameIds
  <2>6. ASSUME NEW p \in VideoPacket, SendsVideo(p)
        PROVE  Pending(uid, inbox[uid[2]], sent', low, encoder'[uid].seq)
    <3>1. CASE p.uid = uid
      BY <2>1, <2>2, <2>6, <3>1, PacketEncoded DEF SendsVideo
    <3>2. CASE p.uid # uid
      BY <2>1, <2>2, <2>6, <3>2, OtherEncoded DEF SendsVideo
    <3>3. QED
      BY <3>1, <3>2
  <2>7. QED
    BY <2>4, <2>5, <2>6, ServerSends
<1>3. QED
  BY <1>1, <1>2 DEF KeepingUp


(* A packet is received.                                                   *)
LEMMA ReceiveKeepsUp ==
  ASSUME ServerType, UNCHANGED <<focus, cameras>>, Server!Leave, Deliver(AsReceived(Head(sent))),
         inbox' # inbox, run = 1, KeepingUp
  PROVE  KeepingUp'
<1>1. /\ sent \in Seq(VideoPacket \cup MotionPacket) /\ sent # <<>> /\ sent' = Tail(sent)
      /\ UNCHANGED encoder
  BY LeaveType
<1>2. PICK p \in VideoPacket \cup MotionPacket :
        /\ p = Head(sent) /\ p.kind = p.uid[2] /\ p.run <= 1 /\ 1 \in DOMAIN sent /\ p = sent[1]
  BY <1>1, QueueShrinks DEF ServerType
<1>3. PICK m : m = AsReceived(p)
  OBVIOUS
<1>4. UNCHANGED context /\ inbox' = [inbox EXCEPT ![InboxOf(m.kind)] = Append(@, m)]
  BY <1>2, <1>3 DEF Deliver
<1>5. ClientType
  BY DEF KeepingUp
<1>6. \E T : inbox' \in [Inboxes -> T]
  <2>1. PICK T : inbox \in [Inboxes -> T]
    BY <1>5 DEF ClientType
  <2>2. inbox' \in [Inboxes -> T \cup {Append(inbox[InboxOf(m.kind)], m)}]
    BY <1>4, <2>1
  <2>3. QED
    BY <2>2
<1>7. CASE p.kind \notin Video
  <2>1. m.kind = p.kind
    BY <1>3, <1>7 DEF AsReceived
  <2>2. InboxOf(m.kind) \notin Video
    BY <1>7, <2>1 DEF InboxOf, Video
  <2>3. \A k \in Video : inbox'[k] = inbox[k]
    BY <1>4, <1>5, <2>2 DEF ClientType, Video, Inboxes
  <2>4. ClientType'
    BY <1>4, <1>5, <1>6, <2>3 DEF ClientType, Received
  <2>5. ASSUME NEW uid \in cameras \X Video PROVE KeepsUp(uid)'
    <3>1. /\ Queues(uid, inbox[uid[2]], sent, cameras) /\ uid[2] \in Video
      BY <1>5, <2>5, StreamParts
    <3>2. PICK low \in Nat : /\ Pending(uid, inbox[uid[2]], sent, low, encoder[uid].seq)
                             /\ WaitsFor(context[uid], low)
      BY <2>5 DEF KeepingUp, KeepsUp
    <3>3. p.uid # uid
      BY <1>2, <1>7, <3>1
    <3>4. Pending(uid, inbox[uid[2]], Tail(sent), low, encoder[uid].seq)
      BY <1>1, <1>2, <3>1, <3>2, <3>3, OtherLeaves
    <3>5. QED
      BY <1>1, <1>4, <2>3, <3>1, <3>2, <3>4 DEF KeepsUp
  <2>6. QED
    BY <2>4, <2>5 DEF KeepingUp
<1>8. CASE p.kind \in Video
  <2>1. p \in VideoPacket
    BY <1>2, <1>8 DEF MotionPacket
  <2>2. /\ m.serial = p.uid[1] /\ m.kind = p.kind /\ m.id = p.id /\ m.run = p.run
        /\ m.key = p.key /\ m.flag = p.flag /\ InboxOf(m.kind) = p.kind
        /\ m = [serial |-> p.uid[1], kind |-> p.kind, run |-> p.run, id |-> p.id,
                key |-> p.key, flag |-> p.flag]
    BY <1>3, <1>8 DEF AsReceived, InboxOf
  <2>3. p.uid \in cameras \X Video /\ p.uid = <<p.uid[1], p.uid[2]>>
    BY <1>2, <1>8, <2>1 DEF VideoPacket, AllUids
  <2>4. PICK plow \in Nat : Pending(p.uid, inbox[p.kind], sent, plow, encoder[p.uid].seq)
    BY <1>2, <2>3 DEF KeepingUp, KeepsUp
  <2>5. p.run = 1 /\ (p.flag => p.key)
    <3>1. 1 \in InTransit(sent, p.uid)
      BY <1>2 DEF InTransit
    <3>2. QED
      BY <1>2, <2>4, <3>1 DEF Pending
  <2>6. m \in Received(cameras)
    BY <1>8, <2>1, <2>2, <2>3, <2>5 DEF VideoPacket, Received
  <2>7. \A k \in Video : inbox'[k] = IF k = p.kind THEN Append(inbox[k], m) ELSE inbox[k]
    BY <1>4, <1>5, <2>2 DEF ClientType, Video, Inboxes
  <2>8. ClientType'
    <3>1. \A k \in Video : inbox'[k] \in Seq(Received(cameras))
      <4>1. ASSUME NEW k \in Video PROVE inbox'[k] \in Seq(Received(cameras))
        <5>1. inbox[k] \in Seq(Received(cameras))
          BY <1>5 DEF ClientType
        <5>2. Append(inbox[k], m) \in Seq(Received(cameras))
          BY <2>6, <5>1, QueueGrows
        <5>3. QED
          BY <2>7, <5>1, <5>2
      <4>2. QED
        BY <4>1
    <3>2. QED
      BY <1>4, <1>5, <1>6, <3>1 DEF ClientType, Received
  <2>9. ASSUME NEW uid \in cameras \X Video PROVE KeepsUp(uid)'
    <3>1. /\ Queues(uid, inbox[uid[2]], sent, cameras) /\ uid[2] \in Video
          /\ uid = <<uid[1], uid[2]>> /\ encoder[uid].seq \in Nat
      BY <1>5, <2>9, StreamParts
    <3>2. PICK low \in Nat : /\ Pending(uid, inbox[uid[2]], sent, low, encoder[uid].seq)
                             /\ WaitsFor(context[uid], low)
      BY <2>9 DEF KeepingUp, KeepsUp
    <3>3. SUFFICES Pending(uid, inbox'[uid[2]], Tail(sent), low, encoder[uid].seq)
      BY <1>1, <1>4, <3>2 DEF KeepsUp
    <3>4. CASE p.uid = uid
      <4>1. Pending(uid, Append(inbox[uid[2]], m), Tail(sent), low, encoder[uid].seq)
        BY <1>1, <1>2, <2>2, <2>5, <2>6, <3>1, <3>2, <3>4, PacketComes
      <4>2. QED
        BY <1>2, <2>7, <3>1, <3>4, <4>1
    <3>5. CASE p.uid # uid
      <4>1. Pending(uid, inbox[uid[2]], Tail(sent), low, encoder[uid].seq)
        BY <1>1, <1>2, <3>1, <3>2, <3>5, OtherLeaves
      <4>2. CASE p.kind # uid[2]
        BY <2>7, <3>1, <4>1, <4>2
      <4>3. CASE p.kind = uid[2]
        <5>1. m.serial # uid[1]
          BY <1>2, <2>2, <2>3, <3>1, <3>5, <4>3
        <5>2. Queues(uid, inbox[uid[2]], Tail(sent), cameras)
          <6>1. /\ Tail(sent) \in Seq(VideoPacket \cup MotionPacket)
                /\ \A n \in DOMAIN Tail(sent) :
                     n + 1 \in DOMAIN sent /\ Tail(sent)[n] = sent[n + 1]
            BY <1>1, QueueShrinks
          <6>2. \A n \in DOMAIN Tail(sent) : Tail(sent)[n].kind = Tail(sent)[n].uid[2]
            BY <3>1, <6>1 DEF Queues
          <6>3. QED
            BY <3>1, <6>1, <6>2 DEF Queues
        <5>3. Pending(uid, Append(inbox[uid[2]], m), Tail(sent), low, encoder[uid].seq)
          BY <2>6, <4>1, <5>1, <5>2, OtherComes
        <5>4. QED
          BY <2>7, <3>1, <4>3, <5>3
      <4>4. QED
        BY <4>2, <4>3
    <3>6. QED
      BY <3>4, <3>5
  <2>10. QED
    BY <2>8, <2>9 DEF KeepingUp
<1>9. QED
  BY <1>7, <1>8


(* The packet a client waits for is decoded, unless it looks for its first *)
(* key frame.                                                              *)
LEMMA TakesNext ==
  ASSUME NEW c, NEW cams, NEW p \in Received(cams), NEW low \in Nat, p.id = low,
         c.need \in BOOLEAN, p.flag => p.key, WaitsFor(c, low)
  PROVE  /\ AfterGap(c, p) = c
         /\ Skip(c, p) => c.need /\ WaitsFor(c, low + 1)
         /\ ~Skip(c, p) => /\ Taken(c, p).good /\ Taken(c, p).need = FALSE
                           /\ WaitsFor(Taken(c, p), low + 1)
<1>1. p.run = 1
  BY DEF Received
<1>2. AfterGap(c, p) = c
  BY <1>1 DEF AfterGap, WaitsFor
<1>3. Skip(c, p) => c.need /\ WaitsFor(c, low + 1)
  BY DEF Skip, WaitsFor
<1>4. ASSUME ~Skip(c, p)
      PROVE  /\ Taken(c, p).good /\ Taken(c, p).need = FALSE
             /\ WaitsFor(Taken(c, p), low + 1)
  <2>1. p.key \/ Follows(c, p)
    <3>1. CASE c.need
      BY <1>4, <3>1 DEF Skip
    <3>2. CASE ~c.need
      BY <1>1, <3>2 DEF WaitsFor, Follows
    <3>3. QED
      BY <3>1, <3>2
  <2>2. Taken(c, p).good
    BY <2>1 DEF Taken
  <2>3. Taken(c, p).need = FALSE /\ Taken(c, p).last = p.id /\ Taken(c, p).ref = p
    BY DEF Taken
  <2>4. QED
    BY <1>1, <2>2, <2>3 DEF WaitsFor
<1>5. QED
  BY <1>2, <1>3, <1>4

NoneResyncs == \A s \in DOMAIN context : ~context[s].need => ~context'[s].need

(* A packet is read.                                                       *)
LEMMA ReadKeepsUp ==
  ASSUME ServerType, KeepingUp, UNCHANGED <<cameras, encoder, sent>>, NEW b \in Video, Read(b),
         NEW p, p = Head(inbox[b]), NEW s, s = <<p.serial, b>>, NEW next,
         context' = [context EXCEPT ![s] = next],
         \/ Skip(AfterGap(context[s], p), p) /\ next = AfterGap(context[s], p)
         \/ /\ ~Skip(AfterGap(context[s], p), p)
            /\ \/ next = Taken(AfterGap(context[s], p), p)
               \/ ~Taken(AfterGap(context[s], p), p).good
  PROVE  KeepingUp' /\ NoneResyncs
<1>1. ClientType /\ inbox[b] # <<>> /\ inbox' = [inbox EXCEPT ![b] = Tail(@)]
  BY DEF KeepingUp, Read
<1>2. /\ inbox[b] \in Seq(Received(cameras)) /\ p \in Received(cameras)
      /\ Tail(inbox[b]) \in Seq(Received(cameras))
  <2>1. inbox[b] \in Seq(Received(cameras))
    BY <1>1 DEF ClientType
  <2>2. QED
    BY <1>1, <2>1, QueueShrinks
<1>3. s \in cameras \X Video /\ s[1] = p.serial /\ s[2] = b
  BY <1>2 DEF Received
<1>4. PICK low \in Nat : /\ Pending(s, inbox[b], sent, low, encoder[s].seq)
                         /\ WaitsFor(context[s], low)
  BY <1>3 DEF KeepingUp, KeepsUp
<1>5. Queues(s, inbox[b], sent, cameras) /\ encoder[s].seq \in Nat /\ s \in Serials \X Video
  BY <1>1, <1>3, StreamParts
<1>6. p.id = low /\ (p.flag => p.key)
      /\ Pending(s, Tail(inbox[b]), sent, low + 1, encoder[s].seq)
  BY <1>1, <1>3, <1>4, <1>5, PacketRead
<1>7. context[s].need \in BOOLEAN
  BY <1>1, <1>5 DEF ClientType
<1>8. /\ next.need \in BOOLEAN /\ WaitsFor(next, low + 1)
      /\ ~context[s].need => ~next.need
  <2>1. /\ AfterGap(context[s], p) = context[s]
        /\ Skip(context[s], p) => context[s].need /\ WaitsFor(context[s], low + 1)
        /\ ~Skip(context[s], p) => /\ Taken(context[s], p).good
                                   /\ Taken(context[s], p).need = FALSE
                                   /\ WaitsFor(Taken(context[s], p), low + 1)
    <3>1. PICK c : c = context[s]
      OBVIOUS
    <3>2. c.need \in BOOLEAN /\ WaitsFor(c, low)
      BY <1>4, <1>7, <3>1
    <3>3. p \in Received(cameras) /\ (p.flag => p.key) /\ p.id = low
      BY <1>2, <1>6
    <3>4. /\ AfterGap(c, p) = c
          /\ Skip(c, p) => c.need /\ WaitsFor(c, low + 1)
          /\ ~Skip(c, p) => /\ Taken(c, p).good /\ Taken(c, p).need = FALSE
                            /\ WaitsFor(Taken(c, p), low + 1)
      BY <3>2, <3>3, TakesNext
    <3>5. QED
      BY <3>1, <3>4
  <2>2. CASE Skip(context[s], p)
    <3>1. next = context[s]
      BY <2>1, <2>2
    <3>2. QED
      BY <1>7, <2>1, <2>2, <3>1
  <2>3. CASE ~Skip(context[s], p)
    <3>1. next = Taken(context[s], p)
      BY <2>1, <2>3
    <3>2. QED
      BY <2>1, <2>3, <3>1
  <2>4. QED
    BY <2>2, <2>3
<1>9. /\ \A k \in Video : inbox'[k] = IF k = b THEN Tail(inbox[k]) ELSE inbox[k]
      /\ \A uid \in Serials \X Video :
           context'[uid] = IF uid = s THEN next ELSE context[uid]
      /\ DOMAIN context = Serials \X Video
  BY <1>1, <1>5 DEF ClientType, Video, Inboxes
<1>10. ClientType'
  <2>1. PICK T, C : inbox \in [Inboxes -> T] /\ context \in [Serials \X Video -> C]
    BY <1>1 DEF ClientType
  <2>2. /\ inbox' \in [Inboxes -> T \cup {Tail(inbox[b])}]
        /\ context' \in [Serials \X Video -> C \cup {next}]
    BY <1>1, <2>1
  <2>3. \A k \in Video : inbox'[k] \in Seq(Received(cameras))
    BY <1>1, <1>2, <1>9 DEF ClientType
  <2>4. \A uid \in Serials \X Video : context'[uid].need \in BOOLEAN
    BY <1>1, <1>8, <1>9 DEF ClientType
  <2>5. cameras \subseteq Serials /\ cameras' = cameras
    BY <1>1 DEF ClientType
  <2>6. \A k \in Video : inbox'[k] \in Seq(Received(cameras'))
    BY <2>3, <2>5
  <2>7. \E U : inbox' \in [Inboxes -> U]
    BY <2>2
  <2>8. \E U : context' \in [Serials \X Video -> U]
    BY <2>2
  <2>9. QED
    BY <2>4, <2>5, <2>6, <2>7, <2>8 DEF ClientType, Received
<1>11. ASSUME NEW uid \in cameras \X Video PROVE KeepsUp(uid)'
  <2>1. CASE uid = s
    <3>1. Pending(uid, inbox'[uid[2]], sent, low + 1, encoder[uid].seq)
      BY <1>3, <1>6, <1>9, <2>1
    <3>2. WaitsFor(context'[uid], low + 1)
      BY <1>5, <1>8, <1>9, <2>1
    <3>3. QED
      BY <3>1, <3>2 DEF KeepsUp
  <2>2. CASE uid # s
    <3>1. PICK l \in Nat : /\ Pending(uid, inbox[uid[2]], sent, l, encoder[uid].seq)
                           /\ WaitsFor(context[uid], l)
      BY <1>11 DEF KeepingUp, KeepsUp
    <3>2. /\ Queues(uid, inbox[uid[2]], sent, cameras) /\ uid \in Serials \X Video
          /\ uid[2] \in Video /\ uid = <<uid[1], uid[2]>>
      BY <1>1, <1>11, StreamParts
    <3>3. Pending(uid, inbox'[uid[2]], sent, l, encoder[uid].seq)
      <4>1. CASE uid[2] # b
        BY <1>9, <3>1, <3>2, <4>1
      <4>2. CASE uid[2] = b
        <5>1. p.serial # uid[1]
          BY <2>2, <3>2, <4>2
        <5>2. Pending(uid, Tail(inbox[uid[2]]), sent, l, encoder[uid].seq)
          BY <1>1, <3>1, <3>2, <4>2, <5>1, OtherRead
        <5>3. QED
          BY <1>9, <3>2, <4>2, <5>2
      <4>3. QED
        BY <4>1, <4>2
    <3>4. QED
      BY <1>9, <2>2, <3>1, <3>2, <3>3 DEF KeepsUp
  <2>3. QED
    BY <2>1, <2>2
<1>12. NoneResyncs
  BY <1>8, <1>9 DEF NoneResyncs
<1>13. QED
  BY <1>10, <1>11, <1>12 DEF KeepingUp

(* The other steps of the client leave the video streams alone.            *)
LEMMA RestKeepsUp ==
  ASSUME ClientType, KeepingUp, UNCHANGED <<cameras, encoder, sent, context>>,
         \A k \in Video : inbox'[k] = inbox[k], \E T : inbox' \in [Inboxes -> T]
  PROVE  KeepingUp' /\ NoneResyncs
<1>1. ClientType'
  BY DEF ClientType, Received
<1>2. ASSUME NEW uid \in cameras \X Video PROVE KeepsUp(uid)'
  <2>1. inbox'[uid[2]] = inbox[uid[2]]
    OBVIOUS
  <2>2. QED
    BY <1>2, <2>1 DEF KeepingUp, KeepsUp
<1>3. QED
  BY <1>1, <1>2 DEF KeepingUp, NoneResyncs

LEMMA ClientKeepsUp ==
  ASSUME ServerType, KeepingUp, UNCHANGED server,
         \/ \E b \in Inboxes : Worker(b)
         \/ \E s \in Serials : UpdateState(s)
         \/ Lifecycle
  PROVE  KeepingUp' /\ NoneResyncs
<1>1. UNCHANGED <<cameras, encoder, sent>> /\ ClientType
  BY DEF server, KeepingUp
<1>2. CASE UNCHANGED <<inbox, context>>
  BY <1>1, <1>2, RestKeepsUp DEF ClientType
<1>3. ASSUME NEW b \in Inboxes, SkipPacket(b) PROVE KeepingUp' /\ NoneResyncs
  <2>1. PICK p, s, next : /\ p = Head(inbox[b]) /\ s = <<p.serial, b>>
                          /\ next = AfterGap(context[s], p)
    OBVIOUS
  <2>2. /\ b \in Video /\ Read(b) /\ Skip(AfterGap(context[s], p), p)
        /\ context' = [context EXCEPT ![s] = next]
    BY <1>3, <2>1 DEF SkipPacket
  <2>3. QED
    BY <1>1, <2>1, <2>2, ReadKeepsUp
<1>4. ASSUME NEW b \in Inboxes, NEW next \in Contexts(b), Decode(b, next) \/ Refuse(b, next)
      PROVE  KeepingUp' /\ NoneResyncs
  <2>1. PICK p, s : p = Head(inbox[b]) /\ s = <<p.serial, b>>
    OBVIOUS
  <2>2. /\ b \in Video /\ Read(b) /\ ~Skip(AfterGap(context[s], p), p)
        /\ next = Taken(AfterGap(context[s], p), p)
    BY <1>4, <2>1 DEF Decode, Refuse, TakePacket
  <2>3. next.ref.serial = p.serial
    BY <2>2 DEF Taken
  <2>4. CASE Decode(b, next)
    <3>1. context' = [context EXCEPT ![s] = next]
      BY <2>1, <2>3, <2>4 DEF Decode
    <3>2. QED
      BY <1>1, <2>1, <2>2, <3>1, ReadKeepsUp
  <2>5. CASE Refuse(b, next)
    <3>1. PICK n : n = IF Checks(b) THEN next ELSE Fresh
      OBVIOUS
    <3>2. context' = [context EXCEPT ![s] = n] /\ ~next.good
      BY <2>1, <2>3, <2>5, <3>1 DEF Refuse
    <3>3. QED
      BY <1>1, <2>1, <2>2, <3>2, ReadKeepsUp
  <2>6. QED
    BY <1>4, <2>4, <2>5
<1>5. CASE TakeMotion
  <2>1. inbox' = [inbox EXCEPT !["motion"] = Tail(@)] /\ UNCHANGED context
    BY <1>5 DEF TakeMotion, Read
  <2>2. PICK T : inbox \in [Inboxes -> T]
    BY <1>1 DEF ClientType
  <2>3. /\ inbox' \in [Inboxes -> T \cup {Tail(inbox["motion"])}]
        /\ \A k \in Video : inbox'[k] = inbox[k]
    BY <2>1, <2>2 DEF Video, Inboxes
  <2>4. QED
    BY <1>1, <2>1, <2>3, RestKeepsUp
<1>6. QED
  BY <1>2, <1>3, <1>4, <1>5 DEF Worker, LoopTest, ReadStopped, UpdateState, Lifecycle,
     StopAll, StopBuffers, Join, Main, loop

-----------------------------------------------------------------------------
LEMMA StreamsStep ==
  ASSUME LiveInv, [StreamsNext]_streams
  PROVE  LiveInv' /\ (Undisturbed => NoneResyncs)
<1>1. /\ ServerType /\ ServerType' /\ cameras' = cameras /\ run \in Nat /\ focus' = focus
      /\ mode' = mode
  <2>1. mode' = mode
    BY DEF StreamsNext, OfServer, Lose, Receive, OfClient, OfPlayback, Watch, streams
  <2>2. QED
    BY <2>1, ServersPart, ServerStep DEF LiveInv, ServerType
<1>2. SUFFICES ASSUME mode = "live"
               PROVE  /\ Undisturbed' => KeepingUp'
                      /\ Undisturbed => NoneResyncs
  BY <1>1 DEF LiveInv, Undisturbed
<1>3. CASE UNCHANGED streams
  <2>1. UNCHANGED <<mode, lost, run, inbox, context, sent, encoder, cameras>>
    BY <1>3 DEF streams, server, vars
  <2>2. Undisturbed => KeepingUp' /\ NoneResyncs
    BY <2>1, RestKeepsUp DEF LiveInv, KeepingUp, ClientType
  <2>3. QED
    BY <2>1, <2>2 DEF Undisturbed
<1>4. CASE OfServer(Server!Step(focus))
  <2>1. Server!Step(focus) /\ UNCHANGED <<lost, inbox, context>>
    BY <1>4 DEF OfServer, vars
  <2>2. NoneResyncs
    BY <2>1 DEF NoneResyncs
  <2>3. ASSUME Undisturbed' PROVE KeepingUp'
    <3>1. run' = 1 /\ ~lost
      BY <2>1, <2>3 DEF Undisturbed
    <3>2. run = 1
      <4>1. run' = run \/ run' = run + 1
        BY <1>1, <2>1, StepCases, QuietLeaves, RestartType, CollectType, FrameArrivesType,
           EncodeType
      <4>2. run > 0 /\ run \in Nat
        BY <1>1 DEF ServerType
      <4>3. QED
        BY <3>1, <4>1, <4>2
    <3>3. KeepingUp
      BY <1>2, <3>1, <3>2 DEF LiveInv, Undisturbed
    <3>4. QED
      BY <1>1, <2>1, <3>1, <3>2, <3>3, ServerKeepsUp
  <2>4. QED
    BY <2>2, <2>3
<1>5. CASE Lose
  <2>1. lost' = TRUE /\ UNCHANGED context
    BY <1>5 DEF Lose, vars
  <2>2. QED
    BY <2>1 DEF Undisturbed, NoneResyncs
<1>6. CASE Receive
  <2>1. /\ Server!Leave /\ Deliver(AsReceived(Head(sent)))
        /\ lost' = (lost \/ inbox' = inbox) /\ UNCHANGED context
    BY <1>6 DEF Receive, Deliver
  <2>2. NoneResyncs
    BY <2>1 DEF NoneResyncs
  <2>3. ASSUME Undisturbed' PROVE KeepingUp'
    <3>1. ~lost /\ inbox' # inbox /\ run = 1
      BY <1>1, <2>1, <2>3, LeaveType DEF Undisturbed
    <3>2. KeepingUp
      BY <1>2, <3>1 DEF LiveInv, Undisturbed
    <3>3. QED
      BY <1>1, <2>1, <3>1, <3>2, ReceiveKeepsUp
  <2>4. QED
    BY <2>2, <2>3
<1>7. CASE OfClient((\E b \in Inboxes : Worker(b)) \/ (\E s \in Serials : UpdateState(s))
                      \/ Lifecycle)
  <2>1. /\ UNCHANGED <<mode, lost, run>> /\ UNCHANGED server
        /\ \/ \E b \in Inboxes : Worker(b)
           \/ \E s \in Serials : UpdateState(s)
           \/ Lifecycle
    BY <1>7 DEF OfClient, server
  <2>2. Undisturbed => KeepingUp' /\ NoneResyncs
    BY <1>1, <2>1, ClientKeepsUp DEF LiveInv
  <2>3. QED
    BY <2>1, <2>2 DEF Undisturbed
<1>8. QED
  BY <1>2, <1>3, <1>4, <1>5, <1>6, <1>7 DEF StreamsNext, OfPlayback, Watch, Watched

LEMMA LiveStarts ==
  ASSUME StreamsInit PROVE LiveInv
<1>1. ServerType
  BY ServerStarts
<1>2. ASSUME mode = "live" PROVE KeepingUp
  <2>1. /\ cameras \subseteq Serials /\ sent = <<>>
        /\ inbox = [b \in Inboxes |-> <<>>] /\ context = [s \in Serials \X Video |-> Fresh]
    BY <1>2 DEF StreamsInit, Init, Server!Init
  <2>2. ClientType
    <3>1. \A k \in Video : inbox[k] = <<>> /\ inbox[k] \in Seq(Received(cameras))
      BY <2>1 DEF Video, Inboxes
    <3>2. inbox \in [Inboxes -> {<<>>}] /\ context \in [Serials \X Video -> {Fresh}]
      BY <2>1
    <3>3. \A uid \in Serials \X Video : context[uid].need \in BOOLEAN
      BY <2>1 DEF Fresh
    <3>4. QED
      BY <2>1, <3>1, <3>2, <3>3 DEF ClientType
  <2>3. ASSUME NEW uid \in cameras \X Video PROVE KeepsUp(uid)
    <3>1. inbox[uid[2]] = <<>> /\ uid \in AllUids /\ uid \in Serials \X Video
      BY <2>1 DEF Video, Inboxes, AllUids, Kinds
    <3>2. encoder[uid].seq = 0
      BY <3>1, RingKinds DEF StreamsInit, Server!Init, Server!NewEncoders, Server!Uids, AllUids
    <3>3. InBuffer(inbox[uid[2]], uid) = {} /\ InTransit(sent, uid) = {}
      BY <2>1, <3>1 DEF InBuffer, InTransit
    <3>4. Pending(uid, inbox[uid[2]], sent, 0, encoder[uid].seq)
      BY <3>2, <3>3 DEF Pending
    <3>5. WaitsFor(context[uid], 0)
      BY <2>1, <3>1 DEF WaitsFor, Fresh
    <3>6. QED
      BY <3>4, <3>5 DEF KeepsUp
  <2>4. QED
    BY <2>2, <2>3 DEF KeepingUp
<1>3. QED
  BY <1>1, <1>2 DEF LiveInv, Undisturbed

(* A client that has its key frame never waits for another one as long as  *)
(* no packet is lost and the server is not restarted, for any cameras,     *)
(* buffer sizes and frames dropped by the cameras' buffers                 *)
(* (server.cpp:119, 259; client.cpp:109-118, 206-216).                     *)
THEOREM NoResyncIsNeedless == StreamsSpec => NoNeedlessResync
<1>1. StreamsInit => LiveInv
  BY LiveStarts
<1>2. LiveInv /\ [StreamsNext]_streams => LiveInv'
  BY StreamsStep
<1>3. ASSUME LiveInv, [StreamsNext]_streams
      PROVE  [mode = "live" /\ ~lost /\ run = 1 =>
                \A s \in DOMAIN context : ~context[s].need => ~context'[s].need]_context
  BY <1>3, StreamsStep DEF Undisturbed, NoneResyncs
<1>4. QED
  BY <1>1, <1>2, <1>3, PTL DEF StreamsSpec, NoNeedlessResync

-----------------------------------------------------------------------------
(* The client that is fed by the server or by a recording is the client    *)
(* fed by anything, as long as Packet and Motion leave out nothing these   *)
(* may send.                                                               *)
NothingLeftOut ==
  /\ \A p \in [serial : Serials, kind : Video, run : Nat, id : Nat, key : BOOLEAN,
               flag : BOOLEAN] : (p.flag => p.key) => p \in Packet
  /\ [serial : Serials, kind : Kinds \ Video, run : Nat, id : Nat] \subseteq Motion
  /\ \A i \in DOMAIN log : log[i].message \in Packet \cup Motion

Messages == { log[i].message : i \in DOMAIN log }

Fed ==
  /\ mode = "live" => cameras \subseteq Serials
  /\ \A n \in DOMAIN sent : sent[n] \in VideoPacket => (sent[n].flag => sent[n].key)
  /\ queue \in Seq(Messages)

LEMMA ServerSendsFlags ==
  ASSUME ServerType, UNCHANGED focus, Server!Step(focus)
  PROVE  \/ sent' = sent
         \/ \E p \in VideoPacket \cup MotionPacket :
              sent' = Append(sent, p) /\ (p \in VideoPacket => (p.flag => p.key))
<1>1. CASE Server!Restart
  BY <1>1, RestartType
<1>2. CASE ~Server!Restart
  <2>1. run' = run
    BY <1>2, StepCases, QuietLeaves, CollectType, FrameArrivesType, EncodeType
  <2>2. ASSUME NEW p \in MotionPacket, sent' = Append(sent, p)
        PROVE  p \in VideoPacket \cup MotionPacket /\ p \notin VideoPacket
    BY <2>2 DEF VideoPacket, MotionPacket
  <2>3. QED
    BY <2>1, <2>2, ServerSends DEF SendsVideo
<1>3. QED
  BY <1>1, <1>2

LEMMA FedAlways == StreamsSpec => [](ServerType /\ Fed)
<1>1. StreamsInit => Fed
  <2>1. ASSUME StreamsInit PROVE Fed
    <3>1. sent = <<>> /\ queue = <<>> /\ (mode = "live" => cameras \subseteq Serials)
      BY <2>1 DEF StreamsInit, Server!Init, Playback!Init
    <3>2. queue \in Seq(Messages) /\ DOMAIN sent = {}
      BY <3>1
    <3>3. QED
      BY <3>1, <3>2 DEF Fed
  <2>2. QED
    BY <2>1
<1>2. ServerType /\ PlaybackInv /\ Fed /\ [StreamsNext]_streams => Fed'
  <2>1. SUFFICES ASSUME ServerType, PlaybackInv, Fed, [StreamsNext]_streams PROVE Fed'
    OBVIOUS
  <2>2. ServerType' /\ cameras' = cameras /\ UNCHANGED focus
        /\ (Server!Step(focus) \/ Server!Leave \/ UNCHANGED server)
    BY <2>1, ServersPart, ServerStep
  <2>3. mode' = mode
    BY <2>1 DEF StreamsNext, OfServer, Lose, Receive, OfClient, OfPlayback, Watch, streams
  <2>4. AllUids' = AllUids /\ VideoPacket' = VideoPacket
    BY <2>2 DEF AllUids, VideoPacket
  <2>5. \A n \in DOMAIN sent' : sent'[n] \in VideoPacket => (sent'[n].flag => sent'[n].key)
    <3>1. sent \in Seq(VideoPacket \cup MotionPacket)
      BY <2>1 DEF ServerType
    <3>2. CASE sent' = sent
      BY <2>1, <3>2 DEF Fed
    <3>3. ASSUME NEW p \in VideoPacket \cup MotionPacket, sent' = Append(sent, p),
                 p \in VideoPacket => (p.flag => p.key)
          PROVE  \A n \in DOMAIN sent' :
                   sent'[n] \in VideoPacket => (sent'[n].flag => sent'[n].key)
      <4>1. \A n \in DOMAIN sent' : (n \in DOMAIN sent /\ sent'[n] = sent[n]) \/ sent'[n] = p
        BY <3>1, <3>3, QueueGrows
      <4>2. QED
        BY <2>1, <3>3, <4>1 DEF Fed
    <3>4. CASE Server!Leave
      <4>1. sent # <<>> /\ sent' = Tail(sent)
        BY <2>1, <2>2, <3>4, LeaveType
      <4>2. \A n \in DOMAIN sent' : n + 1 \in DOMAIN sent /\ sent'[n] = sent[n + 1]
        BY <3>1, <4>1, QueueShrinks
      <4>3. QED
        BY <2>1, <4>2 DEF Fed
    <3>5. QED
      BY <2>1, <2>2, <3>2, <3>3, <3>4, ServerSendsFlags DEF server
  <2>6. queue' \in Seq(Messages)
    <3>1. queue \in Seq(Messages)
      BY <2>1 DEF Fed
    <3>2. CASE queue' = queue \/ queue' = <<>>
      <4>1. <<>> \in Seq(Messages)
        OBVIOUS
      <4>2. QED
        BY <3>1, <3>2, <4>1
    <3>3. CASE Playback!Send
      <4>1. queue # <<>> /\ queue' = Tail(queue)
        BY <3>3 DEF Playback!Send
      <4>2. QED
        BY <3>1, <4>1, QueueShrinks
    <3>4. ASSUME NEW i \in todo, Playback!PublishRow(i) PROVE queue' \in Seq(Messages)
      <4>1. i \in DOMAIN log /\ log[i].message \in Messages
        BY <2>1, <3>4 DEF PlaybackInv, PlaybackType, Messages
      <4>2. Append(queue, log[i].message) \in Seq(Messages)
        BY <3>1, <4>1, QueueGrows
      <4>3. queue' = queue \/ queue' = Append(queue, log[i].message)
        BY <3>4 DEF Playback!PublishRow, Playback!Request
      <4>4. QED
        BY <3>1, <4>2, <4>3
    <3>5. CASE Playback!User \/ Playback!Quit \/ UNCHANGED playback
      BY <3>2, <3>5 DEF Playback!User, Playback!Frame, Playback!Quit,
         Playback!publisher, playback
    <3>6. CASE Playback!Turn
      BY <3>2, <3>4, <3>6 DEF Playback!Turn, Playback!ReadPosition,
         Playback!StopPlayback, Playback!RequestClear, Playback!FindSegments,
         Playback!NextSegment, Playback!StartHere, Playback!Query, Playback!EndTurn
    <3>7. CASE Playback!Publishing
      BY <3>2, <3>7 DEF Playback!Publishing, Playback!TestStop, Playback!TestClear,
         Playback!ClearQueue, Playback!Unflag
    <3>8. QED
      BY <2>1, <3>3, <3>5, <3>6, <3>7 DEF StreamsNext, OfServer, Lose, Receive, OfClient,
         OfPlayback, Watch, Ignored, streams
  <2>7. Messages' = Messages
    BY DEF Messages
  <2>8. QED
    BY <2>1, <2>2, <2>3, <2>4, <2>5, <2>6, <2>7 DEF Fed
<1>3. QED
  BY <1>1, <1>2, ServerAlways, PlaybackAlways, PTL DEF StreamsSpec

(* A step of the streams is a step of the client, or none.                 *)
LEMMA ClientsPart ==
  ASSUME NothingLeftOut, ServerType, Fed, [StreamsNext]_streams
  PROVE  [Next]_vars
<1>1. CASE UNCHANGED vars
  BY <1>1
<1>2. ASSUME NEW A, OfClient(A) PROVE A
  BY <1>2 DEF OfClient
<1>3. CASE Receive
  <2>1. sent \in Seq(VideoPacket \cup MotionPacket) /\ sent # <<>> /\ mode = "live"
        /\ Deliver(AsReceived(Head(sent)))
    BY <1>3 DEF Receive, Server!Leave, ServerType
  <2>2. PICK p \in VideoPacket \cup MotionPacket :
          p = Head(sent) /\ 1 \in DOMAIN sent /\ p = sent[1]
    BY <2>1, QueueShrinks
  <2>3. p.uid[1] \in Serials /\ p.run \in Nat /\ p.id \in Nat
    <3>1. p.uid \in AllUids /\ p.run \in Nat /\ p.id \in Nat
      BY DEF VideoPacket, MotionPacket
    <3>2. p.uid[1] \in cameras
      BY <3>1 DEF AllUids
    <3>3. QED
      BY <2>1, <3>1, <3>2 DEF Fed
  <2>4. AsReceived(p) \in Packet \cup Motion
    <3>1. CASE p \in VideoPacket
      <4>1. p.kind \in Video /\ p.key \in BOOLEAN /\ p.flag \in BOOLEAN /\ (p.flag => p.key)
        BY <2>2, <3>1 DEF VideoPacket, Fed
      <4>2. PICK m : m = [serial |-> p.uid[1], kind |-> p.kind, run |-> p.run, id |-> p.id,
                          key |-> p.key, flag |-> p.flag]
        OBVIOUS
      <4>3. m \in Packet
        BY <2>3, <4>1, <4>2 DEF NothingLeftOut
      <4>4. QED
        BY <4>1, <4>2, <4>3 DEF AsReceived
    <3>2. CASE p \in MotionPacket
      BY <2>3, <3>2 DEF MotionPacket, AsReceived, NothingLeftOut
    <3>3. QED
      BY <3>1, <3>2
  <2>5. QED
    BY <2>1, <2>2, <2>4 DEF Next
<1>4. CASE Watch
  <2>1. queue \in Seq(Messages) /\ queue # <<>> /\ Deliver(Head(queue))
    BY <1>4 DEF Watch, Fed
  <2>2. Head(queue) \in Messages
    BY <2>1, QueueShrinks
  <2>3. Head(queue) \in Packet \cup Motion
    BY <2>2 DEF Messages, NothingLeftOut
  <2>4. QED
    BY <2>1, <2>3 DEF Next
<1>5. QED
  BY <1>1, <1>3, <1>4 DEF StreamsNext, OfServer, Lose, OfClient, OfPlayback, streams, Next

(* Whoever feeds the client, it is the client of StreamClient.             *)
THEOREM ClientIsFed == NothingLeftOut => (StreamsSpec => Spec)
<1> SUFFICES ASSUME NothingLeftOut PROVE StreamsSpec => Spec
  OBVIOUS
<1>1. StreamsInit => Init
  BY DEF StreamsInit
<1>2. ServerType /\ Fed /\ [StreamsNext]_streams => [Next]_vars
  BY ClientsPart
<1>3. QED
  BY <1>1, <1>2, FedAlways, PTL DEF StreamsSpec, Spec

(* A picture shown of a server or of a recording is what the server saw,   *)
(* unless packets of two of its runs were mixed, whatever the network lost,*)
(* the buffers dropped or the user jumped to (client.cpp:109-137, 206-231).*)
THEOREM FedPicturesSound == NothingLeftOut => (StreamsSpec => []PicturesAreSound)
BY ClientIsFed, PicturesSound, PTL

=============================================================================
