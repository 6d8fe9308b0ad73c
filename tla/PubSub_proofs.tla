--------------------------- MODULE PubSub_proofs ----------------------------
(***************************************************************************)
(* TLAPS proofs about PubSub, for any number of threads that publish, any  *)
(* topics and subscribers, and any capacities: what                        *)
(* publisher_requests_clear() gives up, the order in which subscribers get *)
(* to see what is published, that it is a bus, and what the log holds; and *)
(* about Payload, for any frames and any classes: that the log gives back  *)
(* what it was given, and a reader what was written.                       *)
(***************************************************************************)
EXTENDS PubSub, Payload, SequenceTheorems, WellFoundedInduction, TLAPS

Requests ==
  {Bind} \cup [kind : {"publish"}, topic : Topic, frames : FrameCounts, header : Headers,
               by : Client, n : Nat, position : Nat]

QueueType == pubQueue \in Seq(Requests) /\ made \in [Client \cup {Remote} -> Nat] /\ position \in Nat

(* No request is pending that was made before the last clear.              *)
AllCurrent ==
  \A i \in 1..Len(pubQueue) : pubQueue[i] = Bind \/ pubQueue[i].position = position

(* Between clear() and the store of false, the flag is still up although   *)
(* the queue is what it shall be when the flag is down.                    *)
ClearedUnlessOverlooked ==
  /\ ppc = "unflag" => overlooked \/ AllCurrent
  /\ clearing \/ overlooked \/ AllCurrent

IInv == QueueType /\ ClearedUnlessOverlooked

LEMMA AppendAt ==
  ASSUME NEW S, NEW s \in Seq(S), NEW x \in S
  PROVE  /\ Append(s, x) \in Seq(S)
         /\ Len(s) \in Nat /\ Len(Append(s, x)) = Len(s) + 1
         /\ \A i \in 1..Len(s) : Append(s, x)[i] = s[i]
         /\ Append(s, x)[Len(s) + 1] = x
BY AppendProperties

LEMMA TailAt ==
  ASSUME NEW S, NEW s \in Seq(S), s # <<>>
  PROVE  /\ Tail(s) \in Seq(S)
         /\ Len(s) \in Nat \ {0}
         /\ Len(Tail(s)) = Len(s) - 1
         /\ \A i \in 1..Len(Tail(s)) : i + 1 \in 1..Len(s) /\ Tail(s)[i] = s[i + 1]
BY HeadTailProperties, EmptySeq

Unaffected ==
  /\ UNCHANGED <<pubQueue, made, position, clearing, overlooked>>
  /\ ppc' = "unflag" => ppc = "unflag"

(* A request is refused by a full queue.                                   *)
LEMMA Requested ==
  ASSUME IInv, NEW r \in Requests, r = Bind \/ r.position = position,
         RequestOfPublisher(r),
         made' \in [Client \cup {Remote} -> Nat],
         UNCHANGED <<position, clearing, overlooked, ppc>>
  PROVE  IInv'
<1>1. CASE pubQueue' = pubQueue
  BY <1>1 DEF IInv, QueueType, ClearedUnlessOverlooked, AllCurrent
<1>2. CASE pubQueue' = Append(pubQueue, r)
  <2>1. /\ pubQueue' \in Seq(Requests)
        /\ Len(pubQueue) \in Nat /\ Len(pubQueue') = Len(pubQueue) + 1
        /\ \A i \in 1..Len(pubQueue) : pubQueue'[i] = pubQueue[i]
        /\ pubQueue'[Len(pubQueue) + 1] = r
    BY <1>2, AppendAt DEF IInv, QueueType
  <2>2. AllCurrent => AllCurrent'
    <3>1. \A i \in 1..Len(pubQueue') : i \in 1..Len(pubQueue) \/ i = Len(pubQueue) + 1
      BY <2>1
    <3>2. QED
      BY <2>1, <3>1 DEF AllCurrent
  <2>3. QED
    BY <2>1, <2>2 DEF IInv, QueueType, ClearedUnlessOverlooked
<1>3. QED
  BY <1>1, <1>2 DEF RequestOfPublisher

LEMMA Calls ==
  ASSUME Call
  PROVE  \/ \E c \in Client, t \in Topic, k \in FrameCounts, h \in Headers :
              Publish(c, t, k, h)
         \/ PublisherRequestsClear
         \/ \E t \in Topic : RemotePublish(t)
         \/ Unaffected
<1>1. ASSUME NEW o \in Output, SubscribeTo(o) PROVE Unaffected
  BY <1>1 DEF SubscribeTo, Unaffected, pubVars, queueVars
<1>2. ASSUME EnableRecording \/ DisableRecording PROVE Unaffected
  BY <1>2 DEF EnableRecording, DisableRecording, Unaffected, pubVars, queueVars, callVars
<1>3. ASSUME NEW o \in Buffers, Consume(o) PROVE Unaffected
  BY <1>3 DEF Consume, Unaffected, pubVars, queueVars, callVars
<1>4. QED
  BY <1>1, <1>2, <1>3 DEF Call

LEMMA Threads ==
  ASSUME PublisherThread \/ SubscriberThread \/ RecorderThread
  PROVE  PubClear \/ PubUnflag \/ PubRead \/ Unaffected
<1>1. ASSUME PubTestStop \/ PubTestClear PROVE Unaffected
  BY <1>1 DEF PubTestStop, PubTestClear, Publisher, Unaffected, notPublisher, queueVars, callVars
<1>2. ASSUME PubThrow \/ PubBind PROVE Unaffected
  BY <1>2 DEF PubThrow, PubBind, Publisher, Unaffected, notPublisher, queueVars, callVars
<1>3. ASSUME PubSend PROVE Unaffected
  BY <1>3 DEF PubSend, Publisher, Unaffected, queueVars, callVars
<1>4. ASSUME SubscriberThread PROVE Unaffected
  <2>1. UNCHANGED <<pubVars, queueVars, callVars>>
    BY <1>4 DEF SubscriberThread, SubTestStop, SubTakeNothing, SubTake, SubReceive,
                SubTimeout, SubThrow, SubRoute, notSubscriber
  <2>2. QED
    BY <2>1 DEF Unaffected, pubVars, queueVars, callVars
<1>5. ASSUME RecorderThread PROVE Unaffected
  <2>1. UNCHANGED <<pubVars, queueVars, callVars>>
    BY <1>5 DEF RecorderThread, RecTestStop, RecRead, RecAppend, notRecorder
  <2>2. QED
    BY <2>1 DEF Unaffected, pubVars, queueVars, callVars
<1>6. QED
  BY <1>1, <1>2, <1>3, <1>4, <1>5 DEF PublisherThread

LEMMA Mains ==
  ASSUME InitConnect \/ Interrupt \/ CleanupStop \/ Cleanup
  PROVE  Unaffected
<1>1. UNCHANGED <<notMain, pubQueue>>
  BY DEF InitConnect, Interrupt, CleanupStop, Cleanup, CleanupShutdown, CleanupStopPublisher,
         CleanupStopSubscriber, CleanupStopRecorder, CleanupEnd
<1>2. QED
  BY <1>1 DEF Unaffected, notMain, pubVars, callVars

(* The steps that concern the queue, and the others.                       *)
LEMMA Steps ==
  ASSUME [Next]_vars
  PROVE  \/ \E c \in Client, t \in Topic, k \in FrameCounts, h \in Headers :
              Publish(c, t, k, h)
         \/ PublisherRequestsClear
         \/ \E t \in Topic : RemotePublish(t)
         \/ InitBind
         \/ PubClear \/ PubUnflag \/ PubRead
         \/ Unaffected
<1>1. ASSUME UNCHANGED vars PROVE Unaffected
  BY <1>1 DEF vars, Unaffected, pubVars, queueVars, callVars
<1>2. QED
  BY <1>1, Calls, Threads, Mains DEF Next

LEMMA InitInv == Init => IInv
<1> SUFFICES ASSUME Init PROVE IInv
  OBVIOUS
<1>1. pubQueue = <<>> /\ pubQueue \in Seq(Requests) /\ Len(pubQueue) = 0
  BY EmptySeq DEF Init
<1>2. QED
  BY <1>1 DEF Init, IInv, QueueType, ClearedUnlessOverlooked, AllCurrent

LEMMA Step == IInv /\ [Next]_vars => IInv'
<1> SUFFICES ASSUME IInv, [Next]_vars PROVE IInv'
  OBVIOUS
<1>0. QueueType /\ ClearedUnlessOverlooked /\ Len(pubQueue) \in Nat
  BY DEF IInv, QueueType
<1>1. ASSUME NEW c \in Client, NEW t \in Topic, NEW k \in FrameCounts, NEW h \in Headers,
             Publish(c, t, k, h)
      PROVE  IInv'
  <2> DEFINE r == [kind |-> "publish", topic |-> t, frames |-> k, header |-> h, by |-> c,
                   n |-> made[c], position |-> position]
  <2>1. r \in Requests /\ r.position = position
    BY <1>0 DEF QueueType, Requests
  <2>2. made' \in [Client \cup {Remote} -> Nat]
    BY <1>0, <1>1 DEF Publish, QueueType
  <2>3. RequestOfPublisher(r) /\ UNCHANGED <<position, clearing, overlooked, ppc>>
    BY <1>1 DEF Publish, pubVars
  <2> HIDE DEF r
  <2>4. QED
    BY <2>1, <2>2, <2>3, Requested
<1>2. ASSUME PublisherRequestsClear PROVE IInv'
  <2>1. /\ UNCHANGED <<pubQueue, made, ppc>> /\ position' = position + 1
        /\ clearing' = TRUE /\ (ppc = "unflag" => overlooked')
    BY <1>2 DEF PublisherRequestsClear, pubVars
  <2>2. QED
    BY <1>0, <2>1 DEF IInv, QueueType, ClearedUnlessOverlooked
<1>3. ASSUME NEW t \in Topic, RemotePublish(t) PROVE IInv'
  <2>1. /\ UNCHANGED <<pubQueue, ppc, position, clearing, overlooked>>
        /\ made' = [made EXCEPT ![Remote] = @ + 1]
    BY <1>3 DEF RemotePublish, pubVars, queueVars
  <2>2. QED
    BY <1>0, <2>1 DEF IInv, QueueType, ClearedUnlessOverlooked, AllCurrent
<1>4. ASSUME InitBind PROVE IInv'
  <2>1. RequestOfPublisher(Bind) /\ UNCHANGED <<made, position, clearing, overlooked, ppc>>
    BY <1>4 DEF InitBind, notMain, pubVars, callVars
  <2>2. Bind \in Requests /\ made' \in [Client \cup {Remote} -> Nat]
    BY <1>0, <2>1 DEF Requests, QueueType
  <2>3. QED
    BY <2>1, <2>2, Requested
<1>5. ASSUME PubClear PROVE IInv'
  <2>1. pubQueue' = <<>> /\ UNCHANGED <<made, position>>
    BY <1>5 DEF PubClear, notPublisher, callVars
  <2>2. pubQueue' \in Seq(Requests) /\ Len(pubQueue') = 0
    BY <2>1, EmptySeq
  <2>3. AllCurrent'
    BY <2>2 DEF AllCurrent
  <2>4. QED
    BY <1>0, <2>1, <2>2, <2>3 DEF IInv, QueueType, ClearedUnlessOverlooked
<1>6. ASSUME PubUnflag PROVE IInv'
  <2>1. /\ UNCHANGED <<pubQueue, made, position, overlooked>>
        /\ ppc = "unflag" /\ ppc' = "read"
    BY <1>6 DEF PubUnflag, Publisher, notPublisher, callVars
  <2>2. QED
    BY <1>0, <2>1 DEF IInv, QueueType, ClearedUnlessOverlooked, AllCurrent
<1>7. ASSUME PubRead PROVE IInv'
  <2>1. /\ UNCHANGED <<made, position, clearing, overlooked>> /\ ppc' # "unflag"
        /\ pubQueue' = pubQueue \/ (pubQueue # <<>> /\ pubQueue' = Tail(pubQueue))
    BY <1>7 DEF PubRead, Publisher, notPublisher, callVars
  <2>2. pubQueue' \in Seq(Requests) /\ (AllCurrent => AllCurrent')
    <3>1. CASE pubQueue' = pubQueue
      BY <1>0, <2>1, <3>1 DEF QueueType, AllCurrent
    <3>2. CASE pubQueue # <<>> /\ pubQueue' = Tail(pubQueue)
      <4>1. /\ pubQueue' \in Seq(Requests)
            /\ \A i \in 1..Len(pubQueue') :
                 i + 1 \in 1..Len(pubQueue) /\ pubQueue'[i] = pubQueue[i + 1]
        BY <1>0, <3>2, TailAt DEF QueueType
      <4>2. QED
        BY <2>1, <4>1 DEF AllCurrent
    <3>3. QED
      BY <2>1, <3>1, <3>2
  <2>3. QED
    BY <1>0, <2>1, <2>2 DEF IInv, QueueType, ClearedUnlessOverlooked
<1>8. ASSUME Unaffected PROVE IInv'
  BY <1>0, <1>8 DEF Unaffected, IInv, QueueType, ClearedUnlessOverlooked, AllCurrent
<1>9. QED
  BY <1>1, <1>2, <1>3, <1>4, <1>5, <1>6, <1>7, <1>8, Steps

(* pubsub.cpp:69-73: unless a call of publisher_requests_clear() came      *)
(* between the publisher's clear() and its store of false, no request made *)
(* before the last call is pending once the flag is down.                  *)
THEOREM ClearIsCarriedOut == Spec => []ClearTakesEffect
<1>1. IInv => ClearTakesEffect
  <2>1. QueueType => DOMAIN pubQueue = 1..Len(pubQueue)
    BY DEF QueueType
  <2>2. QED
    BY <2>1 DEF IInv, ClearedUnlessOverlooked, AllCurrent, ClearTakesEffect
<1>2. QED
  BY <1>1, InitInv, Step, PTL DEF Spec

-----------------------------------------------------------------------------
(* The order of publication.  A message is told apart by its first part,   *)
(* and on its way a part is in one of four places: in what subscribers     *)
(* have got, with the subscriber thread, on the wire, or the first of a    *)
(* message that is still open.                                             *)
MessageSet == Seq(PartSet) \ {<<>>}

Firsts(q) == {q[i][1] : i \in 1..Len(q)}
Buffered == UNION {Firsts(buffer[o]) : o \in Buffers}
First(o) == IF item[o] = None THEN {} ELSE {item[o][1]}
Latest == UNION {First(o) : o \in Items}
Got == Buffered \cup Latest
Routed == IF spc = "route" THEN {message[1]} ELSE {}
OnWire == Firsts(wire)
Open == IF partial = <<>> THEN {} ELSE {partial[1]}

WayType ==
  /\ QueueType /\ sequence_id \in Nat
  /\ ppc = "handle" => request \in Requests
  /\ partial \in Seq({p \in PartSet : p.by \in Client})
  /\ wire \in Seq(MessageSet)
  /\ spc = "route" => message \in MessageSet
  /\ buffer \in [Buffers -> Seq(MessageSet)]
  /\ item \in [Items -> MessageSet \cup {None}]

(* Requests are carried out in the order each thread made them.            *)
Earlier(a, r) == r # Bind /\ a.by = r.by => a.n < r.n

QueueInOrder ==
  /\ \A i \in 1..Len(pubQueue) :
       pubQueue[i] # Bind => pubQueue[i].n < made[pubQueue[i].by]
  /\ \A i, j \in 1..Len(pubQueue) :
       i < j /\ pubQueue[i] # Bind => Earlier(pubQueue[i], pubQueue[j])
  /\ ppc = "handle" /\ request # Bind =>
       /\ request.n < made[request.by]
       /\ \A i \in 1..Len(pubQueue) : Earlier(request, pubQueue[i])

(* A part that has been sent is older than all that has not.               *)
Sent(a) ==
  /\ a \in PartSet
  /\ a.n < made[a.by]
  /\ a.process = "own" => a.seq < sequence_id
  /\ \A i \in 1..Len(pubQueue) : Earlier(a, pubQueue[i])
  /\ ppc = "handle" => Earlier(a, request)

(* What has been sent stays older than all that has not.                   *)
SentStays == \A a : Sent(a) => Sent(a)'

AllSent == \A a \in Got \cup Routed \cup OnWire \cup Open : Sent(a)

Sorted(q) == \A i, j \in 1..Len(q) : i < j => Precedes(q[i][1], q[j][1])
Before(S, T) == \A a \in S, b \in T : Precedes(a, b)

WayInOrder ==
  /\ Sorted(wire) /\ \A o \in Buffers : Sorted(buffer[o])
  /\ Before(Got, Routed \cup OnWire \cup Open)
  /\ Before(Routed, OnWire \cup Open)
  /\ Before(OnWire, Open)

OInv == WayType /\ QueueInOrder /\ AllSent /\ WayInOrder

GotSomewhere ==
  \A a : a \in Got <=> \/ \E o \in Buffers : a \in Firsts(buffer[o])
                       \/ \E o \in Items : item[o] # None /\ a = item[o][1]

LEMMA GotMembers == GotSomewhere
<1> SUFFICES ASSUME NEW a
             PROVE  a \in Got <=> \/ \E o \in Buffers : a \in Firsts(buffer[o])
                                 \/ \E o \in Items : item[o] # None /\ a = item[o][1]
  BY DEF GotSomewhere
<1>1. a \in Buffered <=> \E o \in Buffers : a \in Firsts(buffer[o])
  BY Zenon DEF Buffered
<1>2. a \in Latest <=> \E o \in Items : a \in First(o)
  BY Zenon DEF Latest
<1>3. \A o : a \in First(o) <=> item[o] # None /\ a = item[o][1]
  BY Zenon DEF First
<1>4. QED
  BY <1>1, <1>2, <1>3, Zenon DEF Got

LEMMA SortedAppend ==
  ASSUME NEW q \in Seq(MessageSet), NEW m \in MessageSet,
         Sorted(q), Before(Firsts(q), {m[1]})
  PROVE  /\ Append(q, m) \in Seq(MessageSet) /\ Sorted(Append(q, m))
         /\ Firsts(Append(q, m)) = Firsts(q) \cup {m[1]}
<1>1. /\ Append(q, m) \in Seq(MessageSet)
      /\ Len(q) \in Nat /\ Len(Append(q, m)) = Len(q) + 1
      /\ \A i \in 1..Len(q) : Append(q, m)[i] = q[i]
      /\ Append(q, m)[Len(q) + 1] = m
  BY AppendAt
<1>2. \A i : i \in 1..Len(Append(q, m)) <=> i \in 1..Len(q) \/ i = Len(q) + 1
  BY <1>1
<1>3. Sorted(Append(q, m))
  <2> SUFFICES ASSUME NEW i \in 1..Len(Append(q, m)), NEW j \in 1..Len(Append(q, m)), i < j
               PROVE  Precedes(Append(q, m)[i][1], Append(q, m)[j][1])
    BY DEF Sorted
  <2>1. i \in 1..Len(q) /\ Append(q, m)[i] = q[i]
    BY <1>1
  <2>2. CASE j \in 1..Len(q)
    BY <1>1, <2>1, <2>2 DEF Sorted
  <2>3. CASE j = Len(q) + 1
    BY <1>1, <2>1, <2>3 DEF Before, Firsts
  <2>4. QED
    BY <1>2, <2>2, <2>3
<1>4. Firsts(Append(q, m)) = Firsts(q) \cup {m[1]}
  BY <1>1, <1>2 DEF Firsts
<1>5. QED
  BY <1>1, <1>3, <1>4

LEMMA SortedTail ==
  ASSUME NEW q \in Seq(MessageSet), q # <<>>, Sorted(q)
  PROVE  /\ Tail(q) \in Seq(MessageSet) /\ Sorted(Tail(q))
         /\ Firsts(Tail(q)) \subseteq Firsts(q)
         /\ Head(q) \in MessageSet /\ Head(q)[1] \in Firsts(q)
         /\ Before({Head(q)[1]}, Firsts(Tail(q)))
<1>1. /\ Tail(q) \in Seq(MessageSet)
      /\ Len(q) \in Nat \ {0} /\ Len(Tail(q)) = Len(q) - 1
      /\ \A i \in 1..Len(Tail(q)) : i + 1 \in 1..Len(q) /\ Tail(q)[i] = q[i + 1]
  BY TailAt
<1>2. Head(q) = q[1] /\ q[1] \in MessageSet /\ 1 \in 1..Len(q)
  BY <1>1
<1>3. Sorted(Tail(q))
  <2> SUFFICES ASSUME NEW i \in 1..Len(Tail(q)), NEW j \in 1..Len(Tail(q)), i < j
               PROVE  Precedes(Tail(q)[i][1], Tail(q)[j][1])
    BY DEF Sorted
  <2>1. i + 1 \in 1..Len(q) /\ j + 1 \in 1..Len(q) /\ i + 1 < j + 1
    BY <1>1
  <2>2. QED
    BY <1>1, <2>1 DEF Sorted
<1>4. Firsts(Tail(q)) \subseteq Firsts(q)
  BY <1>1 DEF Firsts
<1>5. Before({Head(q)[1]}, Firsts(Tail(q)))
  <2> SUFFICES ASSUME NEW i \in 1..Len(Tail(q)) PROVE Precedes(Head(q)[1], Tail(q)[i][1])
    BY DEF Before, Firsts
  <2>1. i + 1 \in 1..Len(q) /\ 1 < i + 1
    BY <1>1
  <2>2. QED
    BY <1>1, <1>2, <2>1 DEF Sorted
<1>6. QED
  BY <1>1, <1>2, <1>3, <1>4, <1>5 DEF Firsts

(* Steps that move no message and take up no request.                      *)
Aside ==
  /\ UNCHANGED <<pubQueue, made, position, sequence_id, partial, wire, buffer, item>>
  /\ ppc' = "handle" => ppc = "handle" /\ request' = request
  /\ spc' = "route" => spc = "route" /\ message' = message

LEMMA WaySteps ==
  ASSUME [Next]_vars
  PROVE  \/ \E c \in Client, t \in Topic, k \in FrameCounts, h \in Headers :
              Publish(c, t, k, h)
         \/ InitBind
         \/ \E t \in Topic : RemotePublish(t)
         \/ \E o \in Buffers : Consume(o)
         \/ PubClear \/ PubRead \/ PubSend \/ SubReceive \/ SubRoute
         \/ PublisherRequestsClear
         \/ Aside
<1> USE DEF Aside, mainVars, pubVars, queueVars, subVars, outVars, recVars, callVars
<1>1. ASSUME UNCHANGED vars PROVE Aside
  BY <1>1 DEF vars
<1>2. ASSUME NEW o \in Output, SubscribeTo(o) PROVE Aside
  BY <1>2 DEF SubscribeTo
<1>3. ASSUME EnableRecording \/ DisableRecording PROVE Aside
  BY <1>3 DEF EnableRecording, DisableRecording
<1>4. ASSUME PubTestStop \/ PubTestClear \/ PubUnflag \/ PubThrow \/ PubBind PROVE Aside
  BY <1>4 DEF PubTestStop, PubTestClear, PubUnflag, PubThrow, PubBind, Publisher, notPublisher
<1>5. ASSUME SubTestStop \/ SubTakeNothing \/ SubTake \/ SubTimeout \/ SubThrow PROVE Aside
  BY <1>5 DEF SubTestStop, SubTakeNothing, SubTake, SubTimeout, SubThrow, Subscriber,
              notSubscriber
<1>6. ASSUME RecorderThread PROVE Aside
  BY <1>6 DEF RecorderThread, RecTestStop, RecRead, RecAppend, notRecorder
<1>7. ASSUME InitConnect \/ Interrupt \/ CleanupStop \/ Cleanup PROVE Aside
  <2>1. UNCHANGED <<notMain, pubQueue>>
    BY <1>7 DEF InitConnect, Interrupt, CleanupStop, Cleanup, CleanupShutdown,
                CleanupStopPublisher, CleanupStopSubscriber, CleanupStopRecorder, CleanupEnd
  <2>2. QED
    BY <2>1 DEF notMain
<1>8. QED
  BY <1>1, <1>2, <1>3, <1>4, <1>5, <1>6, <1>7
     DEF Next, Call, PublisherThread, SubscriberThread

(* Messages that disappear do not change the order of the others.          *)
LEMMA Fewer ==
  ASSUME WayInOrder, Sorted(wire)', \A o \in Buffers : Sorted(buffer'[o]),
         Got' \subseteq Got, Routed' \subseteq Routed,
         OnWire' \subseteq OnWire, Open' \subseteq Open
  PROVE  WayInOrder'
BY DEF WayInOrder, Before

LEMMA FewerSent ==
  ASSUME AllSent, SentStays,
         Got' \subseteq Got, Routed' \subseteq Routed,
         OnWire' \subseteq OnWire, Open' \subseteq Open
  PROVE  AllSent'
BY DEF AllSent, SentStays

LEMMA FirstPart ==
  ASSUME NEW m \in MessageSet
  PROVE  m[1] \in PartSet
BY EmptySeq DEF MessageSet

LEMMA InitOInv == Init => OInv
<1> SUFFICES ASSUME Init PROVE OInv
  OBVIOUS
<1>1. /\ pubQueue = <<>> /\ Len(pubQueue) = 0 /\ pubQueue \in Seq(Requests)
      /\ partial = <<>> /\ partial \in Seq({p \in PartSet : p.by \in Client})
      /\ wire = <<>> /\ Len(wire) = 0 /\ wire \in Seq(MessageSet)
      /\ \A o \in Buffers : buffer[o] = <<>> /\ Len(buffer[o]) = 0
      /\ buffer \in [Buffers -> Seq(MessageSet)]
  BY EmptySeq DEF Init
<1>2. WayType
  BY <1>1 DEF Init, WayType, QueueType
<1>3. QueueInOrder
  BY <1>1 DEF Init, QueueInOrder
<1>4. Got = {} /\ Routed = {} /\ OnWire = {} /\ Open = {}
  BY <1>1 DEF Init, Got, Buffered, Latest, First, Routed, OnWire, Open, Firsts
<1>5. AllSent /\ WayInOrder
  BY <1>1, <1>4 DEF AllSent, WayInOrder, Before, Sorted
<1>6. QED
  BY <1>2, <1>3, <1>5 DEF OInv

(* A request of the publisher: it is younger than all there is.            *)
LEMMA RequestedInOrder ==
  ASSUME OInv, NEW r \in Requests,
         RequestOfPublisher(r),
         made' \in [Client \cup {Remote} -> Nat],
         \A p \in Client \cup {Remote} : made[p] <= made'[p],
         r # Bind => r.by \in Client /\ made[r.by] = r.n /\ r.n < made'[r.by],
         UNCHANGED <<position, pubVars, spc, message, outVars, wire>>
  PROVE  OInv' /\ SentStays
<1> USE DEF pubVars, outVars
<1>0. WayType /\ QueueInOrder /\ AllSent /\ WayInOrder /\ pubQueue \in Seq(Requests)
      /\ Len(pubQueue) \in Nat /\ made \in [Client \cup {Remote} -> Nat]
  BY DEF OInv, WayType, QueueType
<1>t. \A q \in Requests : q # Bind => q.by \in Client /\ q.n \in Nat
  BY DEF Requests
<1>1. UNCHANGED <<Got, Routed, OnWire, Open>>
  BY DEF Got, Buffered, Latest, First, Routed, OnWire, Open
<1>2. WayInOrder'
  BY <1>0, <1>1 DEF WayInOrder
<1>3. CASE pubQueue' = pubQueue
  <2>1. WayType'
    BY <1>0, <1>3 DEF WayType, QueueType
  <2>2. QueueInOrder'
    <3>1. \A i \in 1..Len(pubQueue) : pubQueue[i] \in Requests
      BY <1>0
    <3>2. ppc = "handle" => request \in Requests
      BY <1>0 DEF WayType
    <3>3. QED
      BY <1>0, <1>3, <1>t, <3>1, <3>2 DEF QueueInOrder
  <2>3. SentStays
    BY <1>0, <1>3 DEF Sent, SentStays, PartSet
  <2>4. QED
    BY <1>0, <1>1, <1>2, <2>1, <2>2, <2>3, FewerSent DEF OInv
<1>4. CASE pubQueue' = Append(pubQueue, r)
  <2>1. /\ pubQueue' \in Seq(Requests) /\ Len(pubQueue') = Len(pubQueue) + 1
        /\ \A i \in 1..Len(pubQueue) : pubQueue'[i] = pubQueue[i]
        /\ pubQueue'[Len(pubQueue) + 1] = r
    BY <1>0, <1>4, AppendAt
  <2>2. \A i : i \in 1..Len(pubQueue') <=> i \in 1..Len(pubQueue) \/ i = Len(pubQueue) + 1
    BY <1>0, <2>1
  <2>3. WayType'
    BY <1>0, <2>1 DEF WayType, QueueType
  <2>4. QueueInOrder'
    <3>1. \A i \in 1..Len(pubQueue) : pubQueue[i] \in Requests
      BY <1>0
    <3>2. ppc = "handle" => request \in Requests
      BY <1>0 DEF WayType
    <3>3. \A i \in 1..Len(pubQueue') :
            pubQueue'[i] # Bind => pubQueue'[i].n < made'[pubQueue'[i].by]
      <4> SUFFICES ASSUME NEW i \in 1..Len(pubQueue'), pubQueue'[i] # Bind
                   PROVE  pubQueue'[i].n < made'[pubQueue'[i].by]
        OBVIOUS
      <4>1. CASE i = Len(pubQueue) + 1
        BY <1>0, <2>1, <4>1
      <4>2. CASE i \in 1..Len(pubQueue)
        <5>1. PICK q : q = pubQueue[i]
          OBVIOUS
        <5>2. q = pubQueue'[i] /\ q \in Requests /\ q # Bind
          BY <2>1, <3>1, <4>2, <5>1
        <5>3. q.n < made[q.by]
          BY <1>0, <4>2, <5>1, <5>2 DEF QueueInOrder
        <5>4. q.by \in Client \cup {Remote} /\ q.n \in Nat
          BY <1>t, <5>2
        <5>5. q.n < made'[q.by]
          BY <1>0, <5>3, <5>4
        <5>6. QED
          BY <5>2, <5>5
      <4>3. QED
        BY <2>2, <4>1, <4>2
    <3>4. \A i, j \in 1..Len(pubQueue') :
            i < j /\ pubQueue'[i] # Bind => Earlier(pubQueue'[i], pubQueue'[j])
      <4> SUFFICES ASSUME NEW i \in 1..Len(pubQueue'), NEW j \in 1..Len(pubQueue'),
                          i < j, pubQueue'[i] # Bind
                   PROVE  Earlier(pubQueue'[i], pubQueue'[j])
        OBVIOUS
      <4>1. i \in 1..Len(pubQueue)
        BY <1>0, <2>1
      <4>2. CASE j \in 1..Len(pubQueue)
        BY <1>0, <2>1, <4>1, <4>2 DEF QueueInOrder
      <4>3. CASE j = Len(pubQueue) + 1
        BY <1>0, <2>1, <4>1, <4>3 DEF QueueInOrder, Earlier
      <4>4. QED
        BY <2>2, <4>2, <4>3
    <3>5. ppc = "handle" /\ request # Bind =>
            /\ request.n < made'[request.by]
            /\ \A i \in 1..Len(pubQueue') : Earlier(request, pubQueue'[i])
      <4> SUFFICES ASSUME ppc = "handle", request # Bind
                   PROVE  /\ request.n < made'[request.by]
                          /\ \A i \in 1..Len(pubQueue') : Earlier(request, pubQueue'[i])
        OBVIOUS
      <4>1. /\ request.n < made[request.by] /\ request.by \in Client /\ request.n \in Nat
            /\ \A i \in 1..Len(pubQueue) : Earlier(request, pubQueue[i])
        BY <1>0, <1>t, <3>2 DEF QueueInOrder
      <4>2. request.n < made'[request.by]
        BY <1>0, <4>1
      <4>3. Earlier(request, r)
        BY <4>1 DEF Earlier
      <4>4. QED
        BY <2>1, <2>2, <4>1, <4>2, <4>3
    <3>6. QED
      BY <3>3, <3>4, <3>5 DEF QueueInOrder
  <2>5. SentStays
    <3> SUFFICES ASSUME NEW a, Sent(a) PROVE Sent(a)'
      BY DEF SentStays
    <3>1. a \in PartSet /\ a.n < made'[a.by]
      BY <1>0 DEF Sent, PartSet
    <3>2. \A i \in 1..Len(pubQueue') : Earlier(a, pubQueue'[i])
      BY <2>1, <2>2 DEF Sent, Earlier
    <3>3. QED
      BY <3>1, <3>2 DEF Sent
  <2>6. QED
    BY <1>0, <1>1, <1>2, <2>3, <2>4, <2>5, FewerSent DEF OInv
<1>5. QED
  BY <1>3, <1>4 DEF RequestOfPublisher

(* What the publisher sends is younger than all that has been sent.        *)
LEMMA SentLast ==
  ASSUME OInv, PubSend
  PROVE  \E p : /\ p = Part(request)
               /\ p \in {q \in PartSet : q.by \in Client}
               /\ Sent(p)' /\ SentStays
               /\ \A a : Sent(a) => Precedes(a, p)
<1>p. PICK p : p = Part(request)
  OBVIOUS
<1>0. WayType /\ QueueInOrder /\ sequence_id \in Nat
  BY DEF OInv, WayType
<1>1. /\ UNCHANGED <<pubQueue, made>> /\ ppc = "handle" /\ ppc' = "loop"
      /\ request # Bind /\ sequence_id' = NextSequenceId
  BY DEF PubSend, Publisher, queueVars, callVars
<1>2. request \in Requests /\ request # Bind
  BY <1>0, <1>1 DEF WayType
<1>3. /\ p \in {q \in PartSet : q.by \in Client} /\ p.by = request.by /\ p.n = request.n
      /\ p.seq = sequence_id \/ p.process = "other"
      /\ p.process = "own" => sequence_id' = sequence_id + 1
      /\ sequence_id' \in Nat /\ sequence_id <= sequence_id'
  BY <1>p, <1>0, <1>1, <1>2 DEF Part, PartSet, Process, Requests, NextSequenceId
<1>4. ASSUME NEW a, Sent(a) PROVE Precedes(a, p)
  <2>1. a.by = p.by => a.n < p.n
    BY <1>1, <1>3, <1>4 DEF Sent, Earlier
  <2>2. a.process = "own" /\ p.process = "own" => a.seq < p.seq
    BY <1>3, <1>4 DEF Sent
  <2>3. QED
    BY <2>1, <2>2 DEF Precedes
<1>5. SentStays
  <2> SUFFICES ASSUME NEW a, Sent(a) PROVE Sent(a)'
    BY DEF SentStays
  <2>1. a.process = "own" => a.seq < sequence_id'
    BY <1>0, <1>3 DEF Sent, PartSet
  <2>2. QED
    BY <1>1, <2>1 DEF Sent
<1>6. Sent(p)'
  <2>1. p.n < made[p.by] /\ \A i \in 1..Len(pubQueue) : Earlier(p, pubQueue[i])
    BY <1>0, <1>1, <1>3 DEF QueueInOrder, Earlier
  <2>2. p.process = "own" => p.seq < sequence_id'
    BY <1>0, <1>3
  <2>3. QED
    BY <1>1, <1>3, <2>1, <2>2 DEF Sent
<1>7. QED
  BY <1>p, <1>3, <1>4, <1>5, <1>6

LEMMA OStep == OInv /\ [Next]_vars => OInv' /\ SentStays
<1> SUFFICES ASSUME OInv, [Next]_vars PROVE OInv' /\ SentStays
  OBVIOUS
<1>0. /\ WayType /\ QueueInOrder /\ AllSent /\ WayInOrder
      /\ pubQueue \in Seq(Requests) /\ Len(pubQueue) \in Nat
      /\ made \in [Client \cup {Remote} -> Nat] /\ sequence_id \in Nat
      /\ wire \in Seq(MessageSet) /\ buffer \in [Buffers -> Seq(MessageSet)]
      /\ item \in [Items -> MessageSet \cup {None}]
  BY DEF OInv, WayType, QueueType
<1>t. \A q \in Requests : q # Bind => q.by \in Client /\ q.n \in Nat
  BY DEF Requests
<1>1. ASSUME NEW c \in Client, NEW t \in Topic, NEW k \in FrameCounts, NEW h \in Headers,
             Publish(c, t, k, h)
      PROVE  OInv' /\ SentStays
  <2> DEFINE r == [kind |-> "publish", topic |-> t, frames |-> k, header |-> h, by |-> c,
                   n |-> made[c], position |-> position]
  <2>1. r \in Requests /\ r.by = c /\ r.n = made[c]
    BY <1>0 DEF WayType, QueueType, Requests
  <2>2. made' = [made EXCEPT ![c] = @ + 1]
    BY <1>1 DEF Publish
  <2>3. /\ made' \in [Client \cup {Remote} -> Nat]
        /\ \A p \in Client \cup {Remote} : made[p] <= made'[p]
        /\ made[c] < made'[c]
    BY <1>0, <2>2
  <2>4. /\ RequestOfPublisher(r)
        /\ UNCHANGED <<position, pubVars, spc, message, outVars, wire>>
    BY <1>1 DEF Publish, subVars
  <2> HIDE DEF r
  <2>5. QED
    BY <2>1, <2>3, <2>4, RequestedInOrder
<1>2. ASSUME InitBind PROVE OInv' /\ SentStays
  <2>1. /\ RequestOfPublisher(Bind)
        /\ UNCHANGED <<position, made, pubVars, spc, message, outVars, wire>>
    BY <1>2 DEF InitBind, notMain, callVars
  <2>2. /\ Bind \in Requests /\ made' \in [Client \cup {Remote} -> Nat]
        /\ \A p \in Client \cup {Remote} : made[p] <= made'[p]
    BY <1>0, <2>1 DEF Requests
  <2>3. QED
    BY <2>1, <2>2, RequestedInOrder
<1>3. ASSUME NEW t \in Topic, RemotePublish(t) PROVE OInv' /\ SentStays
  <2>m. PICK m : m = <<[topic |-> t, by |-> Remote, n |-> made[Remote],
                         process |-> "other", seq |-> made[Remote]]>>
    OBVIOUS
  <2>1. /\ m \in MessageSet /\ m[1] \in PartSet /\ m[1].by = Remote
        /\ m[1].n = made[Remote] /\ m[1].process = "other"
    BY <1>0, <2>m DEF MessageSet, PartSet, Process
  <2>2. /\ UNCHANGED <<pubQueue, pubVars, spc, message, outVars, position>>
        /\ made' = [made EXCEPT ![Remote] = @ + 1]
        /\ wire' = Append(wire, m) \/ wire' = wire
    BY <1>3, <2>m DEF RemotePublish, Transmit, queueVars, subVars
  <2>3. /\ made' \in [Client \cup {Remote} -> Nat]
        /\ \A p \in Client \cup {Remote} : made[p] <= made'[p]
        /\ made[Remote] < made'[Remote]
    BY <1>0, <2>2
  <2>4. UNCHANGED <<Got, Routed, Open>>
    BY <2>2 DEF Got, Buffered, Latest, First, Routed, Open, pubVars, outVars
  <2>5. \A a \in Got \cup Routed \cup OnWire : Precedes(a, m[1])
    BY <1>0, <2>1 DEF AllSent, Sent, Precedes
  <2>6. \A a \in Open : Precedes(m[1], a)
    <3>1. \A a \in Open : a.by \in Client
      BY <1>0 DEF Open, WayType
    <3>2. QED
      BY <2>1, <3>1, NoneAssumption DEF Precedes
  <2>7. /\ wire' \in Seq(MessageSet) /\ Sorted(wire')
        /\ OnWire' \subseteq OnWire \cup {m[1]}
    <3>1. CASE wire' = wire
      BY <1>0, <3>1 DEF OnWire, WayInOrder
    <3>2. CASE wire' = Append(wire, m)
      <4>1. Sorted(wire) /\ Before(Firsts(wire), {m[1]})
        BY <1>0, <2>5 DEF WayInOrder, OnWire, Before
      <4>2. QED
        BY <1>0, <2>1, <3>2, <4>1, SortedAppend DEF OnWire
    <3>3. QED
      BY <2>2, <3>1, <3>2
  <2>8. WayType'
    BY <1>0, <2>2, <2>3, <2>7 DEF WayType, QueueType, pubVars, outVars
  <2>9. QueueInOrder'
    <3>1. \A i \in 1..Len(pubQueue) : pubQueue[i] \in Requests
      BY <1>0
    <3>2. ppc = "handle" => request \in Requests
      BY <1>0 DEF WayType
    <3>3. QED
      BY <1>0, <1>t, <2>2, <2>3, <3>1, <3>2 DEF QueueInOrder, pubVars
  <2>10. WayInOrder'
    <3>1. /\ Before(Got, Routed \cup OnWire \cup Open)
          /\ Before(Routed, OnWire \cup Open) /\ Before(OnWire, Open)
          /\ \A o \in Buffers : Sorted(buffer[o])
      BY <1>0 DEF WayInOrder
    <3>2. PICK S, T, W, O : /\ S = Got /\ T = Routed /\ W = OnWire /\ O = Open
      OBVIOUS
    <3>3. PICK V : V = OnWire'
      OBVIOUS
    <3>4. /\ Got' = S /\ Routed' = T /\ Open' = O /\ OnWire' = V
          /\ V \subseteq W \cup {m[1]}
      BY <2>4, <2>7, <3>2, <3>3
    <3>5. /\ \A a \in S \cup T \cup W : Precedes(a, m[1])
          /\ \A a \in O : Precedes(m[1], a)
      BY <2>5, <2>6, <3>2
    <3>6. Before(S, T \cup W \cup O) /\ Before(T, W \cup O) /\ Before(W, O)
      BY <3>1, <3>2
    <3>7. Before(S, T \cup V \cup O)
      BY <3>4, <3>5, <3>6 DEF Before
    <3>8. Before(T, V \cup O)
      BY <3>4, <3>5, <3>6 DEF Before
    <3>9. Before(V, O)
      BY <3>4, <3>5, <3>6 DEF Before
    <3>10. Sorted(wire') /\ \A o \in Buffers : Sorted(buffer'[o])
      BY <2>2, <2>7, <3>1 DEF outVars
    <3>11. /\ Before(Got', Routed' \cup OnWire' \cup Open')
           /\ Before(Routed', OnWire' \cup Open') /\ Before(OnWire', Open')
      BY <3>4, <3>7, <3>8, <3>9
    <3>12. QED
      BY <3>10, <3>11 DEF WayInOrder, Before, Precedes
  <2>11. SentStays
    BY <1>0, <2>2, <2>3 DEF Sent, SentStays, PartSet, pubVars
  <2>12. AllSent'
    <3>1. Sent(m[1])'
      <4>1. \A i \in 1..Len(pubQueue) : Earlier(m[1], pubQueue[i])
        BY <1>0, <1>t, <2>1, NoneAssumption DEF Earlier
      <4>2. ppc = "handle" => Earlier(m[1], request)
        BY <1>0, <1>t, <2>1, NoneAssumption DEF Earlier, WayType
      <4>3. QED
        BY <2>1, <2>2, <2>3, <4>1, <4>2 DEF Sent, pubVars
    <3>3. QED
      BY <1>0, <2>4, <2>7, <2>11, <3>1 DEF AllSent, SentStays
  <2>13. QED
    BY <2>8, <2>9, <2>10, <2>11, <2>12 DEF OInv
<1>4. ASSUME NEW o \in Buffers, Consume(o) PROVE OInv' /\ SentStays
  <2>1. /\ UNCHANGED <<pubQueue, made, position, pubVars, spc, message, item, wire>>
        /\ buffer[o] # <<>> /\ buffer' = [buffer EXCEPT ![o] = Tail(@)]
    BY <1>4 DEF Consume, queueVars, subVars, callVars
  <2>2. /\ Tail(buffer[o]) \in Seq(MessageSet) /\ Sorted(Tail(buffer[o]))
        /\ Firsts(Tail(buffer[o])) \subseteq Firsts(buffer[o])
    BY <1>0, <2>1, SortedTail DEF WayInOrder
  <2>3. /\ buffer' \in [Buffers -> Seq(MessageSet)]
        /\ \A b \in Buffers : Sorted(buffer'[b]) /\ Firsts(buffer'[b]) \subseteq Firsts(buffer[b])
    BY <1>0, <2>1, <2>2 DEF WayInOrder
  <2>4. Got' \subseteq Got
    BY <2>1, <2>3 DEF Got, Buffered, Latest, First
  <2>5. UNCHANGED <<Routed, OnWire, Open>>
    BY <2>1 DEF Routed, OnWire, Open, pubVars
  <2>6. WayType' /\ QueueInOrder'
    BY <1>0, <2>1, <2>3 DEF WayType, QueueType, QueueInOrder, pubVars
  <2>7. WayInOrder'
    BY <1>0, <2>1, <2>3, <2>4, <2>5, Fewer DEF WayInOrder
  <2>8. SentStays
    BY <2>1 DEF Sent, SentStays, pubVars
  <2>9. QED
    BY <1>0, <2>4, <2>5, <2>6, <2>7, <2>8, FewerSent DEF OInv
<1>5. ASSUME PubClear PROVE OInv' /\ SentStays
  <2>1. /\ pubQueue' = <<>> /\ ppc' # "handle"
        /\ UNCHANGED <<made, position, sequence_id, partial, wire, spc, message, outVars>>
    BY <1>5 DEF PubClear, Publisher, notPublisher, callVars, subVars
  <2>2. pubQueue' \in Seq(Requests) /\ Len(pubQueue') = 0
    BY <2>1, EmptySeq
  <2>3. UNCHANGED <<Got, Routed, OnWire, Open>>
    BY <2>1 DEF Got, Buffered, Latest, First, Routed, OnWire, Open, outVars
  <2>4. WayType' /\ QueueInOrder' /\ WayInOrder'
    BY <1>0, <2>1, <2>2, <2>3 DEF WayType, QueueType, QueueInOrder, WayInOrder, outVars
  <2>5. SentStays
    BY <2>1, <2>2 DEF Sent, SentStays
  <2>6. QED
    BY <1>0, <2>3, <2>4, <2>5, FewerSent DEF OInv
<1>6. ASSUME PubRead PROVE OInv' /\ SentStays
  <2>1. /\ UNCHANGED <<made, position, sequence_id, partial, wire, spc, message, outVars>>
        /\ \/ pubQueue' = pubQueue /\ ppc' # "handle"
           \/ pubQueue # <<>> /\ pubQueue' = Tail(pubQueue) /\ request' = Head(pubQueue)
    BY <1>6 DEF PubRead, Publisher, notPublisher, callVars, subVars
  <2>3. UNCHANGED <<Got, Routed, OnWire, Open>>
    BY <2>1 DEF Got, Buffered, Latest, First, Routed, OnWire, Open, outVars
  <2>4. WayInOrder'
    BY <1>0, <2>1, <2>3 DEF WayInOrder, outVars
  <2>5. CASE pubQueue' = pubQueue /\ ppc' # "handle"
    <3>1. WayType' /\ QueueInOrder'
      BY <1>0, <2>1, <2>5 DEF WayType, QueueType, QueueInOrder, outVars
    <3>2. SentStays
      BY <2>1, <2>5 DEF Sent, SentStays
    <3>3. QED
      BY <1>0, <2>3, <2>4, <3>1, <3>2, FewerSent DEF OInv
  <2>6. CASE pubQueue # <<>> /\ pubQueue' = Tail(pubQueue) /\ request' = Head(pubQueue)
    <3>1. /\ pubQueue' \in Seq(Requests) /\ request' = pubQueue[1] /\ 1 \in 1..Len(pubQueue)
          /\ Len(pubQueue') = Len(pubQueue) - 1
          /\ \A i \in 1..Len(pubQueue') :
               i + 1 \in 1..Len(pubQueue) /\ pubQueue'[i] = pubQueue[i + 1]
      BY <1>0, <2>6, TailAt
    <3>2. request' \in Requests
      BY <1>0, <3>1
    <3>3. WayType'
      BY <1>0, <2>1, <3>1, <3>2 DEF WayType, QueueType, outVars
    <3>4. QueueInOrder'
      <4>1. \A i \in 1..Len(pubQueue') :
              pubQueue'[i] # Bind => pubQueue'[i].n < made'[pubQueue'[i].by]
        BY <1>0, <2>1, <3>1 DEF QueueInOrder
      <4>2. \A i, j \in 1..Len(pubQueue') :
              i < j /\ pubQueue'[i] # Bind => Earlier(pubQueue'[i], pubQueue'[j])
        <5> SUFFICES ASSUME NEW i \in 1..Len(pubQueue'), NEW j \in 1..Len(pubQueue'),
                            i < j, pubQueue'[i] # Bind
                     PROVE  Earlier(pubQueue'[i], pubQueue'[j])
          OBVIOUS
        <5>1. i + 1 \in 1..Len(pubQueue) /\ j + 1 \in 1..Len(pubQueue) /\ i + 1 < j + 1
          BY <1>0, <3>1
        <5>2. QED
          BY <1>0, <3>1, <5>1 DEF QueueInOrder
      <4>3. request' # Bind =>
              /\ request'.n < made'[request'.by]
              /\ \A i \in 1..Len(pubQueue') : Earlier(request', pubQueue'[i])
        <5> SUFFICES ASSUME request' # Bind
                     PROVE  /\ request'.n < made'[request'.by]
                            /\ \A i \in 1..Len(pubQueue') : Earlier(request', pubQueue'[i])
          OBVIOUS
        <5>1. request'.n < made'[request'.by]
          BY <1>0, <2>1, <3>1 DEF QueueInOrder
        <5>2. ASSUME NEW i \in 1..Len(pubQueue') PROVE Earlier(request', pubQueue'[i])
          <6>1. i + 1 \in 1..Len(pubQueue) /\ 1 < i + 1
            BY <1>0, <3>1
          <6>2. QED
            BY <1>0, <3>1, <6>1 DEF QueueInOrder
        <5>3. QED
          BY <5>1, <5>2
      <4>4. QED
        BY <4>1, <4>2, <4>3 DEF QueueInOrder
    <3>5. SentStays
      BY <2>1, <3>1 DEF Sent, SentStays
    <3>6. QED
      BY <1>0, <2>3, <2>4, <3>3, <3>4, <3>5, FewerSent DEF OInv
  <2>7. QED
    BY <2>1, <2>5, <2>6
<1>7. ASSUME PubSend PROVE OInv' /\ SentStays
  <2>p. PICK p : /\ p = Part(request)
                 /\ p \in {q \in PartSet : q.by \in Client}
                 /\ Sent(p)' /\ SentStays
                 /\ \A a : Sent(a) => Precedes(a, p)
    BY <1>7, SentLast
  <2>q. PICK parts : parts = Append(partial, p)
    OBVIOUS
  <2>1. /\ UNCHANGED <<pubQueue, made, position, spc, message, outVars>>
        /\ ppc = "handle" /\ ppc' = "loop" /\ request # Bind
        /\ sequence_id' = NextSequenceId
        /\ \/ partial' = parts /\ wire' = wire
           \/ partial' = <<>> /\ (wire' = wire \/ wire' = Append(wire, parts))
    BY <1>7, <2>p, <2>q DEF PubSend, Publisher, Transmit, queueVars, subVars, callVars
  <2>2. sequence_id' \in Nat
    BY <1>0, <2>1 DEF NextSequenceId
  <2>4. /\ parts \in Seq({q \in PartSet : q.by \in Client})
        /\ parts[1] = IF partial = <<>> THEN p ELSE partial[1]
        /\ parts # <<>> /\ parts \in MessageSet
    <3>1. partial \in Seq({q \in PartSet : q.by \in Client}) /\ partial \in Seq(PartSet)
      BY <1>0 DEF WayType
    <3>2. p \in PartSet
      BY <2>p
    <3>3. /\ parts \in Seq({q \in PartSet : q.by \in Client})
          /\ Len(parts) = Len(partial) + 1 /\ Len(partial) \in Nat
          /\ \A i \in 1..Len(partial) : parts[i] = partial[i]
          /\ parts[Len(partial) + 1] = p
      BY <2>p, <2>q, <3>1, AppendAt
    <3>4. parts \in Seq(PartSet)
      BY <2>q, <3>1, <3>2, AppendAt
    <3>5. parts # <<>>
      BY <3>3, EmptySeq
    <3>6. CASE partial = <<>>
      BY <3>3, <3>4, <3>5, <3>6 DEF MessageSet
    <3>7. CASE partial # <<>>
      <4>1. 1 \in 1..Len(partial)
        BY <3>1, <3>7, EmptySeq
      <4>2. QED
        BY <3>3, <3>4, <3>5, <3>7, <4>1 DEF MessageSet
    <3>8. QED
      BY <3>6, <3>7
  <2>6. \A a \in Got \cup Routed \cup OnWire : Precedes(a, parts[1])
    <3>1. CASE partial = <<>>
      BY <1>0, <2>p, <2>4, <3>1 DEF AllSent
    <3>2. CASE partial # <<>>
      BY <1>0, <2>4, <3>2 DEF WayInOrder, Before, Open
    <3>3. QED
      BY <3>1, <3>2
  <2>7. UNCHANGED <<Got, Routed>>
    BY <2>1 DEF Got, Buffered, Latest, First, Routed, outVars
  <2>8. /\ wire' \in Seq(MessageSet) /\ Sorted(wire')
        /\ OnWire' \subseteq OnWire \cup {parts[1]} /\ Open' \subseteq {parts[1]}
        /\ OnWire' = OnWire \/ Open' = {}
    <3>1. CASE wire' = wire
      <4>1. OnWire' = OnWire /\ Open' \subseteq {parts[1]}
        BY <2>1, <3>1 DEF OnWire, Open
      <4>2. QED
        BY <1>0, <3>1, <4>1 DEF WayInOrder
    <3>2. CASE wire' = Append(wire, parts) /\ partial' = <<>>
      <4>1. Sorted(wire) /\ Before(Firsts(wire), {parts[1]})
        BY <1>0, <2>6 DEF WayInOrder, OnWire, Before
      <4>2. QED
        BY <1>0, <2>4, <3>2, <4>1, SortedAppend DEF OnWire, Open
    <3>3. QED
      BY <2>1, <3>1, <3>2
  <2>9. WayType'
    <3>1. partial' \in Seq({q \in PartSet : q.by \in Client})
      BY <2>1, <2>4, EmptySeq
    <3>2. QED
      BY <1>0, <2>1, <2>2, <2>8, <3>1 DEF WayType, QueueType, outVars
  <2>10. QueueInOrder'
    BY <1>0, <2>1 DEF QueueInOrder
  <2>11. WayInOrder'
    <3>1. \A o \in Buffers : Sorted(buffer'[o])
      BY <1>0, <2>1 DEF WayInOrder, outVars
    <3>2. Before(Got, Routed \cup OnWire \cup Open) /\ Before(Routed, OnWire \cup Open)
      BY <1>0 DEF WayInOrder
    <3>3. QED
      BY <2>6, <2>7, <2>8, <3>1, <3>2 DEF WayInOrder, Before
  <2>12. AllSent'
    <3>1. Sent(parts[1])'
      BY <1>0, <2>p, <2>4 DEF AllSent, Open, SentStays
    <3>2. QED
      BY <1>0, <2>p, <2>7, <2>8, <3>1 DEF AllSent, SentStays
  <2>13. QED
    BY <2>p, <2>9, <2>10, <2>11, <2>12 DEF OInv
<1>8. ASSUME SubReceive PROVE OInv' /\ SentStays
  <2>1. /\ UNCHANGED <<pubQueue, made, position, pubVars, outVars>>
        /\ wire # <<>> /\ spc = "recv" /\ spc' = "route"
        /\ message' = Head(wire) /\ wire' = Tail(wire)
    BY <1>8 DEF SubReceive, Subscriber, notSubscriber, queueVars, callVars
  <2>2. /\ wire' \in Seq(MessageSet) /\ Sorted(wire') /\ OnWire' \subseteq OnWire
        /\ message' \in MessageSet /\ message'[1] \in OnWire
        /\ Before({message'[1]}, OnWire')
    BY <1>0, <2>1, SortedTail DEF WayInOrder, OnWire
  <2>3. Routed' = {message'[1]} /\ UNCHANGED <<Got, Open>>
    BY <2>1 DEF Routed, Got, Buffered, Latest, First, Open, pubVars, outVars
  <2>4. WayType' /\ QueueInOrder'
    BY <1>0, <2>1, <2>2 DEF WayType, QueueType, QueueInOrder, pubVars, outVars
  <2>5. WayInOrder'
    BY <1>0, <2>1, <2>2, <2>3 DEF WayInOrder, Before, outVars
  <2>6. SentStays
    BY <2>1 DEF Sent, SentStays, pubVars
  <2>7. AllSent'
    BY <1>0, <2>2, <2>3, <2>6 DEF AllSent, SentStays
  <2>8. QED
    BY <2>4, <2>5, <2>6, <2>7 DEF OInv
<1>9. ASSUME SubRoute PROVE OInv' /\ SentStays
  <2>1. /\ UNCHANGED <<pubQueue, made, position, pubVars, wire>>
        /\ spc = "route" /\ spc' = "loop"
        /\ buffer' = [o \in Buffers |->
             IF o \in Targets /\ Len(buffer[o]) < BufCapacity
               THEN Append(buffer[o], message) ELSE buffer[o]]
        /\ item' = [o \in Items |-> IF o \in Targets THEN message ELSE item[o]]
    BY <1>9 DEF SubRoute, Subscriber, notSubscriber, queueVars, callVars
  <2>2. message \in MessageSet /\ Routed = {message[1]} /\ Routed' = {}
    BY <1>0, <2>1 DEF WayType, Routed
  <2>3. \A o \in Buffers : /\ buffer[o] \in Seq(MessageSet) /\ Sorted(buffer[o])
                           /\ Before(Firsts(buffer[o]), {message[1]})
    BY <1>0, <2>2, GotMembers DEF WayInOrder, Before, GotSomewhere
  <2>4. ASSUME NEW o \in Buffers
        PROVE  /\ buffer'[o] \in Seq(MessageSet) /\ Sorted(buffer'[o])
               /\ Firsts(buffer'[o]) \subseteq Firsts(buffer[o]) \cup {message[1]}
    <3>1. CASE buffer'[o] = buffer[o]
      BY <2>3, <3>1
    <3>2. CASE buffer'[o] = Append(buffer[o], message)
      BY <2>2, <2>3, <3>2, SortedAppend
    <3>3. QED
      BY <2>1, <3>1, <3>2
  <2>5. /\ buffer' \in [Buffers -> Seq(MessageSet)]
        /\ item' \in [Items -> MessageSet \cup {None}]
    BY <1>0, <2>1, <2>2, <2>4
  <2>6. Got' \subseteq Got \cup Routed
    <3> SUFFICES ASSUME NEW a \in Got' PROVE a \in Got \cup Routed
      OBVIOUS
    <3>1. ASSUME NEW o \in Buffers, a \in Firsts(buffer'[o]) PROVE a \in Got \cup Routed
      BY <2>2, <2>4, <3>1, GotMembers DEF GotSomewhere
    <3>2. ASSUME NEW o \in Items, item'[o] # None, a = item'[o][1] PROVE a \in Got \cup Routed
      <4>1. CASE item'[o] = item[o]
        BY <3>2, <4>1, GotMembers DEF GotSomewhere
      <4>2. CASE item'[o] = message
        BY <2>2, <3>2, <4>2
      <4>3. QED
        BY <2>1, <4>1, <4>2
    <3>3. \/ \E o \in Buffers : a \in Firsts(buffer'[o])
          \/ \E o \in Items : item'[o] # None /\ a = item'[o][1]
      <4>1. GotSomewhere'
        BY GotMembers, PTL
      <4>2. QED
        BY <4>1 DEF GotSomewhere
    <3>4. QED
      BY <3>1, <3>2, <3>3
  <2>7. UNCHANGED <<OnWire, Open>>
    BY <2>1 DEF OnWire, Open, pubVars
  <2>8. WayType' /\ QueueInOrder'
    BY <1>0, <2>1, <2>5 DEF WayType, QueueType, QueueInOrder, pubVars
  <2>9. WayInOrder'
    BY <1>0, <2>1, <2>2, <2>4, <2>6, <2>7 DEF WayInOrder, Before
  <2>10. SentStays
    BY <2>1 DEF Sent, SentStays, pubVars
  <2>11. AllSent'
    BY <1>0, <2>2, <2>6, <2>7, <2>10 DEF AllSent, SentStays
  <2>12. QED
    BY <2>8, <2>9, <2>10, <2>11 DEF OInv
<1>10. ASSUME PublisherRequestsClear \/ Aside PROVE OInv' /\ SentStays
  <2>1. /\ UNCHANGED <<pubQueue, made, sequence_id, partial, wire, buffer, item>>
        /\ position' \in Nat
        /\ ppc' = "handle" => ppc = "handle" /\ request' = request
        /\ spc' = "route" => spc = "route" /\ message' = message
    <3>1. CASE PublisherRequestsClear
      BY <1>0, <3>1 DEF PublisherRequestsClear, pubVars, subVars, outVars, WayType, QueueType
    <3>2. CASE Aside
      BY <1>0, <3>2 DEF Aside, WayType, QueueType
    <3>3. QED
      BY <1>10, <3>1, <3>2
  <2>2. UNCHANGED <<Got, OnWire, Open>> /\ Routed' \subseteq Routed
    BY <2>1 DEF Got, Buffered, Latest, First, OnWire, Open, Routed
  <2>3. WayType' /\ QueueInOrder'
    BY <1>0, <2>1 DEF WayType, QueueType, QueueInOrder
  <2>4. WayInOrder'
    BY <1>0, <2>1, <2>2, Fewer DEF WayInOrder
  <2>5. SentStays
    BY <2>1 DEF Sent, SentStays
  <2>6. QED
    BY <1>0, <2>2, <2>3, <2>4, <2>5, FewerSent DEF OInv
<1>11. QED
  BY <1>1, <1>2, <1>3, <1>4, <1>5, <1>6, <1>7, <1>8, <1>9, <1>10, WaySteps

LEMMA OInvariance == Spec => []OInv
BY InitOInv, OStep, PTL DEF Spec

(* run_subscriber_thread(): what a subscriber finds in its buffer is in the *)
(* order of publication and without duplicates, whatever is lost on the way. *)
THEOREM SubscribersSeeOrder == Spec => []BuffersInOrder
<1>1. OInv => BuffersInOrder
  <2>1. WayType => \A o \in Buffers : DOMAIN buffer[o] = 1..Len(buffer[o])
    BY DEF WayType
  <2>2. QED
    BY <2>1 DEF OInv, WayInOrder, Sorted, BuffersInOrder
<1>2. QED
  BY <1>1, OInvariance, PTL

(* subscribe_latest(): an item is never replaced by an older message.      *)
THEOREM ItemsNeverGoBack == Spec => ItemsAdvance
<1> DEFINE Advance ==
      \A o \in Items :
        item[o] # None /\ item'[o] # item[o] => Precedes(item[o][1], item'[o][1])
<1>1. OInv /\ [Next]_vars => [Advance]_vars
  <2> SUFFICES ASSUME OInv, [Next]_vars, NEW o \in Items, item[o] # None, item'[o] # item[o]
               PROVE  Precedes(item[o][1], item'[o][1])
    OBVIOUS
  <2>1. SubRoute
    <3>1. item' # item
      OBVIOUS
    <3>2. ASSUME NEW c \in Client, NEW t \in Topic, NEW k \in FrameCounts, NEW h \in Headers,
                 Publish(c, t, k, h)
          PROVE  FALSE
      BY <3>1, <3>2 DEF Publish, outVars
    <3>3. ASSUME NEW t \in Topic, RemotePublish(t) PROVE FALSE
      BY <3>1, <3>3 DEF RemotePublish, outVars
    <3>4. ASSUME NEW b \in Buffers, Consume(b) PROVE FALSE
      BY <3>1, <3>4 DEF Consume
    <3>5. ~InitBind /\ ~PubClear /\ ~PubRead
      BY <3>1 DEF InitBind, notMain, PubClear, PubRead, notPublisher, outVars
    <3>6. ~PubSend /\ ~SubReceive /\ ~PublisherRequestsClear /\ ~Aside
      BY <3>1 DEF PubSend, SubReceive, PublisherRequestsClear, Aside, outVars
    <3>7. QED
      BY <3>2, <3>3, <3>4, <3>5, <3>6, WaySteps
  <2>2. spc = "route" /\ item'[o] = message
    BY <2>1 DEF SubRoute, Subscriber
  <2>3. item[o][1] \in Got
    BY GotMembers DEF GotSomewhere
  <2>4. message[1] \in Routed
    BY <2>2 DEF Routed
  <2>5. QED
    BY <2>2, <2>3, <2>4 DEF OInv, WayInOrder, Before
<1>2. QED
  BY <1>1, OInvariance, PTL DEF Spec, ItemsAdvance

-----------------------------------------------------------------------------
(* The bus as its users see it.                                            *)

(* What is under way is still asked for, or has been sent.                 *)
Wanted == {pubQueue[i] : i \in 1..Len(pubQueue)} \cup (IF ppc = "handle" THEN {request} ELSE {})
SentOut == Routed \cup OnWire \cup Open

UnderWayIs ==
  \A k : k \in UnderWay <=> \/ \E r \in Wanted \ {Bind} : k = Publication(r)
                           \/ \E a \in SentOut : k = Publication(a)

LEMMA UnderWayMembers == WayType => UnderWayIs
<1> SUFFICES ASSUME WayType PROVE UnderWayIs
  OBVIOUS
<1>1. /\ DOMAIN pubQueue = 1..Len(pubQueue) /\ DOMAIN wire = 1..Len(wire)
  BY DEF WayType, QueueType
<1> DEFINE requests == Range(pubQueue) \cup (IF ppc = "handle" THEN {request} ELSE {})
           messages == Range(wire) \cup (IF spc = "route" THEN {message} ELSE {})
                         \cup (IF partial = <<>> THEN {} ELSE {partial})
<1>2. \A k : k \in UnderWay <=> \/ \E r \in requests \ {Bind} : k = Publication(r)
                                \/ \E m \in messages : k = Publication(m[1])
  BY DEF UnderWay
<1>3. requests = Wanted
  BY <1>1 DEF Range, Wanted
<1>4. \A m : m \in messages <=> \/ \E i \in 1..Len(wire) : m = wire[i]
                                \/ spc = "route" /\ m = message
                                \/ partial # <<>> /\ m = partial
  BY <1>1 DEF Range
<1>5. \A a : a \in SentOut <=>
              \/ \E i \in 1..Len(wire) : a = wire[i][1]
              \/ spc = "route" /\ a = message[1]
              \/ partial # <<>> /\ a = partial[1]
  <2> SUFFICES ASSUME NEW a
               PROVE  a \in SentOut <=>
                        \/ \E i \in 1..Len(wire) : a = wire[i][1]
                        \/ spc = "route" /\ a = message[1]
                        \/ partial # <<>> /\ a = partial[1]
    BY Zenon
  <2>1. a \in OnWire <=> \E i \in 1..Len(wire) : a = wire[i][1]
    BY Zenon DEF OnWire, Firsts
  <2>2. a \in Routed <=> spc = "route" /\ a = message[1]
    BY DEF Routed
  <2>3. a \in Open <=> partial # <<>> /\ a = partial[1]
    BY DEF Open
  <2>4. QED
    BY <2>1, <2>2, <2>3, Zenon DEF SentOut
<1> HIDE DEF requests, messages
<1>7. ASSUME NEW k
      PROVE  (\E m \in messages : k = Publication(m[1])) <=>
               \E a \in SentOut : k = Publication(a)
  <2>1. ASSUME NEW a \in SentOut PROVE \E m \in messages : a = m[1]
    BY <1>4, <1>5
  <2>3. ASSUME NEW m \in messages PROVE m[1] \in SentOut
    BY <1>4, <1>5
  <2>4. QED
    BY <2>1, <2>3
<1>8. QED
  BY <1>2, <1>3, <1>7, Zenon DEF UnderWayIs

LEMMA UnderWayKnown == OInv => UnderWayIs
BY UnderWayMembers DEF OInv

LEMMA HandedAppend ==
  ASSUME NEW q \in Seq(MessageSet), NEW m \in MessageSet
  PROVE  Handed(Append(q, m)) = Append(Handed(q), Publication(m[1]))
<1>1. /\ Append(q, m) \in Seq(MessageSet)
      /\ Len(q) \in Nat /\ Len(Append(q, m)) = Len(q) + 1
      /\ \A i \in 1..Len(q) : Append(q, m)[i] = q[i]
      /\ Append(q, m)[Len(q) + 1] = m
  BY AppendAt
<1>2. DOMAIN q = 1..Len(q) /\ DOMAIN Append(q, m) = 1..Len(q) + 1
  BY <1>1
<1>3. PICK k : k = Publication(m[1])
  OBVIOUS
<1>4. PICK h : h = Handed(q)
  OBVIOUS
<1>5. h = [i \in 1..Len(q) |-> Publication(q[i][1])]
  BY <1>2, <1>4 DEF Handed
<1>6. Handed(Append(q, m)) =
        [i \in 1..Len(q) + 1 |-> IF i = Len(q) + 1 THEN k ELSE h[i]]
  <2>1. \A i \in 1..Len(q) + 1 :
          Publication(Append(q, m)[i][1]) = IF i = Len(q) + 1 THEN k ELSE h[i]
    BY <1>1, <1>3, <1>5
  <2>2. QED
    BY <1>2, <2>1 DEF Handed
<1>7. Append(h, k) = [i \in 1..Len(q) + 1 |-> IF i = Len(q) + 1 THEN k ELSE h[i]]
  BY <1>1, <1>5
<1>8. QED
  BY <1>3, <1>4, <1>6, <1>7

LEMMA HandedTail ==
  ASSUME NEW q \in Seq(MessageSet), q # <<>>
  PROVE  Handed(q) # <<>> /\ Handed(Tail(q)) = Tail(Handed(q))
<1>1. /\ Tail(q) \in Seq(MessageSet)
      /\ Len(q) \in Nat \ {0} /\ Len(Tail(q)) = Len(q) - 1
      /\ \A i \in 1..Len(Tail(q)) : i + 1 \in 1..Len(q) /\ Tail(q)[i] = q[i + 1]
  BY TailAt
<1>2. QED
  BY <1>1 DEF Handed

LEMMA HandedLen ==
  ASSUME NEW q \in Seq(MessageSet)
  PROVE  Len(Handed(q)) = Len(q)
BY DEF Handed

(* The requests to the subscriber thread name outputs.                     *)
SubType == subQueue \in Seq({Subscribe(o) : o \in Output} \cup {Connect})

LEMMA SubSteps ==
  ASSUME [Next]_vars
  PROVE  \/ \E r \in {Subscribe(o) : o \in Output} \cup {Connect} :
              RequestOfSubscriber(r) /\ outputs' = outputs
         \/ SubTake
         \/ UNCHANGED <<subQueue, outputs>>
<1> USE DEF subVars
<1>1. ASSUME UNCHANGED vars PROVE UNCHANGED <<subQueue, outputs>>
  BY <1>1 DEF vars
<1>2. ASSUME NEW o \in Output, SubscribeTo(o)
      PROVE  RequestOfSubscriber(Subscribe(o)) /\ outputs' = outputs
  BY <1>2 DEF SubscribeTo
<1>3. ASSUME InitConnect PROVE RequestOfSubscriber(Connect) /\ outputs' = outputs
  BY <1>3 DEF InitConnect, notMain
<1>4. ASSUME NEW c \in Client, NEW t \in Topic, NEW k \in FrameCounts, NEW h \in Headers,
             Publish(c, t, k, h)
      PROVE  UNCHANGED <<subQueue, outputs>>
  BY <1>4 DEF Publish
<1>5. ASSUME PublisherRequestsClear \/ EnableRecording \/ DisableRecording
      PROVE  UNCHANGED <<subQueue, outputs>>
  BY <1>5 DEF PublisherRequestsClear, EnableRecording, DisableRecording
<1>6. ASSUME NEW o \in Buffers, Consume(o) PROVE UNCHANGED <<subQueue, outputs>>
  BY <1>6 DEF Consume
<1>7. ASSUME NEW t \in Topic, RemotePublish(t) PROVE UNCHANGED <<subQueue, outputs>>
  BY <1>7 DEF RemotePublish
<1>8. ASSUME InitBind \/ Interrupt \/ CleanupStop \/ Cleanup
      PROVE  UNCHANGED <<subQueue, outputs>>
  BY <1>8 DEF InitBind, Interrupt, CleanupStop, Cleanup, CleanupShutdown, CleanupStopPublisher,
              CleanupStopSubscriber, CleanupStopRecorder, CleanupEnd, notMain
<1>9. ASSUME PublisherThread PROVE UNCHANGED <<subQueue, outputs>>
  BY <1>9 DEF PublisherThread, PubTestStop, PubTestClear, PubClear, PubUnflag, PubRead,
              PubThrow, PubBind, PubSend, notPublisher
<1>10. ASSUME SubTestStop \/ SubTakeNothing \/ SubReceive \/ SubTimeout \/ SubThrow \/ SubRoute
       PROVE  UNCHANGED <<subQueue, outputs>>
  BY <1>10 DEF SubTestStop, SubTakeNothing, SubReceive, SubTimeout, SubThrow, SubRoute
<1>11. ASSUME RecorderThread PROVE UNCHANGED <<subQueue, outputs>>
  BY <1>11 DEF RecorderThread, RecTestStop, RecRead, RecAppend, notRecorder
<1>12. QED
  BY <1>1, <1>2, <1>3, <1>4, <1>5, <1>6, <1>7, <1>8, <1>9, <1>10, <1>11
     DEF Next, Call, SubscriberThread

(* A subscription comes into force, and nothing else happens.              *)
LEMMA TakeOne ==
  ASSUME SubType, SubTake
  PROVE  /\ SubType'
         /\ UNCHANGED <<made, pubQueue, ppc, request, partial, wire, buffer, item>>
         /\ spc # "route" /\ spc' # "route"
         /\ outputs' = outputs \/ \E o \in Output : outputs' = outputs \cup {o}
<1>1. /\ subQueue # <<>> /\ subQueue' = Tail(subQueue) /\ spc = "take" /\ spc' # "route"
      /\ UNCHANGED <<made, pubQueue, ppc, request, partial, wire, buffer, item>>
      /\ outputs' = outputs \/ (Head(subQueue) # Connect /\
                                  outputs' = outputs \cup {Head(subQueue).output})
  BY DEF SubTake, Subscriber, notSubscriber, outVars, pubVars, queueVars, callVars
<1>2. /\ Tail(subQueue) \in Seq({Subscribe(o) : o \in Output} \cup {Connect})
      /\ Head(subQueue) \in {Subscribe(o) : o \in Output} \cup {Connect}
  BY <1>1 DEF SubType
<1>3. Head(subQueue) # Connect => Head(subQueue).output \in Output
  BY <1>2 DEF Subscribe
<1>4. QED
  BY <1>1, <1>2, <1>3 DEF SubType

LEMMA SubTypeInvariance == Spec => []SubType
<1>1. Init => SubType
  <2>1. <<>> \in Seq({Subscribe(o) : o \in Output} \cup {Connect})
    OBVIOUS
  <2>2. QED
    BY <2>1 DEF Init, SubType
<1>2. SubType /\ [Next]_vars => SubType'
  <2> SUFFICES ASSUME SubType, [Next]_vars PROVE SubType'
    OBVIOUS
  <2>1. ASSUME NEW r \in {Subscribe(o) : o \in Output} \cup {Connect}, RequestOfSubscriber(r)
        PROVE  SubType'
    <3>1. Append(subQueue, r) \in Seq({Subscribe(o) : o \in Output} \cup {Connect})
      BY AppendAt DEF SubType
    <3>2. QED
      BY <2>1, <3>1 DEF SubType, RequestOfSubscriber
  <2>2. ASSUME UNCHANGED <<subQueue, outputs>> PROVE SubType'
    BY <2>2 DEF SubType
  <2>3. QED
    BY <2>1, <2>2, TakeOne, SubSteps
<1>3. QED
  BY <1>1, <1>2, PTL DEF Spec

(* Steps after which less is under way.                                    *)
LEMMA BusLose ==
  ASSUME UnderWayIs, UnderWayIs', UNCHANGED <<made, outputs, buffer, item>>,
         Wanted' \subseteq Wanted \cup {Bind},
         \A a \in SentOut' :
           a \in SentOut \/ \E r \in Wanted \ {Bind} : Publication(a) = Publication(r)
  PROVE  PublicBus!Lose
<1>1. \A k : k \in UnderWay' => k \in UnderWay
  BY DEF UnderWayIs
<1>2. UnderWay' \subseteq UnderWay
  BY <1>1
<1>3. UNCHANGED <<Inboxes, Newest>>
  BY DEF Inboxes, Newest
<1>4. QED
  BY <1>2, <1>3 DEF PublicBus!Lose

LEMMA BusPublish ==
  ASSUME WayType, UnderWayIs, UnderWayIs', NEW p \in Client \cup {Remote}, NEW t \in Topic,
         made' = [made EXCEPT ![p] = @ + 1], UNCHANGED <<outputs, buffer, item>>,
         NEW k, k = [by |-> p, n |-> made[p], topic |-> t],
         \/ Wanted' = Wanted /\ SentOut' = SentOut
         \/ /\ SentOut' = SentOut
            /\ \E r : r # Bind /\ Publication(r) = k /\ Wanted' = Wanted \cup {r}
         \/ /\ Wanted' = Wanted
            /\ \E a : Publication(a) = k /\ SentOut' = SentOut \cup {a}
  PROVE  PublicBus!Publish(p, t)
<1>1. UnderWay' = UnderWay \/ UnderWay' = UnderWay \cup {k}
  <2>1. CASE Wanted' = Wanted /\ SentOut' = SentOut
    <3>1. \A j : j \in UnderWay' <=> j \in UnderWay
      BY <2>1 DEF UnderWayIs
    <3>2. QED
      BY <3>1
  <2>2. ASSUME NEW r, r # Bind, Publication(r) = k, SentOut' = SentOut, Wanted' = Wanted \cup {r}
        PROVE  UnderWay' = UnderWay \cup {k}
    <3>1. \A j : j \in UnderWay' <=> j \in UnderWay \/ j = k
      BY <2>2 DEF UnderWayIs
    <3>2. QED
      BY <3>1
  <2>3. ASSUME NEW a, Publication(a) = k, Wanted' = Wanted, SentOut' = SentOut \cup {a}
        PROVE  UnderWay' = UnderWay \cup {k}
    <3>1. \A j : j \in UnderWay' <=> j \in UnderWay \/ j = k
      BY <2>3 DEF UnderWayIs
    <3>2. QED
      BY <3>1
  <2>4. QED
    BY <2>1, <2>2, <2>3
<1>2. UNCHANGED <<Inboxes, Newest>>
  BY DEF Inboxes, Newest
<1>3. QED
  BY <1>1, <1>2 DEF PublicBus!Publish

LEMMA BusDeliver ==
  ASSUME OInv, OInv', UnderWayIs, UnderWayIs', SubRoute
  PROVE  \E m \in UnderWay : PublicBus!Deliver(m)
<1>0. /\ WayType /\ QueueInOrder /\ AllSent /\ WayInOrder
      /\ pubQueue \in Seq(Requests) /\ Len(pubQueue) \in Nat
      /\ buffer \in [Buffers -> Seq(MessageSet)]
      /\ item \in [Items -> MessageSet \cup {None}]
  BY DEF OInv, WayType, QueueType
<1>1. /\ UNCHANGED <<pubQueue, made, pubVars, wire, outputs>>
      /\ spc = "route" /\ spc' = "loop"
      /\ buffer' = [o \in Buffers |->
           IF o \in Targets /\ Len(buffer[o]) < BufCapacity
             THEN Append(buffer[o], message) ELSE buffer[o]]
      /\ item' = [o \in Items |-> IF o \in Targets THEN message ELSE item[o]]
  BY DEF SubRoute, Subscriber, notSubscriber, queueVars, callVars
<1>2. /\ message \in MessageSet /\ message[1] \in PartSet
      /\ Routed = {message[1]} /\ Routed' = {}
  BY <1>0, <1>1, FirstPart DEF WayType, Routed
<1>m. PICK m : m = Publication(message[1])
  OBVIOUS
<1>3. /\ m.by = message[1].by /\ m.n = message[1].n /\ m.topic = message[1].topic
  BY <1>m DEF Publication
<1>4. /\ Wanted' = Wanted /\ SentOut' = OnWire \cup Open
      /\ SentOut = {message[1]} \cup OnWire \cup Open
  BY <1>1, <1>2 DEF Wanted, SentOut, OnWire, Open, pubVars
<1>5. m \in UnderWay
  BY <1>m, <1>4 DEF UnderWayIs
<1>6. ASSUME NEW k \in UnderWay' PROVE k \in UnderWay /\ (k.by = m.by => k.n > m.n)
  <2>1. CASE \E r \in Wanted \ {Bind} : k = Publication(r)
    <3>1. PICK r \in Wanted \ {Bind} : k = Publication(r)
      BY <2>1
    <3>2. Earlier(message[1], r) /\ r \in Requests
      BY <1>0, <1>2, <3>1 DEF AllSent, Sent, Wanted, WayType
    <3>3. QED
      BY <1>2, <1>3, <3>1, <3>2 DEF UnderWayIs, Earlier, Publication, PartSet, Requests
  <2>2. CASE \E a \in OnWire \cup Open : k = Publication(a)
    <3>1. PICK a \in OnWire \cup Open : k = Publication(a)
      BY <2>2
    <3>2. Precedes(message[1], a) /\ a \in PartSet
      BY <1>0, <1>2 DEF WayInOrder, Before, AllSent, Sent
    <3>3. k.by = a.by /\ k.n = a.n /\ a.n \in Nat /\ message[1].n \in Nat
      BY <1>2, <3>1, <3>2 DEF Publication, PartSet
    <3>4. k \in UnderWay
      BY <1>4, <3>1 DEF UnderWayIs
    <3>5. QED
      BY <1>3, <3>2, <3>3, <3>4 DEF Precedes
  <2>3. QED
    BY <1>4, <2>1, <2>2 DEF UnderWayIs
<1>7. ASSUME NEW k \in UnderWay, k.by = m.by => k.n > m.n PROVE k \in UnderWay'
  <2>1. k # m
    BY <1>2, <1>3, <1>7 DEF PartSet
  <2>2. \/ \E r \in Wanted \ {Bind} : k = Publication(r)
        \/ \E a \in OnWire \cup Open : k = Publication(a)
    BY <1>m, <1>4, <2>1 DEF UnderWayIs
  <2>3. QED
    BY <1>4, <2>2 DEF UnderWayIs
<1>8. UnderWay' = {k \in UnderWay : k.by = m.by => k.n > m.n}
  BY <1>6, <1>7
<1>9. PublicBus!Targets(m) = Targets
  BY <1>3 DEF PublicBus!Targets, Targets
<1>10. Inboxes' = [o \in Buffers |->
         IF o \in Targets /\ Len(Inboxes[o]) < BufCapacity
           THEN Append(Inboxes[o], m) ELSE Inboxes[o]]
  <2> SUFFICES ASSUME NEW o \in Buffers
               PROVE  Handed(buffer'[o]) =
                        IF o \in Targets /\ Len(Handed(buffer[o])) < BufCapacity
                          THEN Append(Handed(buffer[o]), m) ELSE Handed(buffer[o])
    BY DEF Inboxes
  <2>1. buffer[o] \in Seq(MessageSet)
    BY <1>0
  <2>2. Len(Handed(buffer[o])) = Len(buffer[o])
    BY <2>1, HandedLen
  <2>3. Handed(Append(buffer[o], message)) = Append(Handed(buffer[o]), m)
    BY <1>2, <1>m, <2>1, HandedAppend
  <2>4. QED
    BY <1>1, <2>2, <2>3
<1>11. Newest' = [o \in Items |-> IF o \in Targets THEN m ELSE Newest[o]]
  <2>1. message # None
    BY <1>2, NoneAssumption DEF MessageSet
  <2>2. QED
    BY <1>1, <1>m, <2>1 DEF Newest
<1>12. PublicBus!Deliver(m)
  BY <1>1, <1>5, <1>8, <1>9, <1>10, <1>11 DEF PublicBus!Deliver
<1>13. QED
  BY <1>5, <1>12

LEMMA BusStep ==
  ASSUME OInv, OInv', SubType, UnderWayIs, UnderWayIs', [Next]_vars
  PROVE  [PublicBus!Next]_(PublicBus!vars)
<1>0. /\ WayType /\ pubQueue \in Seq(Requests) /\ Len(pubQueue) \in Nat
      /\ buffer \in [Buffers -> Seq(MessageSet)] /\ Remote \in Client \cup {Remote}
  BY DEF OInv, WayType, QueueType
<1>1. ASSUME NEW r, RequestOfPublisher(r), UNCHANGED <<ppc, request>>
      PROVE  Wanted' = Wanted \/ Wanted' = Wanted \cup {r}
  <2>1. CASE pubQueue' = Append(pubQueue, r)
    <3>1. /\ Len(pubQueue') = Len(pubQueue) + 1 /\ pubQueue'[Len(pubQueue) + 1] = r
          /\ \A i \in 1..Len(pubQueue) : pubQueue'[i] = pubQueue[i]
      BY <1>0, <2>1, AppendProperties
    <3>2. QED
      BY <1>0, <1>1, <3>1 DEF Wanted
  <2>2. CASE pubQueue' = pubQueue
    BY <1>1, <2>2 DEF Wanted
  <2>3. QED
    BY <1>1, <2>1, <2>2 DEF RequestOfPublisher
<1>2. ASSUME NEW c \in Client, NEW t \in Topic, NEW f \in FrameCounts, NEW h \in Headers,
             Publish(c, t, f, h)
      PROVE  PublicBus!Next
  <2> DEFINE r == [kind |-> "publish", topic |-> t, frames |-> f, header |-> h, by |-> c,
                   n |-> made[c], position |-> position]
  <2>1. r # Bind /\ Publication(r) = [by |-> c, n |-> made[c], topic |-> t]
    BY DEF Bind, Publication
  <2>2. /\ RequestOfPublisher(r) /\ made' = [made EXCEPT ![c] = @ + 1]
        /\ UNCHANGED <<pubVars, spc, message, outputs, wire, buffer, item>>
    BY <1>2 DEF Publish, subVars, outVars
  <2> HIDE DEF r
  <2>3. SentOut' = SentOut
    BY <2>2 DEF SentOut, Routed, OnWire, Open, pubVars
  <2>4. Wanted' = Wanted \/ Wanted' = Wanted \cup {r}
    BY <1>1, <2>2 DEF pubVars
  <2>5. PublicBus!Publish(c, t)
    BY <1>0, <2>1, <2>2, <2>3, <2>4, BusPublish
  <2>6. QED
    BY <2>5 DEF PublicBus!Next
<1>3. ASSUME NEW t \in Topic, RemotePublish(t) PROVE PublicBus!Next
  <2>a. PICK a : a = [topic |-> t, by |-> Remote, n |-> made[Remote],
                      process |-> "other", seq |-> made[Remote]]
    OBVIOUS
  <2>1. /\ made' = [made EXCEPT ![Remote] = @ + 1]
        /\ UNCHANGED <<pubQueue, pubVars, spc, message, outputs, buffer, item>>
        /\ wire' = Append(wire, <<a>>) \/ wire' = wire
    BY <1>3, <2>a DEF RemotePublish, Transmit, queueVars, subVars, outVars
  <2>2. Wanted' = Wanted /\ UNCHANGED <<Routed, Open>>
    BY <2>1 DEF Wanted, Routed, Open, pubVars
  <2>3. OnWire' = OnWire \/ OnWire' = OnWire \cup {a}
    <3>1. CASE wire' = wire
      BY <3>1 DEF OnWire
    <3>2. CASE wire' = Append(wire, <<a>>)
      <4>1. /\ Len(wire) \in Nat /\ Len(wire') = Len(wire) + 1 /\ wire'[Len(wire) + 1] = <<a>>
            /\ \A i \in 1..Len(wire) : wire'[i] = wire[i]
        BY <1>0, <3>2, AppendProperties DEF WayType
      <4>2. QED
        BY <4>1 DEF OnWire, Firsts
    <3>3. QED
      BY <2>1, <3>1, <3>2
  <2>4. SentOut' = SentOut \/ SentOut' = SentOut \cup {a}
    BY <2>2, <2>3 DEF SentOut
  <2>5. PICK k : k = [by |-> Remote, n |-> made[Remote], topic |-> t]
    OBVIOUS
  <2>6. Publication(a) = k
    BY <2>a, <2>5 DEF Publication
  <2>7. PublicBus!Publish(Remote, t)
    BY <1>0, <2>1, <2>2, <2>4, <2>5, <2>6, BusPublish
  <2>8. QED
    BY <1>0, <2>7 DEF PublicBus!Next
<1>4. ASSUME NEW o \in Buffers, Consume(o) PROVE PublicBus!Next
  <2>1. /\ UNCHANGED <<pubQueue, made, pubVars, spc, message, outputs, item, wire>>
        /\ buffer[o] # <<>> /\ buffer' = [buffer EXCEPT ![o] = Tail(@)]
    BY <1>4 DEF Consume, queueVars, subVars, callVars
  <2>2. Handed(buffer[o]) # <<>> /\ Handed(Tail(buffer[o])) = Tail(Handed(buffer[o]))
    BY <1>0, <2>1, HandedTail
  <2>3. Inboxes[o] # <<>> /\ Inboxes' = [Inboxes EXCEPT ![o] = Tail(@)]
    BY <1>0, <2>1, <2>2 DEF Inboxes
  <2>4. UNCHANGED <<Wanted, SentOut, Newest>>
    BY <2>1 DEF Wanted, SentOut, Routed, OnWire, Open, Newest, pubVars
  <2>5. \A k : k \in UnderWay' <=> k \in UnderWay
    BY <2>4 DEF UnderWayIs
  <2>6. UnderWay' = UnderWay
    BY <2>5
  <2>7. PublicBus!Consume(o)
    BY <2>1, <2>3, <2>4, <2>6 DEF PublicBus!Consume
  <2>8. QED
    BY <2>7 DEF PublicBus!Next
<1>5. ASSUME SubTake PROVE [PublicBus!Next]_(PublicBus!vars)
  <2>1. /\ UNCHANGED <<made, pubQueue, ppc, request, partial, wire, buffer, item>>
        /\ spc # "route" /\ spc' # "route"
        /\ outputs' = outputs \/ \E o \in Output : outputs' = outputs \cup {o}
    BY <1>5, TakeOne
  <2>2. UNCHANGED <<Wanted, SentOut, Inboxes, Newest>>
    BY <2>1 DEF Wanted, SentOut, Routed, OnWire, Open, Inboxes, Newest
  <2>3. \A k : k \in UnderWay' <=> k \in UnderWay
    BY <2>2 DEF UnderWayIs
  <2>4. UnderWay' = UnderWay
    BY <2>3
  <2>5. CASE outputs' = outputs
    BY <2>1, <2>2, <2>4, <2>5 DEF PublicBus!vars
  <2>6. ASSUME NEW o \in Output, outputs' = outputs \cup {o} PROVE PublicBus!Next
    <3>1. PublicBus!Subscribe(o)
      BY <2>1, <2>2, <2>4, <2>6 DEF PublicBus!Subscribe
    <3>2. QED
      BY <3>1 DEF PublicBus!Next, Output
  <2>7. QED
    BY <2>1, <2>5, <2>6
<1> DEFINE Less ==
      /\ UNCHANGED <<made, buffer, item>>
      /\ Wanted' \subseteq Wanted \cup {Bind}
      /\ \A a \in SentOut' :
           a \in SentOut \/ \E r \in Wanted \ {Bind} : Publication(a) = Publication(r)
<1>6. ASSUME Less, outputs' = outputs PROVE PublicBus!Next
  BY <1>6, BusLose DEF PublicBus!Next
<1>7. ASSUME InitBind PROVE Less
  <2>1. /\ RequestOfPublisher(Bind)
        /\ UNCHANGED <<made, pubVars, spc, message, wire, buffer, item>>
    BY <1>7 DEF InitBind, notMain, callVars, outVars
  <2>2. SentOut' = SentOut
    BY <2>1 DEF SentOut, Routed, OnWire, Open, pubVars
  <2>3. QED
    BY <1>1, <2>1, <2>2 DEF pubVars
<1>8. ASSUME PubClear \/ PubRead PROVE Less
  <2>1. /\ UNCHANGED <<made, partial, wire, spc, message, buffer, item>>
        /\ \/ pubQueue' = <<>> /\ ppc' # "handle"
           \/ pubQueue' = pubQueue /\ ppc' # "handle"
           \/ pubQueue # <<>> /\ pubQueue' = Tail(pubQueue) /\ request' = Head(pubQueue)
    BY <1>8 DEF PubClear, PubRead, Publisher, notPublisher, callVars, subVars, outVars
  <2>2. SentOut' = SentOut
    BY <2>1 DEF SentOut, Routed, OnWire, Open
  <2>3. Wanted' \subseteq Wanted
    <3>1. CASE pubQueue' = <<>> /\ ppc' # "handle"
      BY <3>1 DEF Wanted
    <3>2. CASE pubQueue' = pubQueue /\ ppc' # "handle"
      BY <3>2 DEF Wanted
    <3>3. CASE pubQueue # <<>> /\ pubQueue' = Tail(pubQueue) /\ request' = Head(pubQueue)
      <4>1. /\ request' = pubQueue[1] /\ 1 \in 1..Len(pubQueue)
            /\ \A i \in 1..Len(pubQueue') :
                 i + 1 \in 1..Len(pubQueue) /\ pubQueue'[i] = pubQueue[i + 1]
        BY <1>0, <3>3, TailAt
      <4>2. QED
        BY <4>1 DEF Wanted
    <3>4. QED
      BY <2>1, <3>1, <3>2, <3>3
  <2>4. QED
    BY <2>1, <2>2, <2>3
<1>9. ASSUME PubSend PROVE Less
  <2>p. PICK p : p = Part(request)
    OBVIOUS
  <2>q. PICK parts : parts = Append(partial, p)
    OBVIOUS
  <2>1. /\ UNCHANGED <<pubQueue, made, spc, message, buffer, item>>
        /\ ppc = "handle" /\ ppc' = "loop" /\ request # Bind
        /\ \/ partial' = parts /\ wire' = wire
           \/ partial' = <<>> /\ (wire' = wire \/ wire' = Append(wire, parts))
    BY <1>9, <2>p, <2>q DEF PubSend, Publisher, Transmit, queueVars, subVars, outVars, callVars
  <2>2. Publication(p) = Publication(request) /\ request \in Wanted \ {Bind}
    BY <2>1, <2>p DEF Publication, Part, Wanted
  <2>3. parts[1] \in Open \cup {p} /\ parts # <<>>
    <3>1. /\ Len(partial) \in Nat /\ Len(parts) = Len(partial) + 1
          /\ \A i \in 1..Len(partial) : parts[i] = partial[i]
          /\ parts[Len(partial) + 1] = p /\ (partial = <<>> <=> Len(partial) = 0)
      BY <1>0, <2>q, AppendProperties, EmptySeq DEF WayType
    <3>2. QED
      BY <3>1 DEF Open
  <2>4. OnWire' = OnWire \/ OnWire' = OnWire \cup {parts[1]}
    <3>1. CASE wire' = wire
      BY <3>1 DEF OnWire
    <3>2. CASE wire' = Append(wire, parts)
      <4>1. /\ Len(wire) \in Nat /\ Len(wire') = Len(wire) + 1 /\ wire'[Len(wire) + 1] = parts
            /\ \A i \in 1..Len(wire) : wire'[i] = wire[i]
        BY <1>0, <3>2, AppendProperties DEF WayType
      <4>2. QED
        BY <4>1 DEF OnWire, Firsts
    <3>3. QED
      BY <2>1, <3>1, <3>2
  <2>5. Open' \subseteq {parts[1]} /\ Routed' = Routed
    BY <2>1 DEF Open, Routed
  <2>6. SentOut' \subseteq SentOut \cup {p}
    BY <2>3, <2>4, <2>5 DEF SentOut
  <2>7. Wanted' \subseteq Wanted
    BY <2>1 DEF Wanted
  <2>8. QED
    BY <2>1, <2>2, <2>6, <2>7
<1>10. ASSUME SubReceive PROVE Less
  <2>1. /\ UNCHANGED <<pubQueue, made, pubVars, buffer, item>>
        /\ wire # <<>> /\ spc' = "route" /\ message' = Head(wire) /\ wire' = Tail(wire)
    BY <1>10 DEF SubReceive, Subscriber, notSubscriber, queueVars, callVars, outVars
  <2>2. /\ Firsts(wire') \subseteq Firsts(wire) /\ message'[1] \in Firsts(wire)
    BY <1>0, <2>1, SortedTail DEF OInv, WayInOrder, WayType
  <2>3. SentOut' \subseteq SentOut /\ Wanted' = Wanted
    BY <2>1, <2>2 DEF SentOut, Routed, OnWire, Open, Wanted, pubVars
  <2>4. QED
    BY <2>1, <2>3
<1>11. ASSUME PublisherRequestsClear \/ Aside PROVE Less
  <2>1. /\ UNCHANGED <<pubQueue, made, partial, wire, buffer, item>>
        /\ ppc' = "handle" => ppc = "handle" /\ request' = request
        /\ spc' = "route" => spc = "route" /\ message' = message
    BY <1>11 DEF PublisherRequestsClear, Aside, pubVars, subVars, outVars
  <2>2. SentOut' \subseteq SentOut /\ Wanted' \subseteq Wanted
    BY <2>1 DEF SentOut, Routed, OnWire, Open, Wanted
  <2>3. QED
    BY <2>1, <2>2
<1> HIDE DEF Less
<1>12. Less => outputs' = outputs \/ SubTake
  BY SubSteps DEF RequestOfSubscriber
<1>13. ASSUME Less PROVE [PublicBus!Next]_(PublicBus!vars)
  BY <1>5, <1>6, <1>12, <1>13
<1>14. QED
  BY <1>2, <1>3, <1>4, <1>7, <1>8, <1>9, <1>10, <1>11, <1>13, WaySteps, BusDeliver
     DEF PublicBus!Next

(* run_publisher_thread(), run_subscriber_thread(): for any publishers,    *)
(* subscribers and capacities, what the bus hands out is what its promise  *)
(* allows: a publication reaches all subscribers in force with room for it *)
(* or none, at most once, and never after a later one of its publisher.    *)
THEOREM PubSubImplementsBus == Spec => ImplementsBus
<1>1. Init => PublicBus!Init
  <2> SUFFICES ASSUME Init PROVE PublicBus!Init
    OBVIOUS
  <2>1. /\ made = [p \in Client \cup {Remote} |-> 0] /\ outputs = {} /\ UnderWay = {}
    BY DEF Init, UnderWay, Range
  <2>2. Inboxes = [o \in Buffers |-> <<>>]
    BY DEF Init, Inboxes, Handed
  <2>3. Newest = [o \in Items |-> None]
    BY DEF Init, Newest
  <2>4. QED
    BY <2>1, <2>2, <2>3 DEF PublicBus!Init
<1>2. OInv /\ OInv' /\ SubType /\ [Next]_vars => [PublicBus!Next]_(PublicBus!vars)
  <2> SUFFICES ASSUME OInv, OInv', SubType, [Next]_vars
               PROVE  [PublicBus!Next]_(PublicBus!vars)
    OBVIOUS
  <2>1. UnderWayIs /\ UnderWayIs'
    <3>1. UnderWayIs
      BY UnderWayKnown
    <3>2. (OInv => UnderWayIs)'
      BY UnderWayKnown, PTL
    <3>3. QED
      BY <3>1, <3>2
  <2>2. QED
    BY <2>1, BusStep
<1>3. QED
  BY <1>1, <1>2, OInvariance, SubTypeInvariance, PTL DEF Spec, ImplementsBus, PublicBus!Spec

-----------------------------------------------------------------------------
(* What gets into the log.  A message on its way there is in the log, with *)
(* the recorder thread, or in its buffer.                                  *)
Logged == Firsts(log)
Taken == IF rpc = "append" THEN {rmessage[1]} ELSE {}
Waiting == Firsts(recBuffer)
Recorded == Logged \cup Taken \cup Waiting

RecordType ==
  /\ log \in Seq(MessageSet) /\ recBuffer \in Seq(MessageSet)
  /\ rpc = "append" => rmessage \in MessageSet

RecordInOrder ==
  /\ Sorted(log) /\ Sorted(recBuffer)
  /\ Before(Logged, Taken \cup Waiting) /\ Before(Taken, Waiting)

(* The sender of a message can be told by its header.                      *)
Signed(a) == a.process = "own" <=> a.by \in Client
AllSigned == \A a \in Routed \cup OnWire \cup Open : Signed(a)

(* What has been recorded is older than what has yet to be, on either side. *)
RecordedFirst ==
  /\ \A a \in Recorded : Sent(a)
  /\ \A a \in Recorded, b \in Routed \cup OnWire : b.by = Remote => Precedes(a, b)

RInv == OInv /\ RecordType /\ RecordInOrder /\ AllSigned /\ RecordedFirst

(* Steps that neither record nor move a message.                           *)
Quiet ==
  /\ UNCHANGED <<partial, wire, log, recBuffer>>
  /\ spc' = "route" => spc = "route" /\ message' = message
  /\ rpc' = "append" => rpc = "append" /\ rmessage' = rmessage

LEMMA RecordSteps ==
  ASSUME [Next]_vars
  PROVE  \/ \E t \in Topic : RemotePublish(t)
         \/ PubSend \/ SubReceive \/ SubRoute
         \/ EnableRecording \/ DisableRecording \/ RecRead \/ RecAppend
         \/ Quiet
<1> USE DEF Quiet, mainVars, pubVars, queueVars, subVars, outVars, recVars, callVars
<1>1. ASSUME UNCHANGED vars PROVE Quiet
  BY <1>1 DEF vars
<1>2. ASSUME NEW c \in Client, NEW t \in Topic, NEW k \in FrameCounts, NEW h \in Headers,
             Publish(c, t, k, h)
      PROVE  Quiet
  BY <1>2 DEF Publish
<1>3. ASSUME NEW o \in Output, SubscribeTo(o) PROVE Quiet
  BY <1>3 DEF SubscribeTo
<1>4. ASSUME NEW o \in Buffers, Consume(o) PROVE Quiet
  BY <1>4 DEF Consume
<1>5. ASSUME PublisherRequestsClear PROVE Quiet
  BY <1>5 DEF PublisherRequestsClear
<1>6. ASSUME PubTestStop \/ PubTestClear \/ PubClear \/ PubUnflag \/ PubRead \/ PubThrow \/ PubBind
      PROVE  Quiet
  BY <1>6 DEF PubTestStop, PubTestClear, PubClear, PubUnflag, PubRead, PubThrow, PubBind,
              notPublisher
<1>7. ASSUME SubTestStop \/ SubTakeNothing \/ SubTake \/ SubTimeout \/ SubThrow PROVE Quiet
  BY <1>7 DEF SubTestStop, SubTakeNothing, SubTake, SubTimeout, SubThrow, Subscriber,
              notSubscriber
<1>8. ASSUME RecTestStop PROVE Quiet
  BY <1>8 DEF RecTestStop, Recorder, notRecorder
<1>9. ASSUME InitBind \/ InitConnect \/ Interrupt \/ CleanupStop \/ Cleanup PROVE Quiet
  <2>1. UNCHANGED notMain
    BY <1>9 DEF InitBind, InitConnect, Interrupt, CleanupStop, Cleanup, CleanupShutdown,
                CleanupStopPublisher, CleanupStopSubscriber, CleanupStopRecorder, CleanupEnd
  <2>2. QED
    BY <2>1 DEF notMain
<1>10. QED
  BY <1>1, <1>2, <1>3, <1>4, <1>5, <1>6, <1>7, <1>8, <1>9
     DEF Next, Call, PublisherThread, SubscriberThread, RecorderThread

LEMMA InitRInv == Init => RInv
<1> SUFFICES ASSUME Init PROVE RInv
  OBVIOUS
<1>1. /\ log = <<>> /\ Len(log) = 0 /\ log \in Seq(MessageSet)
      /\ recBuffer = <<>> /\ Len(recBuffer) = 0 /\ recBuffer \in Seq(MessageSet)
      /\ wire = <<>> /\ Len(wire) = 0 /\ partial = <<>> /\ spc = "loop" /\ rpc = "loop"
  BY EmptySeq DEF Init
<1>2. Recorded = {} /\ Logged = {} /\ Taken = {} /\ Routed = {} /\ OnWire = {} /\ Open = {}
  BY <1>1 DEF Recorded, Logged, Taken, Waiting, Routed, OnWire, Open, Firsts
<1>3. RecordType /\ RecordInOrder /\ AllSigned /\ RecordedFirst
  BY <1>1, <1>2 DEF RecordType, RecordInOrder, AllSigned, RecordedFirst, Before, Sorted
<1>4. QED
  BY <1>3, InitOInv DEF RInv

(* The newest message is put into the recorder's buffer, or none.          *)
LEMMA Appended ==
  ASSUME RecordType, RecordInOrder, NEW m \in MessageSet, Before(Recorded, {m[1]}),
         Record(m), UNCHANGED <<log, rpc, rmessage>>
  PROVE  RecordType' /\ RecordInOrder' /\ Recorded' \subseteq Recorded \cup {m[1]}
<1>1. UNCHANGED <<Logged, Taken>>
  BY DEF Logged, Taken
<1>2. /\ recBuffer' \in Seq(MessageSet) /\ Sorted(recBuffer')
      /\ Waiting' \subseteq Waiting \cup {m[1]}
  <2>1. CASE recBuffer' = recBuffer
    BY <2>1 DEF RecordType, RecordInOrder, Waiting
  <2>2. CASE recBuffer' = Append(recBuffer, m)
    <3>1. recBuffer \in Seq(MessageSet) /\ Sorted(recBuffer) /\ Before(Firsts(recBuffer), {m[1]})
      BY DEF RecordType, RecordInOrder, Recorded, Waiting, Before
    <3>2. QED
      BY <2>2, <3>1, SortedAppend DEF Waiting
  <2>3. QED
    BY <2>1, <2>2 DEF Record
<1>3. RecordType'
  BY <1>2 DEF RecordType
<1>4. RecordInOrder'
  BY <1>1, <1>2 DEF RecordInOrder, Recorded, Before
<1>5. QED
  BY <1>1, <1>2, <1>3, <1>4 DEF Recorded

LEMMA FewerRecorded ==
  ASSUME RecordedFirst, SentStays, Recorded' \subseteq Recorded,
         Routed' \subseteq Routed \cup OnWire, OnWire' \subseteq OnWire
  PROVE  RecordedFirst'
BY DEF RecordedFirst, SentStays

LEMMA RStep == Headers \subseteq {"new"} /\ RInv /\ [Next]_vars => RInv'
<1> SUFFICES ASSUME Headers \subseteq {"new"}, RInv, [Next]_vars PROVE RInv'
  OBVIOUS
<1>0. /\ OInv /\ OInv' /\ SentStays
      /\ RecordType /\ RecordInOrder /\ AllSigned /\ RecordedFirst
      /\ WayType /\ WayInOrder /\ AllSent
      /\ log \in Seq(MessageSet) /\ recBuffer \in Seq(MessageSet) /\ wire \in Seq(MessageSet)
  BY OStep DEF RInv, OInv, RecordType, WayType
<1>1. ASSUME NEW t \in Topic, RemotePublish(t) PROVE RInv'
  <2>m. PICK m : m = <<[topic |-> t, by |-> Remote, n |-> made[Remote],
                         process |-> "other", seq |-> made[Remote]]>>
    OBVIOUS
  <2>1. /\ m \in MessageSet /\ m[1].by = Remote
        /\ m[1].n = made[Remote] /\ m[1].process = "other"
    <3>1. made[Remote] \in Nat
      BY <1>0 DEF WayType, QueueType
    <3>2. QED
      BY <2>m, <3>1 DEF MessageSet, PartSet, Process
  <2>2. /\ UNCHANGED <<partial, spc, message, log, rpc, rmessage, recBuffer>>
        /\ wire' = Append(wire, m) \/ wire' = wire
    BY <1>1, <2>m DEF RemotePublish, Transmit, pubVars, subVars, recVars
  <2>3. OnWire' \subseteq OnWire \cup {m[1]}
    <3>1. CASE wire' = wire
      BY <3>1 DEF OnWire
    <3>2. CASE wire' = Append(wire, m)
      <4>1. /\ Len(wire) \in Nat /\ Len(wire') = Len(wire) + 1
            /\ \A i \in 1..Len(wire) : wire'[i] = wire[i]
            /\ wire'[Len(wire) + 1] = m
        BY <1>0, <2>1, <3>2, AppendAt
      <4>2. \A i : i \in 1..Len(wire') <=> i \in 1..Len(wire) \/ i = Len(wire) + 1
        BY <4>1
      <4>3. QED
        BY <4>1, <4>2 DEF OnWire, Firsts
    <3>3. QED
      BY <2>2, <3>1, <3>2
  <2>4. UNCHANGED <<Routed, Open, Logged, Taken, Waiting, Recorded>>
    BY <2>2 DEF Routed, Open, Logged, Taken, Waiting, Recorded
  <2>5. RecordType' /\ RecordInOrder'
    BY <1>0, <2>2, <2>4 DEF RecordType, RecordInOrder
  <2>6. Signed(m[1])
    BY <2>1, NoneAssumption DEF Signed
  <2>7. AllSigned'
    BY <1>0, <2>3, <2>4, <2>6 DEF AllSigned, Signed
  <2>8. \A a \in Recorded : Precedes(a, m[1])
    BY <1>0, <2>1 DEF RecordedFirst, Sent, Precedes
  <2>9. RecordedFirst'
    BY <1>0, <2>3, <2>4, <2>8 DEF RecordedFirst, SentStays
  <2>10. QED
    BY <1>0, <2>5, <2>7, <2>9 DEF RInv
<1>2. ASSUME PubSend PROVE RInv'
  <2>p. PICK p : /\ p = Part(request)
                 /\ p \in {q \in PartSet : q.by \in Client}
                 /\ Sent(p)' /\ SentStays
                 /\ \A a : Sent(a) => Precedes(a, p)
    BY <1>0, <1>2, SentLast
  <2>1. request # Bind /\ request \in Requests
    BY <1>0, <1>2 DEF PubSend, Publisher, WayType
  <2>2. p.process = "own" /\ p.by \in Client /\ Signed(p)
    BY <2>p, <2>1 DEF Part, Requests, Signed
  <2>3. /\ UNCHANGED <<spc, message, log, rpc, rmessage>>
        /\ Record(<<p>>)
        /\ \/ partial' = Append(partial, p) /\ wire' = wire
           \/ partial' = <<>> /\ (wire' = wire \/ wire' = Append(wire, Append(partial, p)))
    BY <1>2, <2>p DEF PubSend, Transmit, subVars, recVars
  <2>4. <<p>> \in MessageSet /\ <<p>>[1] = p
    BY <2>p DEF MessageSet
  <2>5. Before(Recorded, {<<p>>[1]})
    BY <1>0, <2>p, <2>4 DEF RecordedFirst, Before
  <2>6. RecordType' /\ RecordInOrder' /\ Recorded' \subseteq Recorded \cup {p}
    BY <1>0, <2>3, <2>4, <2>5, Appended
  <2>7. PICK first : /\ first = Append(partial, p)[1] /\ first \in Open \cup {p}
                     /\ Append(partial, p) \in MessageSet
    <3>1. /\ partial \in Seq({q \in PartSet : q.by \in Client}) /\ partial \in Seq(PartSet)
      BY <1>0 DEF WayType
    <3>2. /\ Append(partial, p) \in Seq(PartSet)
          /\ Len(Append(partial, p)) = Len(partial) + 1 /\ Len(partial) \in Nat
          /\ \A i \in 1..Len(partial) : Append(partial, p)[i] = partial[i]
          /\ Append(partial, p)[Len(partial) + 1] = p
      BY <2>p, <3>1, AppendAt
    <3>3. Append(partial, p) # <<>>
      BY <3>2, EmptySeq
    <3>4. CASE partial = <<>>
      BY <3>2, <3>3, <3>4 DEF MessageSet
    <3>5. CASE partial # <<>>
      <4>1. 1 \in 1..Len(partial)
        BY <3>1, <3>5, EmptySeq
      <4>2. QED
        BY <3>2, <3>3, <3>5, <4>1 DEF MessageSet, Open
    <3>6. QED
      BY <3>4, <3>5
  <2>8. Signed(first) /\ first.by # Remote
    <3>1. \A a \in Open : a.by \in Client
      BY <1>0, EmptySeq DEF Open, WayType
    <3>2. QED
      BY <1>0, <2>2, <2>7, <3>1, NoneAssumption DEF AllSigned
  <2>9. Routed' = Routed /\ Open' \subseteq {first} /\ OnWire' \subseteq OnWire \cup {first}
    <3>1. Routed' = Routed /\ Open' \subseteq {first}
      BY <2>3, <2>7 DEF Routed, Open
    <3>2. CASE wire' = wire
      BY <3>1, <3>2 DEF OnWire
    <3>3. CASE wire' = Append(wire, Append(partial, p))
      <4>1. /\ Len(wire) \in Nat /\ Len(wire') = Len(wire) + 1
            /\ \A i \in 1..Len(wire) : wire'[i] = wire[i]
            /\ wire'[Len(wire) + 1] = Append(partial, p)
        BY <1>0, <2>7, <3>3, AppendAt
      <4>2. \A i : i \in 1..Len(wire') <=> i \in 1..Len(wire) \/ i = Len(wire) + 1
        BY <4>1
      <4>3. QED
        BY <2>7, <3>1, <4>1, <4>2 DEF OnWire, Firsts
    <3>4. QED
      BY <2>3, <3>2, <3>3
  <2>10. AllSigned'
    BY <1>0, <2>8, <2>9 DEF AllSigned, Signed
  <2>11. RecordedFirst'
    <3>1. \A a \in Recorded' : Sent(a)'
      BY <1>0, <2>p, <2>6 DEF RecordedFirst, SentStays
    <3>2. \A b \in Routed \cup OnWire : b.by = Remote => Precedes(p, b)
      BY <1>0, <2>2, NoneAssumption DEF AllSigned, Signed, Precedes
    <3>3. \A b \in Routed' \cup OnWire' : b.by = Remote => b \in Routed \cup OnWire
      BY <2>8, <2>9
    <3>4. QED
      BY <1>0, <2>6, <3>1, <3>2, <3>3 DEF RecordedFirst
  <2>12. QED
    BY <1>0, <2>6, <2>10, <2>11 DEF RInv
<1>3. ASSUME SubReceive PROVE RInv'
  <2>1. /\ UNCHANGED <<partial, log, rpc, rmessage, recBuffer>>
        /\ wire # <<>> /\ message' = Head(wire) /\ wire' = Tail(wire)
    BY <1>3 DEF SubReceive, Subscriber, notSubscriber, pubVars, recVars
  <2>2. OnWire' \subseteq OnWire /\ message'[1] \in OnWire
    BY <1>0, <2>1, SortedTail DEF WayInOrder, OnWire
  <2>3. /\ Routed' \subseteq OnWire
        /\ UNCHANGED <<Open, Logged, Taken, Waiting, Recorded>>
    BY <2>1, <2>2 DEF Routed, Open, Logged, Taken, Waiting, Recorded
  <2>4. RecordType' /\ RecordInOrder'
    BY <1>0, <2>1, <2>3 DEF RecordType, RecordInOrder
  <2>5. AllSigned'
    BY <1>0, <2>2, <2>3 DEF AllSigned
  <2>6. RecordedFirst'
    BY <1>0, <2>2, <2>3, FewerRecorded
  <2>7. QED
    BY <1>0, <2>4, <2>5, <2>6 DEF RInv
<1>4. ASSUME SubRoute PROVE RInv'
  <2>1. /\ UNCHANGED <<partial, wire, log, rpc, rmessage>>
        /\ spc = "route" /\ spc' = "loop"
        /\ IF Foreign THEN Record(message) ELSE UNCHANGED recBuffer
    BY <1>4 DEF SubRoute, Subscriber, notSubscriber, pubVars, recVars
  <2>2. message \in MessageSet /\ Routed = {message[1]} /\ Routed' = {}
    BY <1>0, <2>1 DEF WayType, Routed
  <2>3. UNCHANGED <<OnWire, Open>>
    BY <2>1 DEF OnWire, Open
  <2>4. AllSigned'
    BY <1>0, <2>2, <2>3 DEF AllSigned
  <2>5. CASE ~Foreign
    <3>1. UNCHANGED <<Logged, Taken, Waiting, Recorded>>
      BY <2>1, <2>5 DEF Logged, Taken, Waiting, Recorded
    <3>2. RecordType' /\ RecordInOrder'
      BY <1>0, <2>1, <2>5, <3>1 DEF RecordType, RecordInOrder
    <3>3. RecordedFirst'
      BY <1>0, <2>2, <2>3, <3>1, FewerRecorded
    <3>4. QED
      BY <1>0, <2>4, <3>2, <3>3 DEF RInv
  <2>6. CASE Foreign
    <3>1. message[1].by = Remote
      <4>1. message[1].by \in Client \cup {Remote}
        BY <2>2, FirstPart DEF PartSet
      <4>2. message[1].by \notin Client
        BY <1>0, <2>2, <2>6 DEF AllSigned, Signed, Foreign
      <4>3. QED
        BY <4>1, <4>2
    <3>2. Before(Recorded, {message[1]})
      BY <1>0, <2>2, <3>1 DEF RecordedFirst, Before
    <3>3. RecordType' /\ RecordInOrder' /\ Recorded' \subseteq Recorded \cup {message[1]}
      BY <1>0, <2>1, <2>2, <2>6, <3>2, Appended
    <3>4. \A b \in OnWire : Precedes(message[1], b)
      BY <1>0, <2>2 DEF WayInOrder, Before
    <3>5. \A a \in Recorded' : Sent(a)'
      BY <1>0, <2>2, <3>3 DEF RecordedFirst, AllSent, SentStays
    <3>6. RecordedFirst'
      BY <1>0, <2>2, <2>3, <3>3, <3>4, <3>5 DEF RecordedFirst
    <3>7. QED
      BY <1>0, <2>4, <3>3, <3>6 DEF RInv
  <2>7. QED
    BY <2>5, <2>6
<1>5. ASSUME EnableRecording \/ DisableRecording PROVE RInv'
  <2>1. UNCHANGED <<partial, wire, spc, message, rpc, rmessage, recBuffer>> /\ log' = <<>>
    BY <1>5 DEF EnableRecording, DisableRecording, pubVars, subVars
  <2>2. log' \in Seq(MessageSet) /\ Len(log') = 0
    BY <2>1, EmptySeq
  <2>3. UNCHANGED <<Routed, OnWire, Open, Taken, Waiting>> /\ Logged' = {}
    BY <2>1, <2>2 DEF Routed, OnWire, Open, Logged, Taken, Waiting, Firsts
  <2>4. RecordType' /\ RecordInOrder'
    BY <1>0, <2>1, <2>2, <2>3 DEF RecordType, RecordInOrder, Sorted, Before
  <2>5. AllSigned'
    BY <1>0, <2>3 DEF AllSigned
  <2>6. RecordedFirst'
    BY <1>0, <2>3, FewerRecorded DEF Recorded
  <2>7. QED
    BY <1>0, <2>4, <2>5, <2>6 DEF RInv
<1>6. ASSUME RecRead PROVE RInv'
  <2>1. /\ UNCHANGED <<partial, wire, spc, message, log>> /\ rpc = "read"
        /\ \/ rpc' = "exited" /\ recBuffer' = recBuffer
           \/ /\ recBuffer # <<>> /\ rpc' = "append"
              /\ rmessage' = Head(recBuffer) /\ recBuffer' = Tail(recBuffer)
    BY <1>6 DEF RecRead, Recorder, notRecorder, pubVars, subVars
  <2>2. UNCHANGED <<Routed, OnWire, Open, Logged>> /\ Taken = {}
    BY <2>1 DEF Routed, OnWire, Open, Logged, Taken
  <2>3. /\ RecordType' /\ Sorted(recBuffer')
        /\ Taken' \cup Waiting' \subseteq Waiting /\ Before(Taken', Waiting')
    <3>1. CASE rpc' = "exited" /\ recBuffer' = recBuffer
      BY <1>0, <2>1, <3>1 DEF RecordType, RecordInOrder, Taken, Waiting, Before
    <3>2. CASE /\ recBuffer # <<>> /\ rpc' = "append"
               /\ rmessage' = Head(recBuffer) /\ recBuffer' = Tail(recBuffer)
      <4>1. /\ recBuffer' \in Seq(MessageSet) /\ Sorted(recBuffer')
            /\ Firsts(recBuffer') \subseteq Firsts(recBuffer)
            /\ rmessage' \in MessageSet /\ rmessage'[1] \in Firsts(recBuffer)
            /\ Before({rmessage'[1]}, Firsts(recBuffer'))
        BY <1>0, <3>2, SortedTail DEF RecordInOrder
      <4>2. Taken' = {rmessage'[1]}
        BY <3>2 DEF Taken
      <4>3. QED
        BY <1>0, <2>1, <4>1, <4>2 DEF RecordType, Waiting
    <3>3. QED
      BY <2>1, <3>1, <3>2
  <2>4. RecordInOrder'
    BY <1>0, <2>1, <2>2, <2>3 DEF RecordInOrder, Before
  <2>5. AllSigned'
    BY <1>0, <2>2 DEF AllSigned
  <2>6. RecordedFirst'
    <3>1. Recorded' \subseteq Recorded
      BY <2>2, <2>3 DEF Recorded
    <3>2. QED
      BY <1>0, <2>2, <3>1, FewerRecorded
  <2>7. QED
    BY <1>0, <2>3, <2>4, <2>5, <2>6 DEF RInv
<1>7. ASSUME RecAppend PROVE RInv'
  <2>1. /\ UNCHANGED <<partial, wire, spc, message, recBuffer>>
        /\ rpc = "append" /\ rpc' = "loop"
        /\ log' = log \/ log' = Append(log, rmessage)
    BY <1>7 DEF RecAppend, Recorder, notRecorder, pubVars, subVars
  <2>2. /\ UNCHANGED <<Routed, OnWire, Open, Waiting>>
        /\ Taken = {rmessage[1]} /\ Taken' = {} /\ rmessage \in MessageSet
    BY <1>0, <2>1 DEF Routed, OnWire, Open, Waiting, Taken, RecordType
  <2>3. /\ log' \in Seq(MessageSet) /\ Sorted(log')
        /\ Logged' \subseteq Logged \cup {rmessage[1]}
    <3>1. CASE log' = log
      BY <1>0, <3>1 DEF RecordInOrder, Logged
    <3>2. CASE log' = Append(log, rmessage)
      <4>1. Sorted(log) /\ Before(Firsts(log), {rmessage[1]})
        BY <1>0, <2>2 DEF RecordInOrder, Logged, Before
      <4>2. QED
        BY <1>0, <2>2, <3>2, <4>1, SortedAppend DEF Logged
    <3>3. QED
      BY <2>1, <3>1, <3>2
  <2>4. RecordType'
    BY <1>0, <2>1, <2>3 DEF RecordType
  <2>5. RecordInOrder'
    BY <1>0, <2>1, <2>2, <2>3 DEF RecordInOrder, Before
  <2>6. AllSigned'
    BY <1>0, <2>2 DEF AllSigned
  <2>7. RecordedFirst'
    <3>1. Recorded' \subseteq Recorded
      BY <2>2, <2>3 DEF Recorded
    <3>2. QED
      BY <1>0, <2>2, <3>1, FewerRecorded
  <2>8. QED
    BY <1>0, <2>4, <2>5, <2>6, <2>7 DEF RInv
<1>8. ASSUME Quiet PROVE RInv'
  <2>1. /\ UNCHANGED <<OnWire, Open, Logged, Waiting>>
        /\ Routed' \subseteq Routed /\ Taken' \subseteq Taken
    BY <1>8 DEF Quiet, Routed, OnWire, Open, Logged, Taken, Waiting
  <2>2. RecordType'
    BY <1>0, <1>8 DEF Quiet, RecordType
  <2>3. RecordInOrder'
    BY <1>0, <1>8, <2>1 DEF Quiet, RecordInOrder, Before
  <2>4. AllSigned'
    BY <1>0, <2>1 DEF AllSigned
  <2>5. RecordedFirst'
    <3>1. Recorded' \subseteq Recorded
      BY <2>1 DEF Recorded
    <3>2. QED
      BY <1>0, <2>1, <3>1, FewerRecorded
  <2>6. QED
    BY <1>0, <2>2, <2>3, <2>4, <2>5 DEF RInv
<1>9. QED
  BY <1>1, <1>2, <1>3, <1>4, <1>5, <1>6, <1>7, <1>8, RecordSteps

LEMMA SortedConcat ==
  ASSUME NEW p \in Seq(MessageSet), NEW q \in Seq(MessageSet),
         Sorted(p), Sorted(q), Before(Firsts(p), Firsts(q))
  PROVE  /\ p \o q \in Seq(MessageSet) /\ Sorted(p \o q)
         /\ Firsts(p \o q) \subseteq Firsts(p) \cup Firsts(q)
<1>1. /\ Len(p) \in Nat /\ Len(q) \in Nat
      /\ p \o q \in Seq(MessageSet) /\ Len(p \o q) = Len(p) + Len(q)
      /\ \A i \in 1..Len(p) + Len(q) :
           (p \o q)[i] = IF i <= Len(p) THEN p[i] ELSE q[i - Len(p)]
  BY ConcatProperties
<1>2. ASSUME NEW i \in 1..Len(p \o q)
      PROVE  \/ i \in 1..Len(p) /\ (p \o q)[i] = p[i]
             \/ i - Len(p) \in 1..Len(q) /\ i > Len(p) /\ (p \o q)[i] = q[i - Len(p)]
  BY <1>1
<1>3. ASSUME NEW i \in 1..Len(p \o q), NEW j \in 1..Len(p \o q), i < j
      PROVE  Precedes((p \o q)[i][1], (p \o q)[j][1])
  <2>1. CASE j \in 1..Len(p) /\ (p \o q)[j] = p[j]
    <3>1. i \in 1..Len(p) /\ (p \o q)[i] = p[i]
      BY <1>1, <1>2, <1>3, <2>1
    <3>2. QED
      BY <1>3, <2>1, <3>1 DEF Sorted
  <2>2. CASE j - Len(p) \in 1..Len(q) /\ j > Len(p) /\ (p \o q)[j] = q[j - Len(p)]
    <3>1. CASE i \in 1..Len(p) /\ (p \o q)[i] = p[i]
      BY <2>2, <3>1 DEF Before, Firsts
    <3>2. CASE i - Len(p) \in 1..Len(q) /\ i > Len(p) /\ (p \o q)[i] = q[i - Len(p)]
      <4>1. i - Len(p) < j - Len(p)
        BY <1>1, <1>3
      <4>2. QED
        BY <2>2, <3>2, <4>1 DEF Sorted
    <3>3. QED
      BY <1>2, <3>1, <3>2
  <2>3. QED
    BY <1>2, <2>1, <2>2
<1>4. Firsts(p \o q) \subseteq Firsts(p) \cup Firsts(q)
  BY <1>2 DEF Firsts
<1>5. QED
  BY <1>1, <1>3, <1>4 DEF Sorted

LEMMA RecordedInOrder ==
  ASSUME RecordType, RecordInOrder
  PROVE  RecordedOnce
<1>p. PICK taken : taken = IF rpc = "append" THEN <<rmessage>> ELSE <<>>
  OBVIOUS
<1>1. taken \in Seq(MessageSet) /\ Sorted(taken) /\ Firsts(taken) = Taken
  <2>1. CASE rpc = "append"
    <3>1. /\ taken = <<rmessage>> /\ rmessage \in MessageSet /\ Taken = {rmessage[1]}
      BY <1>p, <2>1 DEF RecordType, Taken
    <3>2. taken \in Seq(MessageSet) /\ Len(taken) = 1 /\ taken[1] = rmessage
      BY <3>1
    <3>3. QED
      BY <3>1, <3>2 DEF Sorted, Firsts
  <2>2. CASE rpc # "append"
    <3>1. taken \in Seq(MessageSet) /\ Len(taken) = 0 /\ Taken = {}
      BY <1>p, <2>2, EmptySeq DEF Taken
    <3>2. QED
      BY <3>1 DEF Sorted, Firsts
  <2>3. QED
    BY <2>1, <2>2
<1>2. log \in Seq(MessageSet) /\ Sorted(log) /\ Before(Firsts(log), Firsts(taken))
  BY <1>1 DEF RecordType, RecordInOrder, Logged, Before
<1>3. /\ log \o taken \in Seq(MessageSet) /\ Sorted(log \o taken)
      /\ Firsts(log \o taken) \subseteq Firsts(log) \cup Firsts(taken)
  BY <1>1, <1>2, SortedConcat
<1>4. /\ recBuffer \in Seq(MessageSet) /\ Sorted(recBuffer)
      /\ Before(Firsts(log \o taken), Firsts(recBuffer))
  BY <1>1, <1>3 DEF RecordType, RecordInOrder, Logged, Waiting, Before
<1>5. PICK line : line = (log \o taken) \o recBuffer
  OBVIOUS
<1>6. line \in Seq(MessageSet) /\ Sorted(line)
  BY <1>3, <1>4, <1>5, SortedConcat
<1>7. DOMAIN line = 1..Len(line)
  BY <1>6
<1>8. line = log \o (IF rpc = "append" THEN <<rmessage>> ELSE <<>>) \o recBuffer
  BY <1>p, <1>5
<1>9. QED
  BY <1>6, <1>7, <1>8 DEF Sorted, RecordedOnce

(* run_publisher_thread() and run_subscriber_thread() both record, yet no  *)
(* message gets into the log twice or out of order, whatever is lost on    *)
(* the way and whenever recording is switched (pubsub.cpp:133-139, 298-310),*)
(* in a process that does not publish what another one logged.             *)
THEOREM NothingRecordedTwice == Headers \subseteq {"new"} => (Spec => []RecordedOnce)
<1> SUFFICES ASSUME Headers \subseteq {"new"} PROVE Spec => []RecordedOnce
  OBVIOUS
<1>1. RInv /\ [Next]_vars => RInv'
  BY RStep
<1>2. RInv => RecordedOnce
  BY RecordedInOrder DEF RInv
<1>3. QED
  BY InitRInv, <1>1, <1>2, PTL DEF Spec

-----------------------------------------------------------------------------
(* What the recorder makes of a message's frames.  A set of natural        *)
(* numbers that is not empty has a least member: what holds of 0, and of n *)
(* if it holds of n - 1, has no least counterexample.                      *)
LEMMA Least ==
  ASSUME NEW T \in SUBSET Nat, T # {}
  PROVE  \E x \in T : \A y \in T : x <= y
<1> DEFINE R == OpToRel(<, Nat)
<1>1. \A x, y \in Nat : <<y, x>> \in R <=> y < x
  BY DEF OpToRel
<1>2. IsWellFoundedOn(R, Nat)
  BY NatLessThanWellFounded
<1> HIDE DEF R
<1>3. PICK x \in T : \A y \in T : ~ (<<y, x>> \in R)
  BY <1>2, WFMin
<1>4. \A y \in T : ~ (y < x)
  BY <1>1, <1>3
<1>5. QED
  BY <1>4

SumsUpTo(s, m, f) == f = [n \in 0..m |-> IF n = 0 THEN 0 ELSE f[n - 1] + s[n]]

LEMMA SumsExist ==
  ASSUME NEW s, NEW len \in Nat
  PROVE  \E f : SumsUpTo(s, len, f)
<1> DEFINE T == {m \in Nat : ~ \E f : SumsUpTo(s, m, f)}
<1>1. SUFFICES ASSUME T # {} PROVE FALSE
  OBVIOUS
<1>2. PICK m \in T : \A y \in T : m <= y
  BY <1>1, Least
<1>3. m # 0
  <2>1. PICK f : f = [n \in 0..0 |-> 0]
    OBVIOUS
  <2>2. SumsUpTo(s, 0, f)
    BY <2>1 DEF SumsUpTo
  <2>3. QED
    BY <2>2, <1>2
<1>4. PICK f : f = [n \in 0..(m - 1) |-> IF n = 0 THEN 0 ELSE f[n - 1] + s[n]]
  <2>1. m - 1 \in Nat /\ m - 1 < m
    BY <1>2, <1>3
  <2>2. m - 1 \notin T
    BY <1>2, <2>1
  <2>3. \E f : SumsUpTo(s, m - 1, f)
    BY <2>1, <2>2
  <2> HIDE DEF T
  <2>4. QED
    BY <2>3 DEF SumsUpTo
<1>5. PICK g : g = [n \in 0..m |-> IF n = m THEN f[m - 1] + s[m] ELSE f[n]]
  OBVIOUS
<1>6. ASSUME NEW n \in 0..m
      PROVE  g[n] = IF n = 0 THEN 0 ELSE g[n - 1] + s[n]
  BY <1>2, <1>3, <1>4, <1>5
<1>7. g = [n \in 0..m |-> IF n = 0 THEN 0 ELSE g[n - 1] + s[n]]
  BY <1>5, <1>6
<1>8. QED
  BY <1>2, <1>7 DEF SumsUpTo

LEMMA TotalIsSum ==
  ASSUME NEW s, Len(s) \in Nat
  PROVE  \E f : SumsUpTo(s, Len(s), f) /\ Total(s) = f[Len(s)]
<1> DEFINE upTo == CHOOSE f : f = [n \in 0..Len(s) |-> IF n = 0 THEN 0 ELSE f[n - 1] + s[n]]
<1>1. Total(s) = upTo[Len(s)]
  BY DEF Total
<1>2. SumsUpTo(s, Len(s), upTo)
  BY SumsExist DEF SumsUpTo
<1>3. QED
  BY <1>1, <1>2

LEMMA HeaderSizes ==
  ASSUME NEW n \in Nat
  PROVE  /\ n < 24 => HeaderSize(n) = 1
         /\ n >= 24 => HeaderSize(n) \in {2, 3, 5, 9}
BY DEF HeaderSize

(* A frame of four bytes or more has two bytes to spare in the buffer for  *)
(* three times its length, once its header is in it twice.                 *)
LEMMA FrameToSpare ==
  ASSUME NEW n \in Nat, n >= 4
  PROVE  BytesSize(n) \in Nat /\ 2 * BytesSize(n) + 2 <= 3 * n
<1>1. CASE n < 24
  BY <1>1, HeaderSizes DEF BytesSize
<1>2. CASE n >= 24
  BY <1>2, HeaderSizes DEF BytesSize
<1>3. QED
  BY <1>1, <1>2

LEMMA HeaderToSpare ==
  ASSUME NEW n \in Nat \ {0}
  PROVE  HeaderSize(n) \in Nat \ {0} /\ HeaderSize(n) <= n
<1>1. CASE n < 24
  BY <1>1, HeaderSizes
<1>2. CASE n >= 24
  BY <1>2, HeaderSizes
<1>3. QED
  BY <1>1, <1>2

(* However many frames there are, the buffer holds them.                   *)
LEMMA FramesFit ==
  ASSUME NEW lengths, NEW sizes, NEW len \in Nat \ {0},
         Len(lengths) = len, Len(sizes) = len,
         \A i \in 1..len : /\ lengths[i] \in Nat /\ lengths[i] >= 4
                           /\ sizes[i] = BytesSize(lengths[i])
  PROVE  /\ ListSize(sizes) \in Nat /\ ListSize(sizes) > 0
         /\ ListSize(sizes) <= BufferSize(Total(lengths))
<1>1. PICK f : SumsUpTo(lengths, len, f) /\ Total(lengths) = f[len]
  BY TotalIsSum
<1>2. PICK g : SumsUpTo(sizes, len, g) /\ Total(sizes) = g[len]
  BY TotalIsSum
<1>3. /\ f[0] = 0 /\ g[0] = 0
      /\ \A n \in 1..len : f[n] = f[n - 1] + lengths[n] /\ g[n] = g[n - 1] + sizes[n]
  BY <1>1, <1>2 DEF SumsUpTo
<1> DEFINE P(n) == f[n] \in Nat /\ g[n] \in Nat /\ 2 * g[n] + 2 * n <= 3 * f[n]
           T == {n \in 0..len : ~P(n)}
<1>4. T = {}
  <2> SUFFICES ASSUME T # {} PROVE FALSE
    OBVIOUS
  <2>1. PICK n \in T : \A m \in T : n <= m
    <3>1. T \in SUBSET Nat
      OBVIOUS
    <3> HIDE DEF T
    <3>2. QED
      BY <3>1, Least
  <2>2. n # 0
    BY <1>3, <2>1
  <2>3. n \in 1..len /\ n - 1 \in 0..len /\ P(n - 1)
    BY <2>1, <2>2
  <2>4. sizes[n] \in Nat /\ lengths[n] \in Nat /\ 2 * sizes[n] + 2 <= 3 * lengths[n]
    BY <2>3, FrameToSpare
  <2>5. f[n] = f[n - 1] + lengths[n] /\ g[n] = g[n - 1] + sizes[n]
    BY <1>3, <2>3
  <2>6. P(n)
    <3>1. PICK a, b : a = f[n - 1] /\ b = g[n - 1]
      OBVIOUS
    <3>2. a \in Nat /\ b \in Nat /\ 2 * b + 2 * (n - 1) <= 3 * a
      BY <2>3, <3>1
    <3>3. PICK c, d : c = lengths[n] /\ d = sizes[n]
      OBVIOUS
    <3>4. c \in Nat /\ d \in Nat /\ 2 * d + 2 <= 3 * c
      BY <2>4, <3>3
    <3>5. a + c \in Nat /\ b + d \in Nat /\ 2 * (b + d) + 2 * n <= 3 * (a + c)
      BY <2>3, <3>2, <3>4
    <3>6. QED
      BY <2>5, <3>1, <3>3, <3>5
  <2>7. QED
    BY <2>1, <2>6
<1>5. P(len)
  <2>1. len \in 0..len
    OBVIOUS
  <2> HIDE DEF P
  <2>2. QED
    BY <1>4, <2>1
<1>6. HeaderSize(len) \in Nat /\ HeaderSize(len) <= len /\ HeaderSize(len) > 0
  BY HeaderToSpare
<1>7. 2 * ListSize(sizes) <= 3 * Total(lengths) /\ ListSize(sizes) \in Nat
      /\ ListSize(sizes) > 0 /\ Total(lengths) \in Nat
  <2>1. PICK a, b, h : a = f[len] /\ b = g[len] /\ h = HeaderSize(len)
    OBVIOUS
  <2>2. /\ a \in Nat /\ b \in Nat /\ 2 * b + 2 * len <= 3 * a
        /\ h \in Nat /\ h <= len /\ h > 0
    BY <1>5, <1>6, <2>1
  <2>3. ListSize(sizes) = h + b /\ Total(lengths) = a
    BY <1>1, <1>2, <2>1 DEF ListSize
  <2>4. 2 * (h + b) <= 3 * a /\ h + b \in Nat /\ h + b > 0
    BY <2>2
  <2>5. QED
    BY <2>2, <2>3, <2>4
<1>8. \A x, y \in Nat : 2 * x <= 3 * y => x <= (3 * y) \div 2
  OBVIOUS
<1>9. QED
  BY <1>7, <1>8 DEF BufferSize

(* A list of frames: their lengths are numbers.                            *)
FrameList(q) == \E S : q \in Seq(S) /\ \A i \in 1..Len(q) : q[i][1] \in Nat
Long(q) == q # <<>> /\ \A i \in DOMAIN q : q[i][1] >= 4

LEMMA HeaderPositive ==
  ASSUME NEW n \in Nat
  PROVE  HeaderSize(n) \in Nat \ {0}
<1>1. CASE n < 24
  BY <1>1, HeaderSizes
<1>2. CASE n >= 24
  BY <1>2, HeaderSizes
<1>3. QED
  BY <1>1, <1>2

LEMMA TotalNat ==
  ASSUME NEW s, NEW len \in Nat, Len(s) = len, \A i \in 1..len : s[i] \in Nat
  PROVE  Total(s) \in Nat
<1>1. PICK f : SumsUpTo(s, len, f) /\ Total(s) = f[len]
  BY TotalIsSum
<1>2. f[0] = 0 /\ \A n \in 1..len : f[n] = f[n - 1] + s[n]
  BY <1>1 DEF SumsUpTo
<1> DEFINE T == {n \in 0..len : f[n] \notin Nat}
<1>3. T = {}
  <2> SUFFICES ASSUME T # {} PROVE FALSE
    OBVIOUS
  <2>1. PICK n \in T : \A m \in T : n <= m
    <3>1. T \in SUBSET Nat
      OBVIOUS
    <3> HIDE DEF T
    <3>2. QED
      BY <3>1, Least
  <2>2. n # 0
    BY <1>2, <2>1
  <2>3. n \in 1..len /\ n - 1 \in 0..len /\ f[n - 1] \in Nat
    BY <2>1, <2>2
  <2>4. f[n] = f[n - 1] + s[n] /\ s[n] \in Nat
    BY <1>2, <2>3
  <2>5. QED
    BY <2>1, <2>3, <2>4
<1>4. QED
  BY <1>1, <1>3

LEMMA ListSizePositive ==
  ASSUME NEW s, NEW len \in Nat, Len(s) = len, \A i \in 1..len : s[i] \in Nat
  PROVE  ListSize(s) \in Nat \ {0}
<1>1. Total(s) \in Nat /\ HeaderSize(len) \in Nat \ {0}
  BY TotalNat, HeaderPositive
<1>2. PICK a, h : a = Total(s) /\ h = HeaderSize(len)
  OBVIOUS
<1>3. ListSize(s) = h + a
  BY <1>2 DEF ListSize
<1>4. QED
  BY <1>1, <1>2, <1>3

LEMMA BytesSizeNat ==
  ASSUME NEW n \in Nat
  PROVE  BytesSize(n) \in Nat
<1>1. PICK h : h = HeaderSize(n)
  OBVIOUS
<1>2. h \in Nat
  BY <1>1, HeaderPositive
<1>3. QED
  BY <1>1, <1>2 DEF BytesSize

(* What the buffer held is read again, whatever it is.                     *)
LEMMA LogReads ==
  ASSUME NEW q, FrameList(q), serialize_frames(q).ok
  PROVE  deserialize_frames(serialize_frames(q).bytes) = Ok(q)
<1>1. PICK S : q \in Seq(S) /\ \A i \in 1..Len(q) : q[i][1] \in Nat
  BY DEF FrameList
<1>2. /\ Len(q) \in Nat /\ DOMAIN q = 1..Len(q)
      /\ q = [i \in 1..Len(q) |-> q[i]]
  BY <1>1
<1>3. PICK lengths : lengths = [i \in DOMAIN q |-> q[i][1]]
  OBVIOUS
<1>4. PICK sizes : sizes = [i \in DOMAIN q |-> BytesSize(lengths[i])]
  OBVIOUS
<1>5. Len(sizes) = Len(q) /\ \A i \in 1..Len(q) : sizes[i] \in Nat
  BY <1>1, <1>2, <1>3, <1>4, BytesSizeNat
<1>6. ListSize(sizes) \in Nat \ {0}
  BY <1>2, <1>5, ListSizePositive
<1>7. PICK packed : packed = EncodeList([i \in DOMAIN q |-> EncodeBytes(q[i])])
  OBVIOUS
<1>8. serialize_frames(q).bytes = <<ListSize(sizes), packed>>
  <2>1. serialize_frames(q) = Serialize(packed, ListSize(sizes), BufferSize(Total(lengths)))
    BY <1>3, <1>4, <1>7 DEF serialize_frames
  <2>2. QED
    BY <2>1 DEF Serialize
<1>9. packed[1] = "array" /\ packed[2] = [i \in DOMAIN q |-> <<"bytes", q[i]>>]
  BY <1>7 DEF EncodeList, EncodeBytes
<1>10. \A i \in DOMAIN q : DecodeBytes(0, packed[2][i], NoBytes) = Ok(q[i])
  BY <1>9 DEF DecodeBytes, Expect
<1>11. DecodeFrames(packed) = Ok(q)
  <2>1. PICK elements :
          elements = [i \in DOMAIN packed[2] |-> DecodeBytes(0, packed[2][i], NoBytes)]
    OBVIOUS
  <2>2. DOMAIN elements = DOMAIN q /\ \A i \in DOMAIN q : elements[i] = Ok(q[i])
    BY <1>9, <1>10, <2>1
  <2>3. \A i \in DOMAIN elements : elements[i].status = "ok" /\ elements[i].value = q[i]
    BY <2>2 DEF Ok
  <2>4. [i \in DOMAIN elements |-> elements[i].value] = q
    BY <1>2, <2>2, <2>3
  <2>5. DecodeFrames(packed) =
          Expect(\A i \in DOMAIN elements : elements[i].status = "ok",
                 [i \in DOMAIN elements |-> elements[i].value], <<>>)
    BY <1>9, <2>1 DEF DecodeFrames, DecodeList
  <2>6. QED
    BY <2>3, <2>4, <2>5 DEF Expect
<1>12. QED
  BY <1>6, <1>8, <1>11 DEF deserialize_frames, Deserialize

LEMMA LogFits ==
  ASSUME NEW q, FrameList(q), Long(q)
  PROVE  serialize_frames(q).ok
<1>1. PICK S : q \in Seq(S) /\ \A i \in 1..Len(q) : q[i][1] \in Nat
  BY DEF FrameList
<1>2. Len(q) \in Nat \ {0} /\ DOMAIN q = 1..Len(q)
  BY <1>1, EmptySeq DEF Long
<1>3. PICK lengths : lengths = [i \in DOMAIN q |-> q[i][1]]
  OBVIOUS
<1>4. PICK sizes : sizes = [i \in DOMAIN q |-> BytesSize(lengths[i])]
  OBVIOUS
<1>5. Len(lengths) = Len(q) /\ Len(sizes) = Len(q)
  BY <1>2, <1>3, <1>4
<1>6. \A i \in 1..Len(q) : /\ lengths[i] \in Nat /\ lengths[i] >= 4
                           /\ sizes[i] = BytesSize(lengths[i])
  BY <1>1, <1>2, <1>3, <1>4 DEF Long
<1>7. ListSize(sizes) <= BufferSize(Total(lengths))
  BY <1>2, <1>5, <1>6, FramesFit
<1>8. PICK packed : serialize_frames(q) =
                      Serialize(packed, ListSize(sizes), BufferSize(Total(lengths)))
  BY <1>3, <1>4 DEF serialize_frames
<1>9. QED
  BY <1>7, <1>8 DEF Serialize

-----------------------------------------------------------------------------
(* Objects.  A class of the code has no two fields of one name.            *)
FieldList(fields) ==
  /\ fields \in Seq(Range(fields))
  /\ \A i, j \in DOMAIN fields : fields[i][1] = fields[j][1] => i = j

LEMMA FieldsOfClass ==
  ASSUME NEW w \in DOMAIN Types
  PROVE  /\ FieldList(Types[w].fields)
         /\ \A v \in Values[w] \cup Held[w] :
              v = [name \in Names(Types[w]) |-> v[name]]
BY ClassAssumption DEF FieldList

LEMMA FieldsAreListed ==
  ASSUME NEW class, FieldList(class.fields)
  PROVE  /\ DOMAIN class.fields = 1..Len(class.fields) /\ Len(class.fields) \in Nat
         /\ \A i \in DOMAIN class.fields :
              /\ class.fields[i] \in Range(class.fields)
              /\ class.fields[i][1] \in Names(class)
              /\ TypeOf(class, class.fields[i][1]) = class.fields[i][2]
         /\ \A name \in Names(class) : \E i \in DOMAIN class.fields : class.fields[i][1] = name
<1>0. PICK fields : fields = class.fields
  OBVIOUS
<1>1. DOMAIN fields = 1..Len(fields) /\ Len(fields) \in Nat
  BY <1>0 DEF FieldList
<1>2. \A f : f \in Range(fields) <=> \E i \in DOMAIN fields : f = fields[i]
  BY DEF Range
<1>3. Names(class) = {f[1] : f \in Range(fields)}
  BY <1>0 DEF Names
<1>4. ASSUME NEW i \in DOMAIN fields
      PROVE  /\ fields[i] \in Range(fields) /\ fields[i][1] \in Names(class)
             /\ TypeOf(class, fields[i][1]) = fields[i][2]
  <2>1. fields[i] \in Range(fields) /\ fields[i][1] \in Names(class)
    BY <1>2, <1>3
  <2>2. \A f \in Range(fields) : f[1] = fields[i][1] => f = fields[i]
    BY <1>0, <1>2 DEF FieldList
  <2>3. (CHOOSE f \in Range(fields) : f[1] = fields[i][1]) = fields[i]
    BY <2>1, <2>2
  <2>4. QED
    BY <1>0, <2>1, <2>3 DEF TypeOf
<1>5. \A name \in Names(class) : \E i \in DOMAIN fields : fields[i][1] = name
  BY <1>2, <1>3
<1>6. QED
  BY <1>0, <1>1, <1>4, <1>5

(* A field is found by its name.                                           *)
LEMMA FieldIsFound ==
  ASSUME NEW class, FieldList(class.fields), NEW items,
         NEW map, map = EncodeClass(class.fields, items)[2]
  PROVE  /\ \A i \in DOMAIN class.fields :
              /\ Entries(map, class.fields[i][1]) # {}
              /\ Find(map, class.fields[i][1]) = items[i]
         /\ \A name : name \notin Names(class) => Entries(map, name) = {}
<1>0. PICK fields : fields = class.fields
  OBVIOUS
<1>1. map = [i \in DOMAIN fields |-> <<<<"text", fields[i][1]>>, items[i]>>]
  BY <1>0 DEF EncodeClass
<1>2. \A i \in DOMAIN fields : map[i][1][2] = fields[i][1] /\ map[i][2] = items[i]
  BY <1>1
<1>3. DOMAIN map = DOMAIN fields /\ DOMAIN fields \subseteq Nat
  BY <1>0, <1>1, FieldsAreListed
<1>4. ASSUME NEW i \in DOMAIN fields
      PROVE  Entries(map, fields[i][1]) # {} /\ Find(map, fields[i][1]) = items[i]
  <2>1. Entries(map, fields[i][1]) = {i}
    BY <1>0, <1>2, <1>3 DEF Entries, FieldList
  <2>2. PICK name, found : name = fields[i][1] /\ found = Entries(map, name)
    OBVIOUS
  <2>3. found = {i}
    BY <2>1, <2>2
  <2>4. PICK first : first = CHOOSE k \in found : \A j \in found : k <= j
    OBVIOUS
  <2>5. first = i
    <3>1. i \in found /\ \A j \in found : i <= j
      BY <1>3, <2>3
    <3>2. first \in found
      BY <2>4, <3>1
    <3>3. QED
      BY <2>3, <3>2
  <2>6. Find(map, name) = map[first][2]
    BY <2>2, <2>4 DEF Find
  <2>7. map[i][2] = items[i] /\ found # {}
    BY <1>2, <2>3
  <2>8. QED
    BY <2>2, <2>5, <2>6, <2>7
<1>5. ASSUME NEW name, name \notin Names(class)
      PROVE  Entries(map, name) = {}
  BY <1>0, <1>2, <1>3, <1>5, FieldsAreListed DEF Entries
<1>6. QED
  BY <1>0, <1>4, <1>5

ItemsOf(class, v) ==
  [i \in DOMAIN class.fields |-> encode_field(class.fields[i][2], v[class.fields[i][1]])]

(* What add_cbor() makes of an object has a length, and is the map of its  *)
(* fields' items if the buffer holds it.                                   *)
LEMMA ObjectIsWritten ==
  ASSUME NEW w \in DOMAIN Types, NEW v \in Values[w]
  PROVE  LET result == write_object(Types[w], v)
         IN  /\ result.bytes[1] \in Nat
             /\ result.ok => /\ result.bytes[1] # 0
                             /\ result.bytes[2] = EncodeClass(Types[w].fields, ItemsOf(Types[w], v))
<1>1. PICK class, fields : class = Types[w] /\ fields = class.fields
  OBVIOUS
<1>2. PICK items : items = ItemsOf(class, v)
  OBVIOUS
<1>3. items = [i \in DOMAIN fields |-> encode_field(fields[i][2], v[fields[i][1]])]
  BY <1>1, <1>2 DEF ItemsOf
<1>4. PICK names : names = [i \in DOMAIN fields |-> fields[i][1]]
  OBVIOUS
<1>5. PICK sizes : sizes = [i \in DOMAIN fields |-> field_size(items[i])]
  OBVIOUS
<1>6. PICK all : all = [i \in DOMAIN names |-> BytesSize(Len(names[i])) + sizes[i]]
  OBVIOUS
<1>7. PICK len : len = Len(fields) /\ len \in Nat /\ DOMAIN fields = 1..len
  BY <1>1, FieldsOfClass, FieldsAreListed
<1>8. ASSUME NEW i \in 1..len
      PROVE  all[i] \in Nat
  <2>1. fields[i] \in Range(fields)
    BY <1>7 DEF Range
  <2>2. Len(names[i]) \in Nat
    BY <1>1, <1>4, <1>7, <2>1, SizeAssumption
  <2>3. sizes[i] \in Nat
    BY <1>1, <1>3, <1>5, <1>7, <2>1, SizeAssumption
  <2>4. PICK a, b : a = BytesSize(Len(names[i])) /\ b = sizes[i]
    OBVIOUS
  <2>5. a \in Nat /\ b \in Nat
    BY <2>2, <2>3, <2>4, BytesSizeNat
  <2>6. all[i] = a + b
    BY <1>4, <1>6, <1>7, <2>4
  <2>7. QED
    BY <2>5, <2>6
<1>9. Len(all) = len
  BY <1>4, <1>6, <1>7
<1>10. ListSize(all) \in Nat \ {0}
  BY <1>7, <1>8, <1>9, ListSizePositive
<1>11. PICK size : size = MapSize(names, sizes)
  OBVIOUS
<1>12. size \in Nat \ {0}
  BY <1>6, <1>10, <1>11 DEF MapSize
<1>13. PICK buf : write_object(class, v) = Serialize(EncodeClass(fields, items), size, buf)
  BY <1>1, <1>3, <1>4, <1>5, <1>11 DEF write_object
<1>14. PICK map : map = EncodeClass(fields, items)
  OBVIOUS
<1>15. PICK result : result = write_object(class, v)
  OBVIOUS
<1>16. result = Serialize(map, size, buf)
  BY <1>13, <1>14, <1>15
<1>17. /\ result.bytes[1] \in Nat
       /\ result.ok => result.bytes[1] # 0 /\ result.bytes[2] = map
  <2>1. CASE size <= buf
    BY <1>12, <1>16, <2>1 DEF Serialize
  <2>2. CASE ~(size <= buf)
    BY <1>16, <2>2 DEF Serialize, NoBytes
  <2>3. QED
    BY <2>1, <2>2
<1>18. QED
  BY <1>1, <1>2, <1>14, <1>15, <1>17

(* What comes of a reader's field: the field of its name that was written, *)
(* or none.                                                                *)
ReadOf(W, v, f, out) ==
  IF f[1] \in Names(W)
    THEN decode_field(f[2], encode_field(TypeOf(W, f[1]), v[f[1]]), out[f[1]])
    ELSE Missing(out[f[1]])

ReadFields(W, v, fields, out) == [i \in DOMAIN fields |-> ReadOf(W, v, fields[i], out)]

LEMMA FieldsAreRead ==
  ASSUME NEW W, FieldList(W.fields), NEW fields, NEW v, NEW out,
         NEW cbor, cbor = EncodeClass(W.fields, ItemsOf(W, v))
  PROVE  DecodeFields(fields, cbor, out) = ReadFields(W, v, fields, out)
<1>1. PICK items, map : items = ItemsOf(W, v) /\ map = cbor[2]
  OBVIOUS
<1>2. map = EncodeClass(W.fields, items)[2]
  BY <1>1
<1>3. PICK decoded : decoded = DecodeFields(fields, cbor, out)
  OBVIOUS
<1>4. decoded = [i \in DOMAIN fields |->
                   IF Entries(map, fields[i][1]) = {} THEN Missing(out[fields[i][1]])
                   ELSE decode_field(fields[i][2], Find(map, fields[i][1]), out[fields[i][1]])]
  BY <1>1, <1>3 DEF DecodeFields
<1>5. ASSUME NEW i \in DOMAIN fields
      PROVE  decoded[i] = ReadOf(W, v, fields[i], out)
  <2>1. PICK name : name = fields[i][1]
    OBVIOUS
  <2>2. CASE name \notin Names(W)
    <3>1. Entries(map, name) = {}
      BY <1>2, <2>2, FieldIsFound
    <3>2. QED
      BY <1>4, <2>1, <2>2, <3>1 DEF ReadOf
  <2>3. CASE name \in Names(W)
    <3>1. PICK k \in DOMAIN W.fields : W.fields[k][1] = name
      BY <2>3, FieldsAreListed
    <3>2. Entries(map, name) # {} /\ Find(map, name) = items[k]
      BY <1>2, <3>1, FieldIsFound
    <3>3. TypeOf(W, name) = W.fields[k][2]
      BY <3>1, FieldsAreListed
    <3>4. items[k] = encode_field(TypeOf(W, name), v[name])
      BY <1>1, <3>1, <3>3 DEF ItemsOf
    <3>5. QED
      BY <1>4, <2>1, <2>3, <3>2, <3>4 DEF ReadOf
  <2>4. QED
    BY <2>2, <2>3
<1>6. QED
  BY <1>3, <1>4, <1>5 DEF ReadFields

(* The fields up to the first that fails are replaced, the others kept.    *)
ReadInto(class, decoded, out, result) ==
  LET fields == class.fields
      reached == Reached(fields, decoded)
  IN  /\ result.status = IF \E i \in reached : decoded[i].status = "abort"
                           THEN "abort" ELSE "ok"
      /\ result.value = [name \in Names(class) |-> result.value[name]]
      /\ \A i \in DOMAIN fields :
           result.value[fields[i][1]] =
             IF i \in reached THEN decoded[i].value ELSE out[fields[i][1]]

LEMMA ClassIsDecoded ==
  ASSUME NEW class, FieldList(class.fields), NEW decoded, NEW cbor, cbor[1] = "map",
         NEW out, DOMAIN out = Names(class),
         NEW result, result = DecodeClass(class.fields, decoded, cbor, out)
  PROVE  ReadInto(class, decoded, out, result)
<1>0. PICK reached : reached = Reached(class.fields, decoded)
  OBVIOUS
<1>1. PICK fields : fields = class.fields
  OBVIOUS
<1>2. DOMAIN fields \subseteq Nat /\ reached \subseteq DOMAIN fields
  BY <1>0, <1>1, FieldsAreListed DEF Reached
<1> DEFINE Of(name) == {i \in reached : fields[i][1] = name}
<1>3. result = [status |-> IF \E i \in reached : decoded[i].status = "abort" THEN "abort" ELSE "ok",
                value |-> [name \in DOMAIN out |->
                             IF Of(name) = {} THEN out[name]
                             ELSE decoded[CHOOSE i \in Of(name) : TRUE].value]]
  BY <1>0, <1>1 DEF DecodeClass
<1>4. ASSUME NEW i \in DOMAIN fields
      PROVE  /\ i \in reached => Of(fields[i][1]) = {i}
             /\ i \notin reached => Of(fields[i][1]) = {}
  BY <1>1, <1>2 DEF FieldList
<1>5. \A i \in DOMAIN fields : fields[i][1] \in Names(class)
  BY <1>1, FieldsAreListed
<1>6. ASSUME NEW i \in DOMAIN fields
      PROVE  result.value[fields[i][1]] = IF i \in reached THEN decoded[i].value ELSE out[fields[i][1]]
  <2>1. PICK name : name = fields[i][1]
    OBVIOUS
  <2>2. result.value[name] = IF Of(name) = {} THEN out[name]
                             ELSE decoded[CHOOSE k \in Of(name) : TRUE].value
    <3>1. name \in DOMAIN out
      BY <1>5, <2>1
    <3> HIDE DEF Of
    <3>2. result.value = [x \in DOMAIN out |->
                            IF Of(x) = {} THEN out[x]
                            ELSE decoded[CHOOSE k \in Of(x) : TRUE].value]
      BY <1>3
    <3>3. QED
      BY <3>1, <3>2
  <2>3. CASE i \in reached
    <3>1. Of(name) = {i}
      BY <1>4, <2>1, <2>3
    <3>2. (CHOOSE k \in {i} : TRUE) = i
      OBVIOUS
    <3> HIDE DEF Of
    <3>3. QED
      BY <2>1, <2>2, <2>3, <3>1, <3>2
  <2>4. CASE i \notin reached
    <3>1. Of(name) = {}
      BY <1>4, <2>1, <2>4
    <3>2. QED
      BY <2>1, <2>2, <2>4, <3>1
  <2>5. QED
    BY <2>3, <2>4
<1>7. /\ result.status = IF \E i \in reached : decoded[i].status = "abort" THEN "abort" ELSE "ok"
      /\ result.value = [name \in Names(class) |-> result.value[name]]
  BY <1>3
<1>8. QED
  BY <1>0, <1>1, <1>6, <1>7 DEF ReadInto

(* What a receiver makes of an object that was encoded.                    *)
LEMMA ObjectIsRead ==
  ASSUME NEW w \in DOMAIN Types, NEW v \in Values[w], write_object(Types[w], v).ok,
         NEW r \in DOMAIN Types, NEW old \in Held[r]
  PROVE  ReadInto(Types[r], ReadFields(Types[w], v, Types[r].fields, old), old,
                  read_object(Types[r], write_object(Types[w], v).bytes, old))
<1>1. PICK class : class = Types[r]
  OBVIOUS
<1>2. PICK bytes, cbor : bytes = write_object(Types[w], v).bytes /\ cbor = bytes[2]
  OBVIOUS
<1>3. bytes[1] # 0 /\ cbor = EncodeClass(Types[w].fields, ItemsOf(Types[w], v))
  BY <1>2, ObjectIsWritten
<1>4. cbor[1] = "map"
  BY <1>3 DEF EncodeClass
<1>5. FieldList(Types[w].fields) /\ FieldList(class.fields)
  BY <1>1, FieldsOfClass
<1>6. PICK decoded : decoded = ReadFields(Types[w], v, class.fields, old)
  OBVIOUS
<1>7. DecodeFields(class.fields, cbor, old) = decoded
  BY <1>3, <1>5, <1>6, FieldsAreRead
<1>8. PICK result : result = read_object(class, bytes, old)
  OBVIOUS
<1>9. result = Deserialize(DecodeClass(class.fields, decoded, cbor, old), bytes, old)
  BY <1>2, <1>7, <1>8 DEF read_object
<1>10. result = DecodeClass(class.fields, decoded, cbor, old)
  BY <1>3, <1>9 DEF Deserialize
<1>11. DOMAIN old = Names(class)
  <2>1. old = [name \in Names(class) |-> old[name]]
    BY <1>1, FieldsOfClass
  <2>2. QED
    BY <2>1
<1>12. ReadInto(class, decoded, old, result)
  BY <1>4, <1>5, <1>10, <1>11, ClassIsDecoded
<1>13. QED
  BY <1>1, <1>2, <1>6, <1>8, <1>12

(* A reader of the writer's class.                                         *)
LEMMA SameClassIsRead ==
  ASSUME FieldsRoundTrip, NEW w \in DOMAIN Types, NEW v \in Values[w],
         write_object(Types[w], v).ok, NEW old \in Held[w],
         NEW result, result = read_object(Types[w], write_object(Types[w], v).bytes, old)
  PROVE  result.status = "ok" /\ result.value = v
<1>1. PICK fields : fields = Types[w].fields
  OBVIOUS
<1>2. PICK decoded : decoded = ReadFields(Types[w], v, fields, old)
  OBVIOUS
<1>3. PICK reached : reached = Reached(fields, decoded)
  OBVIOUS
<1>4. /\ result.status = IF \E i \in reached : decoded[i].status = "abort" THEN "abort" ELSE "ok"
      /\ result.value = [name \in Names(Types[w]) |-> result.value[name]]
      /\ \A i \in DOMAIN fields :
           result.value[fields[i][1]] =
             IF i \in reached THEN decoded[i].value ELSE old[fields[i][1]]
  <2>1. ReadInto(Types[w], decoded, old, result)
    BY <1>1, <1>2, ObjectIsRead
  <2>2. QED
    BY <1>1, <1>3, <2>1 DEF ReadInto
<1>5. PICK class : class = Types[w]
  OBVIOUS
<1>6. /\ DOMAIN fields = 1..Len(fields) /\ Len(fields) \in Nat
      /\ \A i \in DOMAIN fields : /\ fields[i] \in Range(fields) /\ fields[i][1] \in Names(class)
                                  /\ TypeOf(class, fields[i][1]) = fields[i][2]
      /\ \A name \in Names(class) : \E i \in DOMAIN fields : fields[i][1] = name
  <2>1. FieldList(class.fields) /\ fields = class.fields
    BY <1>1, <1>5, FieldsOfClass
  <2>2. QED
    BY <2>1, FieldsAreListed
<1>7. ASSUME NEW i \in DOMAIN fields
      PROVE  decoded[i].status = "ok" /\ decoded[i].value = v[fields[i][1]]
  <2>1. PICK f : f = fields[i]
    OBVIOUS
  <2>2. f \in Range(Types[w].fields) /\ f[1] \in Names(Types[w]) /\ TypeOf(Types[w], f[1]) = f[2]
    BY <1>1, <1>5, <1>6, <2>1
  <2>3. decoded[i] = decode_field(f[2], encode_field(f[2], v[f[1]]), old[f[1]])
    BY <1>2, <2>1, <2>2 DEF ReadFields, ReadOf
  <2>4. decoded[i] = Ok(v[f[1]])
    BY <2>2, <2>3 DEF FieldsRoundTrip
  <2>5. QED
    BY <2>1, <2>4 DEF Ok
<1>8. reached = DOMAIN fields
  <2>1. \A i \in DOMAIN fields : \A j \in 1..i - 1 : j \in DOMAIN fields
    BY <1>6
  <2>2. QED
    BY <1>3, <1>7, <2>1 DEF Reached, Bail
<1>9. result.status = "ok"
  BY <1>4, <1>7, <1>8
<1>10. \A name \in Names(class) : result.value[name] = v[name]
  BY <1>4, <1>6, <1>7, <1>8
<1>11. result.value = [name \in Names(class) |-> v[name]]
  BY <1>4, <1>5, <1>10
<1>12. v = [name \in Names(class) |-> v[name]]
  BY <1>5, FieldsOfClass
<1>13. QED
  BY <1>9, <1>11, <1>12

(* A reader of another version of it.                                      *)
Unfit(W, R, v) ==
  \E i \in Decoded(R, Names(W)) :
    LET name == R.fields[i][1]
    IN  ~Fits(R.fields[i][2], TypeOf(W, name), v[name])

PrefixRead(W, R, v, old, result) ==
  /\ result.status = IF Unfit(W, R, v) THEN "abort" ELSE "ok"
  /\ ~Unfit(W, R, v) => \A i \in DOMAIN R.fields :
       LET name == R.fields[i][1]
       IN  IF i \in Decoded(R, Names(W))
             THEN Agrees(R.fields[i][2], v[name], result.value[name])
             ELSE result.value[name] = old[name]

LEMMA VersionIsRead ==
  ASSUME FieldsAgree, NEW w, NEW r, <<w, r>> \in Pairs, NEW v \in Values[w],
         write_object(Types[w], v).ok, NEW old \in Held[r],
         NEW result, result = read_object(Types[r], write_object(Types[w], v).bytes, old)
  PROVE  PrefixRead(Types[w], Types[r], v, old, result)
<1>0. PICK unfit : unfit = Unfit(Types[w], Types[r], v)
  OBVIOUS
<1>1. w \in DOMAIN Types /\ r \in DOMAIN Types
  BY ClassAssumption
<1>2. PICK fields, W : fields = Types[r].fields /\ W = Types[w]
  OBVIOUS
<1>3. PICK decoded : decoded = ReadFields(W, v, fields, old)
  OBVIOUS
<1>4. PICK reached : reached = Reached(fields, decoded)
  OBVIOUS
<1>5. /\ result.status = IF \E i \in reached : decoded[i].status = "abort" THEN "abort" ELSE "ok"
      /\ \A i \in DOMAIN fields :
           result.value[fields[i][1]] =
             IF i \in reached THEN decoded[i].value ELSE old[fields[i][1]]
  <2>1. ReadInto(Types[r], decoded, old, result)
    BY <1>1, <1>2, <1>3, ObjectIsRead
  <2>2. QED
    BY <1>2, <1>4, <2>1 DEF ReadInto
<1>6. DOMAIN fields = 1..Len(fields) /\ Len(fields) \in Nat
  <2>1. FieldList(Types[r].fields)
    BY <1>1, FieldsOfClass
  <2>2. QED
    BY <1>2, <2>1, FieldsAreListed
<1>7. PICK here : here = Decoded(Types[r], Names(W))
  OBVIOUS
<1>8. here = {i \in DOMAIN fields : \A j \in 1..i : fields[j][1] \in Names(W)}
  BY <1>2, <1>7 DEF Decoded
<1>9. here \subseteq DOMAIN fields /\ \A i \in here : \A j \in 1..i : j \in here
  BY <1>6, <1>8
<1> DEFINE Name(i) == fields[i][1]
           FitsAt(i) == Fits(fields[i][2], TypeOf(W, Name(i)), v[Name(i)])
<1>10. ASSUME NEW i \in here
       PROVE  /\ FitsAt(i) => /\ decoded[i].status = "ok"
                              /\ Agrees(fields[i][2], v[Name(i)], decoded[i].value)
              /\ ~FitsAt(i) => decoded[i].status = "abort"
  <2>1. PICK f : f = fields[i]
    OBVIOUS
  <2>2. i \in DOMAIN fields /\ i \in 1..i
    BY <1>6, <1>9
  <2>3. f \in Range(Types[r].fields) /\ f[1] \in Names(W)
    BY <1>2, <1>8, <2>1, <2>2 DEF Range
  <2>4. PICK from, res : /\ from = TypeOf(W, f[1])
                         /\ res = decode_field(f[2], encode_field(from, v[f[1]]), old[f[1]])
    OBVIOUS
  <2>5. decoded[i] = res
    BY <1>3, <2>1, <2>2, <2>3, <2>4 DEF ReadFields, ReadOf
  <2>6. PICK p : p = <<w, r>>
    OBVIOUS
  <2>7. p \in Pairs /\ p[1] = w /\ p[2] = r
    BY <2>6
  <2>8. IF Fits(f[2], from, v[f[1]])
          THEN res.status = "ok" /\ Agrees(f[2], v[f[1]], res.value)
          ELSE res.status = "abort"
    BY <1>2, <2>3, <2>4, <2>7 DEF FieldsAgree
  <2>9. QED
    BY <2>1, <2>4, <2>5, <2>8
<1>11. ASSUME NEW i \in DOMAIN fields, i \notin here
       PROVE  \E j \in 1..i : decoded[j] = Missing(old[Name(j)])
  <2>1. PICK j \in 1..i : Name(j) \notin Names(W)
    BY <1>8, <1>11
  <2>2. j \in DOMAIN fields
    BY <1>6
  <2>3. QED
    BY <1>3, <2>1, <2>2 DEF ReadFields, ReadOf
<1>12. \A i \in DOMAIN fields : i \in reached <=> \A j \in 1..i - 1 : decoded[j].status = "ok"
  BY <1>4 DEF Reached, Bail
<1>13. unfit <=> \E i \in here : ~FitsAt(i)
  BY <1>0, <1>2, <1>7 DEF Unfit
<1>14. reached \subseteq DOMAIN fields
  BY <1>4 DEF Reached
<1> HIDE DEF FitsAt
<1>15. CASE unfit
  <2>1. PICK T : T = {i \in here : ~FitsAt(i)}
    OBVIOUS
  <2>2. T \in SUBSET Nat /\ T # {}
    BY <1>6, <1>9, <1>13, <1>15, <2>1
  <2>3. PICK k \in T : \A j \in T : k <= j
    BY <2>2, Least
  <2>4. k \in here /\ ~FitsAt(k) /\ k \in Nat /\ k \in DOMAIN fields
    BY <1>9, <2>1, <2>2
  <2>5. ASSUME NEW j \in 1..k - 1
        PROVE  decoded[j].status = "ok"
    <3>1. j \in here
      BY <1>9, <2>4
    <3>2. j \notin T
      BY <2>3, <2>4
    <3>3. QED
      BY <1>10, <2>1, <3>1, <3>2
  <2>6. k \in reached /\ decoded[k].status = "abort"
    BY <1>10, <1>12, <2>4, <2>5
  <2>7. QED
    BY <1>0, <1>5, <1>15, <2>6 DEF PrefixRead
<1>16. CASE ~unfit
  <2>1. \A i \in here : decoded[i].status = "ok" /\ Agrees(fields[i][2], v[Name(i)], decoded[i].value)
    BY <1>10, <1>13, <1>16
  <2>2. ASSUME NEW i \in here
        PROVE  i \in reached
    <3>1. i \in DOMAIN fields /\ \A j \in 1..i - 1 : j \in here
      BY <1>6, <1>9
    <3>2. QED
      BY <1>12, <2>1, <3>1
  <2>3. ASSUME NEW i \in DOMAIN fields, i \notin here, i \in reached
        PROVE  decoded[i] = Missing(old[Name(i)])
    <3>1. PICK j \in 1..i : decoded[j] = Missing(old[Name(j)])
      BY <1>11, <2>3
    <3>2. decoded[j].status # "ok"
      BY <3>1 DEF Missing
    <3>3. j = i
      BY <1>6, <1>12, <2>3, <3>2
    <3>4. QED
      BY <3>1, <3>3
  <2>4. ASSUME NEW i \in reached
        PROVE  decoded[i].status # "abort"
    <3>1. i \notin here => decoded[i].status = "missing"
      <4>1. i \notin here => decoded[i] = Missing(old[Name(i)])
        BY <1>14, <2>3
      <4>2. Missing(old[Name(i)]).status = "missing"
        BY DEF Missing
      <4>3. QED
        BY <4>1, <4>2
    <3>2. QED
      BY <2>1, <3>1
  <2>5. result.status = "ok"
    BY <1>5, <2>4
  <2>6. ASSUME NEW i \in DOMAIN fields
        PROVE  IF i \in here THEN Agrees(fields[i][2], v[Name(i)], result.value[Name(i)])
               ELSE result.value[Name(i)] = old[Name(i)]
    <3>1. CASE i \in here
      <4>1. result.value[Name(i)] = decoded[i].value
        BY <1>5, <2>2, <3>1
      <4>2. QED
        BY <2>1, <3>1, <4>1
    <3>2. CASE i \notin here
      <4>1. i \in reached => decoded[i].value = old[Name(i)]
        <5>1. i \in reached => decoded[i] = Missing(old[Name(i)])
          BY <2>3, <3>2
        <5>2. Missing(old[Name(i)]).value = old[Name(i)]
          BY DEF Missing
        <5>3. QED
          BY <5>1, <5>2
      <4>2. QED
        BY <1>5, <3>2, <4>1
    <3>3. QED
      BY <3>1, <3>2
  <2>7. QED
    BY <1>0, <1>2, <1>7, <1>16, <2>5, <2>6 DEF PrefixRead
<1>17. QED
  BY <1>15, <1>16

-----------------------------------------------------------------------------
(* A message on its way: what was sent is what arrives, through the log or *)
(* not, and an object that was added is its only frame.                    *)
ObjectSent ==
  LET result == write_object(Types[writer], value)
  IN  /\ writer \in DOMAIN Types /\ value \in Values[writer]
      /\ sent = <<result.bytes>> /\ fits = result.ok

InTheLog ==
  LET result == serialize_frames(sent)
  IN  row = result.bytes /\ failed = IF result.ok THEN "nobody" ELSE "recorder"

AtReceiver ==
  LET result == read_object(Types[reader], sent[1], before)
  IN  /\ <<writer, reader>> \in Pairs /\ before \in Held[reader] /\ got = result.value
      /\ failed = IF result.status = "abort" THEN "receiver" ELSE "nobody"

PayloadInv ==
  /\ FrameList(sent) /\ frames = sent
  /\ writer # "" => ObjectSent
  /\ stage \in {"composed", "logged", "played", "received"}
  /\ stage \in {"composed", "played"} => failed = "nobody"
  /\ stage = "logged" => InTheLog
  /\ stage = "received" => AtReceiver

LEMMA PayloadStarts == PayloadInit => PayloadInv
<1> SUFFICES ASSUME PayloadInit PROVE PayloadInv
  OBVIOUS
<1>1. /\ sent = <<>> /\ frames = <<>> /\ stage = "composed" /\ failed = "nobody"
      /\ writer = ""
  BY DEF PayloadInit
<1>2. FrameList(sent)
  <2>1. PICK q : q = <<>>
    OBVIOUS
  <2>2. q \in Seq({}) /\ Len(q) = 0
    BY <2>1, EmptySeq
  <2>3. \A i \in 1..Len(q) : q[i][1] \in Nat
    BY <2>2
  <2>4. FrameList(q)
    BY <2>2, <2>3 DEF FrameList
  <2>5. QED
    BY <1>1, <2>1, <2>4
<1>3. QED
  BY <1>1, <1>2 DEF PayloadInv

LEMMA PayloadStep == PayloadInv /\ [PayloadNext]_payload => PayloadInv'
<1> SUFFICES ASSUME PayloadInv, [PayloadNext]_payload PROVE PayloadInv'
  OBVIOUS
<1>1. ASSUME NEW w \in DOMAIN Types, NEW v \in Values[w], add_cbor(w, v) PROVE PayloadInv'
  <2>1. PICK result : result = write_object(Types[w], v)
    OBVIOUS
  <2>2. PICK bytes : bytes = result.bytes
    OBVIOUS
  <2>3. bytes[1] \in Nat
    BY <2>1, <2>2, ObjectIsWritten
  <2>4. /\ frames' = <<bytes>> /\ sent' = <<bytes>> /\ fits' = result.ok
        /\ writer' = w /\ value' = v /\ failed' = failed
        /\ stage = "composed" /\ stage' = "composed" /\ failed = "nobody"
    BY <1>1, <2>1, <2>2 DEF add_cbor, Go
  <2>5. FrameList(sent')
    <3>1. <<bytes>> \in Seq({bytes}) /\ Len(<<bytes>>) = 1 /\ <<bytes>>[1] = bytes
      OBVIOUS
    <3>2. \A i \in 1..Len(<<bytes>>) : <<bytes>>[i][1] \in Nat
      BY <2>3, <3>1
    <3>3. FrameList(<<bytes>>)
      BY <3>1, <3>2 DEF FrameList
    <3>4. QED
      BY <2>4, <3>3 DEF FrameList
  <2>6. ObjectSent'
    BY <2>1, <2>2, <2>4 DEF ObjectSent
  <2>7. QED
    BY <2>4, <2>5, <2>6 DEF PayloadInv
<1>2. ASSUME NEW n \in Repeats, NEW size \in FrameSizes, add_bytes(n, size) PROVE PayloadInv'
  <2>1. PICK frame : frame = <<size, <<"raw", size>>>>
    OBVIOUS
  <2>2. PICK more : more = [i \in 1..n |-> frame]
    OBVIOUS
  <2>3. /\ frames' = frames \o more /\ sent' = frames' /\ failed' = failed
        /\ stage = "composed" /\ stage' = "composed" /\ failed = "nobody"
        /\ writer = "" /\ writer' = ""
    BY <1>2, <2>1, <2>2 DEF add_bytes, Go
  <2>4. frames = sent
    BY DEF PayloadInv
  <2>5. PICK S : sent \in Seq(S) /\ \A i \in 1..Len(sent) : sent[i][1] \in Nat
    BY DEF PayloadInv, FrameList
  <2>6. PICK T : T = S \cup {frame}
    OBVIOUS
  <2>7. sent \in Seq(T) /\ more \in Seq(T) /\ Len(more) = n /\ n \in Nat /\ Len(sent) \in Nat
    BY <2>2, <2>5, <2>6, SizeAssumption
  <2>8. /\ sent \o more \in Seq(T) /\ Len(sent \o more) = Len(sent) + n
        /\ \A i \in 1..Len(sent) + n :
             (sent \o more)[i] = IF i <= Len(sent) THEN sent[i] ELSE more[i - Len(sent)]
    BY <2>7, ConcatProperties
  <2>9. \A i \in 1..Len(sent \o more) : (sent \o more)[i][1] \in Nat
    <3> SUFFICES ASSUME NEW i \in 1..Len(sent \o more) PROVE (sent \o more)[i][1] \in Nat
      OBVIOUS
    <3>1. CASE i <= Len(sent)
      BY <2>5, <2>7, <2>8, <3>1
    <3>2. CASE i > Len(sent)
      <4>1. i - Len(sent) \in 1..n
        BY <2>7, <2>8, <3>2
      <4>2. (sent \o more)[i] = frame /\ frame[1] = size
        BY <2>1, <2>2, <2>7, <2>8, <3>2, <4>1
      <4>3. QED
        BY <4>2, SizeAssumption
    <3>3. QED
      BY <2>7, <2>8, <3>1, <3>2
  <2>10. FrameList(sent')
    BY <2>3, <2>4, <2>8, <2>9 DEF FrameList
  <2>11. QED
    BY <2>3, <2>10 DEF PayloadInv
<1>3. ASSUME append PROVE PayloadInv'
  <2>1. /\ UNCHANGED <<frames, object>> /\ stage = "composed" /\ stage' = "logged"
        /\ failed = "nobody" /\ row' = serialize_frames(frames).bytes
        /\ failed' = IF serialize_frames(frames).ok THEN failed ELSE "recorder"
    BY <1>3 DEF append, Go
  <2>2. UNCHANGED <<writer, value, sent, fits>> /\ frames = sent /\ FrameList(sent)
    BY <2>1 DEF PayloadInv, object
  <2>3. InTheLog'
    BY <2>1, <2>2 DEF InTheLog
  <2>4. (writer # "" => ObjectSent)'
    BY <2>2 DEF PayloadInv, ObjectSent
  <2>5. FrameList(sent)'
    BY <2>2 DEF FrameList
  <2>6. QED
    BY <2>1, <2>2, <2>3, <2>4, <2>5 DEF PayloadInv
<1>4. ASSUME unpack_frames PROVE PayloadInv'
  <2>1. PICK result : result = deserialize_frames(row)
    OBVIOUS
  <2>2. /\ UNCHANGED object /\ stage = "logged" /\ stage' = "played" /\ failed = "nobody"
        /\ frames' = result.value
        /\ failed' = IF result.status = "abort" THEN "playback" ELSE failed
    BY <1>4, <2>1 DEF unpack_frames, Go
  <2>3. UNCHANGED <<writer, value, sent, fits>> /\ FrameList(sent) /\ InTheLog
    BY <2>2 DEF PayloadInv, object
  <2>4. serialize_frames(sent).ok /\ row = serialize_frames(sent).bytes
    BY <2>2, <2>3 DEF InTheLog
  <2>5. result = Ok(sent)
    BY <2>1, <2>3, <2>4, LogReads
  <2>6. frames' = sent /\ failed' = "nobody"
    BY <2>2, <2>5 DEF Ok
  <2>7. (writer # "" => ObjectSent)'
    BY <2>3 DEF PayloadInv, ObjectSent
  <2>8. FrameList(sent)'
    BY <2>3 DEF FrameList
  <2>9. QED
    BY <2>2, <2>3, <2>6, <2>7, <2>8 DEF PayloadInv
<1>5. ASSUME NEW r \in DOMAIN Types, NEW old \in Held[r], get_cbor(r, old) PROVE PayloadInv'
  <2>1. PICK result : result = IF frames = <<>> THEN Abort(old)
                               ELSE read_object(Types[r], frames[1], old)
    OBVIOUS
  <2>2. /\ UNCHANGED <<frames, object>> /\ stage \in {"composed", "played"} /\ stage' = "received"
        /\ failed = "nobody" /\ <<writer, r>> \in Pairs /\ reader' = r /\ before' = old
        /\ got' = result.value
        /\ failed' = IF result.status = "abort" THEN "receiver" ELSE failed
    BY <1>5, <2>1 DEF get_cbor, Go
  <2>3. UNCHANGED <<writer, value, sent, fits>> /\ frames = sent /\ FrameList(sent)
    BY <2>2 DEF PayloadInv, object
  <2>4. writer \in DOMAIN Types /\ writer # ""
    <3>1. "" \notin DOMAIN Types /\ Pairs \subseteq (DOMAIN Types) \X (DOMAIN Types)
      BY ClassAssumption
    <3>2. <<writer, r>> \in Pairs
      BY <2>2
    <3>3. QED
      BY <3>1, <3>2
  <2>5. sent # <<>>
    <3>1. PICK b : sent = <<b>>
      BY <2>4 DEF PayloadInv, ObjectSent
    <3>2. Len(<<b>>) = 1 /\ Len(<<>>) = 0
      OBVIOUS
    <3>3. QED
      BY <3>1, <3>2
  <2>6. result = read_object(Types[r], sent[1], old)
    BY <2>1, <2>3, <2>5
  <2>7. AtReceiver'
    BY <2>2, <2>3, <2>6 DEF AtReceiver
  <2>8. (writer # "" => ObjectSent)'
    BY <2>3 DEF PayloadInv, ObjectSent
  <2>9. FrameList(sent)'
    BY <2>3 DEF FrameList
  <2>10. QED
    BY <2>2, <2>3, <2>7, <2>8, <2>9 DEF PayloadInv
<1>6. CASE UNCHANGED payload
  <2>1. UNCHANGED <<stage, reader, before, frames, row, got, failed, writer, value, sent, fits>>
    BY <1>6 DEF payload, object
  <2>2. FrameList(sent)' /\ (writer # "" => ObjectSent)'
    BY <2>1 DEF PayloadInv, FrameList, ObjectSent
  <2>3. (stage = "logged" => InTheLog)' /\ (stage = "received" => AtReceiver)'
    BY <2>1 DEF PayloadInv, InTheLog, AtReceiver
  <2>4. QED
    BY <2>1, <2>2, <2>3 DEF PayloadInv
<1>7. QED
  BY <1>1, <1>2, <1>3, <1>4, <1>5, <1>6 DEF PayloadNext

LEMMA PayloadInvariance == PayloadSpec => []PayloadInv
BY PayloadStarts, PayloadStep, PTL DEF PayloadSpec

(* Recorder::append() and unpack_frames(): however many frames of four     *)
(* bytes or more a message has, and whatever their sizes, the buffer that  *)
(* serialize_cbor() estimates holds them, the CHECK around it passes, and  *)
(* what the log viewer reads is what was sent (pubsub_recorder.cpp:97-104, *)
(* make_serializable.hpp:201, log_viewer.cpp:138-143).                     *)
THEOREM LogIsFaithful == PayloadSpec => []LogKeepsFrames
<1>1. PayloadInv => LogKeepsFrames
  <2> SUFFICES ASSUME PayloadInv, sent # <<>>, \A i \in DOMAIN sent : sent[i][1] >= 4
               PROVE  failed \notin {"recorder", "playback"} /\ frames = sent
    BY DEF LogKeepsFrames
  <2>1. FrameList(sent) /\ frames = sent /\ Long(sent)
    BY DEF PayloadInv, Long
  <2>2. serialize_frames(sent).ok
    BY <2>1, LogFits
  <2>3. stage = "logged" => failed = "nobody"
    BY <2>2 DEF PayloadInv, InTheLog
  <2>4. stage = "received" => failed \in {"receiver", "nobody"}
    BY DEF PayloadInv, AtReceiver
  <2>5. QED
    BY <2>1, <2>3, <2>4 DEF PayloadInv
<1>2. QED
  BY <1>1, PayloadInvariance, PTL

(* Message::add_cbor() to Message::get_cbor(): if the types of its fields  *)
(* are decoded as they were encoded, an object of any class that fits in   *)
(* its buffer is read by a reader of that class as it was written, and     *)
(* nobody aborts, straight or from the log (pubsub.h:42-52,                *)
(* pubsub_message.h:43-50, make_serializable.hpp:82-115, 336-381).         *)
THEOREM ObjectsSurvive == FieldsRoundTrip => (PayloadSpec => []ReadAsWritten)
<1> SUFFICES ASSUME FieldsRoundTrip PROVE PayloadSpec => []ReadAsWritten
  OBVIOUS
<1>1. PayloadInv => ReadAsWritten
  <2> SUFFICES ASSUME PayloadInv, stage = "received", reader = writer, fits
               PROVE  failed = "nobody" /\ got = value
    BY DEF ReadAsWritten
  <2>1. PICK w, v, old, b : w = writer /\ v = value /\ old = before /\ b = sent[1]
    OBVIOUS
  <2>2. AtReceiver /\ w \in DOMAIN Types /\ w # ""
    <3>1. AtReceiver
      BY DEF PayloadInv
    <3>2. <<w, reader>> \in Pairs
      BY <2>1, <3>1 DEF AtReceiver
    <3>3. "" \notin DOMAIN Types /\ Pairs \subseteq (DOMAIN Types) \X (DOMAIN Types)
      BY ClassAssumption
    <3>4. QED
      BY <3>1, <3>2, <3>3
  <2>3. ObjectSent
    BY <2>1, <2>2 DEF PayloadInv
  <2>4. PICK result : result = read_object(Types[w], b, old)
    OBVIOUS
  <2>5. /\ old \in Held[w] /\ got = result.value
        /\ failed = IF result.status = "abort" THEN "receiver" ELSE "nobody"
    BY <2>1, <2>2, <2>4 DEF AtReceiver
  <2>6. v \in Values[w] /\ write_object(Types[w], v).ok /\ b = write_object(Types[w], v).bytes
    BY <2>1, <2>3 DEF ObjectSent
  <2>7. result = read_object(Types[w], write_object(Types[w], v).bytes, old)
    BY <2>4, <2>6
  <2>8. result.status = "ok" /\ result.value = v
    <3>1. w \in DOMAIN Types /\ v \in Values[w] /\ old \in Held[w] /\ write_object(Types[w], v).ok
      BY <2>2, <2>5, <2>6
    <3>2. QED
      BY <3>1, <2>7, SameClassIsRead
  <2>9. QED
    BY <2>1, <2>5, <2>8
<1>2. QED
  BY <1>1, PayloadInvariance, PTL

(* The same, for a reader of any other version of the class: if the types  *)
(* of the fields that both have agree, it gets its fields up to the first  *)
(* that was not written, keeps what its object held in the others, and     *)
(* aborts if one of the first does not fit, and only then                  *)
(* (make_serializable.hpp:336-381).                                        *)
THEOREM VersionsKeepPrefix == FieldsAgree => (PayloadSpec => []ReaderKeepsPrefix)
<1> SUFFICES ASSUME FieldsAgree PROVE PayloadSpec => []ReaderKeepsPrefix
  OBVIOUS
<1>1. PayloadInv => ReaderKeepsPrefix
  <2> SUFFICES ASSUME PayloadInv, stage = "received", writer # "", fits
               PROVE  ReaderKeepsPrefix
    BY DEF ReaderKeepsPrefix
  <2>1. PICK w, r, v, old, b : /\ w = writer /\ r = reader /\ v = value
                               /\ old = before /\ b = sent[1]
    OBVIOUS
  <2>2. AtReceiver /\ ObjectSent
    BY DEF PayloadInv
  <2>3. PICK result : result = read_object(Types[r], b, old)
    OBVIOUS
  <2>4. /\ <<w, r>> \in Pairs /\ old \in Held[r] /\ got = result.value
        /\ failed = IF result.status = "abort" THEN "receiver" ELSE "nobody"
    BY <2>1, <2>2, <2>3 DEF AtReceiver
  <2>5. v \in Values[w] /\ write_object(Types[w], v).ok /\ b = write_object(Types[w], v).bytes
    BY <2>1, <2>2 DEF ObjectSent
  <2>6. result = read_object(Types[r], write_object(Types[w], v).bytes, old)
    BY <2>3, <2>5
  <2>7. PrefixRead(Types[w], Types[r], v, old, result)
    <3>1. /\ <<w, r>> \in Pairs /\ v \in Values[w] /\ old \in Held[r]
          /\ write_object(Types[w], v).ok
      BY <2>4, <2>5
    <3>2. QED
      BY <2>6, <3>1, VersionIsRead
  <2>8. failed = IF Unfit(Types[w], Types[r], v) THEN "receiver" ELSE "nobody"
    BY <2>4, <2>7 DEF PrefixRead
  <2>9. QED
    BY <2>1, <2>4, <2>7, <2>8 DEF ReaderKeepsPrefix, PrefixRead, Unfit
<1>2. QED
  BY <1>1, PayloadInvariance, PTL

=============================================================================
