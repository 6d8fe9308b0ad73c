------------------------------- MODULE PubSub -------------------------------
(***************************************************************************)
(* app/pubsub.cpp: one process's publish-subscribe bus.  Any thread of the *)
(* process asks for bindings, publications and subscriptions; the          *)
(* publisher, subscriber and recorder threads carry them out; cleanup()    *)
(* shuts the three down.                                                   *)
(*                                                                         *)
(* The request queues and message buffers are RingBuffers, written under a *)
(* mutex or by one thread; module RingBuffer shows that each behaves as a  *)
(* bounded FIFO queue whose operations are atomic, so here an operation is *)
(* one step.  A SubscriberItem is a SingleItem: its newest message.        *)
(*                                                                         *)
(* ZeroMQ is outside src/: `wire' is the receiving pipe of the SUB socket  *)
(* (whole multi-part messages, in order, any of which may be lost),        *)
(* `partial' the parts the PUB socket still expects more of.  The parts of *)
(* one request (topic, header, frames) travel together, so a message is    *)
(* the sequence of the requests whose parts it is made of.                 *)
(***************************************************************************)
EXTENDS Integers, Sequences, FiniteSets, Functions

CONSTANTS
  Client,          \* threads of this process that publish
  Remote,          \* a publisher in another process
  Topic,           \* topics
  Buffers, Items,  \* what subscribe() and subscribe_latest() are given
  Matches,         \* the topics that start with the prefix of each of them
  FrameCounts,     \* how many frames a publication may have
  Headers,         \* "new" ones, and "logged" ones that playback publishes
  None,            \* no request, no message
  PubCapacity, SubCapacity, BufCapacity, RecCapacity,  \* of the ring buffers
  MaxPublish,      \* bound: publications of each publisher
  MaxClears,       \* bound: calls of publisher_requests_clear()
  MaxSessions      \* bound: calls of enable_recording()

Output == Buffers \cup Items
Process == {"own", "other"}

(* The parts a message is made of.                                         *)
PartSet == [topic : Topic, by : Client \cup {Remote}, n : Nat, process : Process, seq : Nat]

ASSUME NoneAssumption ==
  None \notin Topic /\ None \notin Seq(PartSet) /\ Remote \notin Client
ASSUME PrefixAssumption == Matches \in [Output -> SUBSET Topic]
ASSUME DisjointAssumption == Buffers \cap Items = {}

VARIABLES
  stopping,                 \* should_stop_all()
  shutdown,                 \* zmq_ctx_ has been shut down
  mpc,                      \* the thread that calls init() and cleanup()
  aborted,                  \* a CHECK failed: the process has ended
  pubQueue, pubClosed,      \* publisher_requests_
  clearing,                 \* publisher_requests_clear_
  ppc, request, sequence_id,            \* the publisher thread
  bound, partial,                       \* its socket
  connected, wire,                      \* the subscriber's socket
  subQueue, subClosed,      \* subscriber_requests_
  spc, message, outputs,    \* the subscriber thread, subscriber_outputs
  buffer, item,             \* what subscribers see
  recording, log,           \* is_recording_ and the open log of recorder_
  recBuffer, recClosed, rpc, rmessage,  \* recorder_buffer_, recorder thread
  made, position, sessions, asked,      \* calls made so far
  overlooked  \* a clear was called between the thread's clear() and its store

mainVars == <<stopping, shutdown, mpc>>
pubVars == <<ppc, request, sequence_id, bound, partial>>
queueVars == <<pubQueue, pubClosed, clearing, overlooked>>
subVars == <<spc, message, outputs, connected, subQueue, subClosed>>
outVars == <<buffer, item>>
recVars == <<recording, log, recClosed, rpc, rmessage>>
callVars == <<made, position, sessions, asked>>
vars == <<mainVars, aborted, pubVars, queueVars, subVars, outVars, recVars,
          callVars, wire, recBuffer>>

(* The requests.                                                           *)
Bind == [kind |-> "bind"]
Connect == [kind |-> "connect"]
Subscribe(o) == [kind |-> "subscribe", output |-> o]

Init ==
  /\ stopping = FALSE /\ shutdown = FALSE /\ aborted = FALSE
  /\ mpc = "bind"
  /\ pubQueue = <<>> /\ pubClosed = FALSE
  /\ clearing = FALSE /\ overlooked = FALSE
  /\ ppc = "loop" /\ request = None /\ sequence_id = 0
  /\ bound = FALSE /\ partial = <<>>
  /\ connected = FALSE /\ wire = <<>>
  /\ subQueue = <<>> /\ subClosed = FALSE
  /\ spc = "loop" /\ message = None /\ outputs = {}
  /\ buffer = [o \in Buffers |-> <<>>] /\ item = [o \in Items |-> None]
  /\ recording = FALSE /\ log = <<>>
  /\ recBuffer = <<>> /\ recClosed = FALSE /\ rpc = "loop" /\ rmessage = None
  /\ made = [p \in Client \cup {Remote} |-> 0]
  /\ position = 0 /\ sessions = 0 /\ asked = {}

-----------------------------------------------------------------------------
(* Calls that other threads make.                                          *)

Initted == mpc \notin {"bind", "connect", "done"}

(* move_write() under publish_requests_mutex_, and the CHECK around it.    *)
RequestOfPublisher(r) ==
  IF Len(pubQueue) < PubCapacity
    THEN pubQueue' = Append(pubQueue, r) /\ UNCHANGED aborted
    ELSE aborted' = TRUE /\ UNCHANGED pubQueue

(* move_write() under subscriber_requests_mutex_, whose result nobody looks *)
(* at.                                                                     *)
RequestOfSubscriber(r) ==
  subQueue' = IF Len(subQueue) < SubCapacity THEN Append(subQueue, r) ELSE subQueue

(* publish_frames(), publish_topic_only() and                              *)
(* publish_frames_with_manual_header().                                    *)
Publish(c, topic, frames, header) ==
  /\ Initted
  /\ made[c] < MaxPublish
  /\ made' = [made EXCEPT ![c] = @ + 1]
  /\ RequestOfPublisher([kind |-> "publish", topic |-> topic, frames |-> frames,
                         header |-> header, by |-> c, n |-> made[c],
                         position |-> position])
  /\ UNCHANGED <<mainVars, pubVars, pubClosed, clearing, overlooked, subVars,
                 outVars, recVars, position, sessions, asked, wire, recBuffer>>

(* publisher_requests_clear(), which the playback thread calls when the    *)
(* user has moved the playback position.                                   *)
PublisherRequestsClear ==
  /\ Initted
  /\ position < MaxClears
  /\ position' = position + 1
  /\ clearing' = TRUE
  /\ overlooked' = (overlooked \/ ppc = "unflag")
  /\ UNCHANGED <<mainVars, aborted, pubVars, pubQueue, pubClosed, subVars,
                 outVars, recVars, made, sessions, asked, wire, recBuffer>>

(* subscribe() and subscribe_latest()                                      *)
SubscribeTo(o) ==
  /\ Initted
  /\ o \notin asked
  /\ asked' = asked \cup {o}
  /\ RequestOfSubscriber(Subscribe(o))
  /\ UNCHANGED <<mainVars, aborted, pubVars, queueVars, spc, message, outputs,
                 connected, subClosed, outVars, recVars, made, position, sessions, wire,
                 recBuffer>>

(* enable_recording() and disable_recording(), each under recorder_mutex_. *)
EnableRecording ==
  /\ Initted
  /\ sessions < MaxSessions
  /\ sessions' = sessions + 1
  /\ log' = <<>> /\ recording' = TRUE
  /\ UNCHANGED <<mainVars, aborted, pubVars, queueVars, subVars, outVars,
                 recClosed, rpc, rmessage, made, position, asked, wire, recBuffer>>

DisableRecording ==
  /\ Initted
  /\ recording
  /\ log' = <<>> /\ recording' = FALSE
  /\ UNCHANGED <<mainVars, aborted, pubVars, queueVars, subVars, outVars,
                 recClosed, rpc, rmessage, callVars, wire, recBuffer>>

(* A subscriber reads its buffer.                                          *)
Consume(o) ==
  /\ Initted
  /\ buffer[o] # <<>>
  /\ buffer' = [buffer EXCEPT ![o] = Tail(@)]
  /\ UNCHANGED <<mainVars, aborted, pubVars, queueVars, subVars, item, recVars,
                 callVars, wire, recBuffer>>

-----------------------------------------------------------------------------
(* The sockets.                                                            *)

(* ZeroMQ may hand a message to the SUB socket only if the two are joined  *)
(* and the socket has subscribed to a prefix of the first part, the topic; *)
(* a subscription on its way, or a full pipe, loses it all the same.       *)
Transmit(m) ==
  \/ /\ connected
     /\ \E o \in outputs : m[1].topic \in Matches[o]
     /\ wire' = Append(wire, m)
  \/ UNCHANGED wire

(* Another process publishes.                                              *)
RemotePublish(topic) ==
  /\ made[Remote] < MaxPublish
  /\ made' = [made EXCEPT ![Remote] = @ + 1]
  /\ Transmit(<<[topic |-> topic, by |-> Remote, n |-> made[Remote],
                 process |-> "other", seq |-> made[Remote]]>>)
  /\ UNCHANGED <<mainVars, aborted, pubVars, queueVars, subVars, outVars,
                 recVars, position, sessions, asked, recBuffer>>

-----------------------------------------------------------------------------
(* run_publisher_thread()                                                  *)

notPublisher == <<mainVars, aborted, subVars, outVars, recVars, callVars>>

Publisher(here, there) == ppc = here /\ ppc' = there

PubTestStop ==
  /\ Publisher("loop", IF stopping THEN "exited" ELSE "flag")
  /\ UNCHANGED <<notPublisher, request, sequence_id, bound, partial,
                 queueVars, wire, recBuffer>>

PubTestClear ==
  /\ Publisher("flag", IF clearing THEN "clear" ELSE "read")
  /\ UNCHANGED <<notPublisher, request, sequence_id, bound, partial,
                 queueVars, wire, recBuffer>>

(* Mutant: clear() gives up the oldest request only.                       *)
ClearOldest ==
  /\ Publisher("clear", "unflag")
  /\ pubQueue' = IF pubQueue = <<>> THEN <<>> ELSE Tail(pubQueue)
  /\ overlooked' = FALSE
  /\ UNCHANGED <<notPublisher, request, sequence_id, bound, partial,
                 pubClosed, clearing, wire, recBuffer>>

PubClear ==
  /\ Publisher("clear", "unflag")
  /\ pubQueue' = <<>>
  /\ overlooked' = FALSE
  /\ UNCHANGED <<notPublisher, request, sequence_id, bound, partial,
                 pubClosed, clearing, wire, recBuffer>>

PubUnflag ==
  /\ Publisher("unflag", "read")
  /\ clearing' = FALSE
  /\ UNCHANGED <<notPublisher, request, sequence_id, bound, partial,
                 pubQueue, pubClosed, overlooked, wire, recBuffer>>

(* The blocking move_read(), which fails only once the queue is stopped.   *)
PubRead ==
  /\ pubClosed \/ pubQueue # <<>>
  /\ Publisher("read", IF pubClosed THEN "exited" ELSE "handle")
  /\ IF pubClosed
       THEN UNCHANGED <<request, pubQueue>>
       ELSE request' = Head(pubQueue) /\ pubQueue' = Tail(pubQueue)
  /\ UNCHANGED <<notPublisher, sequence_id, bound, partial, pubClosed,
                 clearing, overlooked, wire, recBuffer>>

(* A socket whose context has been shut down throws: the thread returns.   *)
PubThrow ==
  /\ shutdown
  /\ Publisher("handle", "exited")
  /\ request' = None
  /\ UNCHANGED <<notPublisher, sequence_id, bound, partial, queueVars, wire,
                 recBuffer>>

PubBind ==
  /\ ~shutdown
  /\ request = Bind
  /\ Publisher("handle", "loop")
  /\ bound' = TRUE
  /\ request' = None
  /\ UNCHANGED <<notPublisher, sequence_id, partial, queueVars, wire, recBuffer>>

(* move_write() to recorder_buffer_ under recorder_buffer_mutex_.          *)
Record(m) ==
  recBuffer' = IF recording /\ Len(recBuffer) < RecCapacity
                 THEN Append(recBuffer, m) ELSE recBuffer

Part(r) ==
  [topic |-> r.topic, by |-> r.by, n |-> r.n,
   process |-> IF r.header = "new" THEN "own" ELSE "other",
   seq |-> IF r.header = "new" THEN sequence_id ELSE 0]

(* Mutant: the id is not incremented.                                      *)
SameSequenceId == sequence_id

(* sequence_id++, unless the request brings a header of its own.           *)
NextSequenceId == IF request.header = "new" THEN sequence_id + 1 ELSE sequence_id

(* Topic and header are sent with sndmore, and so is every frame but the   *)
(* last one: without frames the message stays open.                        *)
PubSend ==
  /\ ~shutdown
  /\ request # Bind
  /\ Publisher("handle", "loop")
  /\ sequence_id' = NextSequenceId
  /\ LET parts == Append(partial, Part(request))
     IN  IF request.frames = 0
           THEN partial' = parts /\ UNCHANGED wire
           ELSE partial' = <<>> /\ IF bound THEN Transmit(parts) ELSE UNCHANGED wire
  /\ Record(<<Part(request)>>)
  /\ request' = None
  /\ UNCHANGED <<mainVars, aborted, bound, queueVars, subVars, outVars,
                 recVars, callVars>>

PublisherThread ==
  \/ PubTestStop \/ PubTestClear \/ PubClear \/ PubUnflag \/ PubRead
  \/ PubThrow \/ PubBind \/ PubSend

-----------------------------------------------------------------------------
(* run_subscriber_thread()                                                 *)

notSubscriber == <<mainVars, aborted, pubVars, queueVars, subClosed, recVars, callVars>>

Subscriber(here, there) == spc = here /\ spc' = there

SubTestStop ==
  /\ Subscriber("loop", IF stopping THEN "exited" ELSE "take")
  /\ UNCHANGED <<notSubscriber, message, outputs, connected, subQueue, outVars,
                 wire, recBuffer>>

SubTakeNothing ==
  /\ subClosed \/ subQueue = <<>>
  /\ Subscriber("take", "recv")
  /\ UNCHANGED <<notSubscriber, message, outputs, connected, subQueue, outVars,
                 wire, recBuffer>>

(* One request at most is carried out before each recv().                  *)
SubTake ==
  /\ ~subClosed /\ subQueue # <<>>
  /\ Subscriber("take", IF shutdown THEN "exited" ELSE "recv")
  /\ subQueue' = Tail(subQueue)
  /\ LET r == Head(subQueue)
     IN  /\ outputs' = IF r # Connect /\ ~shutdown THEN outputs \cup {r.output} ELSE outputs
         /\ connected' = (connected \/ (r = Connect /\ ~shutdown))
  /\ UNCHANGED <<notSubscriber, message, outVars, wire, recBuffer>>

SubReceive ==
  /\ ~shutdown
  /\ wire # <<>>
  /\ Subscriber("recv", "route")
  /\ message' = Head(wire)
  /\ wire' = Tail(wire)
  /\ UNCHANGED <<notSubscriber, outputs, connected, subQueue, outVars, recBuffer>>

(* Mutant: no receive timeout is set.                                      *)
TimeoutUnset == FALSE /\ UNCHANGED vars

(* rcvtimeo: recv() gives up after a second without a message.             *)
SubTimeout ==
  /\ ~shutdown
  /\ wire = <<>>
  /\ Subscriber("recv", "loop")
  /\ UNCHANGED <<notSubscriber, message, outputs, connected, subQueue, outVars,
                 wire, recBuffer>>

SubThrow ==
  /\ shutdown
  /\ Subscriber("recv", "exited")
  /\ UNCHANGED <<notSubscriber, message, outputs, connected, subQueue, outVars,
                 wire, recBuffer>>

(* Mutant: the loop ends with the first output whose prefix matches.       *)
FirstTarget ==
  {CHOOSE o \in outputs : message[1].topic \in Matches[o]}

(* The outputs whose prefix the topic of the message starts with.          *)
Targets == {o \in outputs : message[1].topic \in Matches[o]}

(* Mutant: internal messages are recorded on this side too.                *)
ForeignAny == TRUE

(* header.sender_process_id # get_process_id()                             *)
Foreign == message[1].process # "own"

SubRoute ==
  /\ Subscriber("route", "loop")
  /\ buffer' = [o \in Buffers |->
       IF o \in Targets /\ Len(buffer[o]) < BufCapacity
         THEN Append(buffer[o], message) ELSE buffer[o]]
  /\ item' = [o \in Items |-> IF o \in Targets THEN message ELSE item[o]]
  /\ IF Foreign THEN Record(message) ELSE UNCHANGED recBuffer
  /\ message' = None
  /\ UNCHANGED <<notSubscriber, outputs, connected, subQueue, wire>>

SubscriberThread ==
  \/ SubTestStop \/ SubTakeNothing \/ SubTake \/ SubReceive \/ SubTimeout
  \/ SubThrow \/ SubRoute

-----------------------------------------------------------------------------
(* run_recorder_thread()                                                   *)

notRecorder == <<mainVars, aborted, pubVars, queueVars, subVars, outVars,
                 recording, recClosed, callVars, wire>>

Recorder(here, there) == rpc = here /\ rpc' = there

RecTestStop ==
  /\ Recorder("loop", IF stopping THEN "exited" ELSE "read")
  /\ UNCHANGED <<notRecorder, log, rmessage, recBuffer>>

RecRead ==
  /\ recClosed \/ recBuffer # <<>>
  /\ Recorder("read", IF recClosed THEN "exited" ELSE "append")
  /\ IF recClosed
       THEN UNCHANGED <<rmessage, recBuffer>>
       ELSE rmessage' = Head(recBuffer) /\ recBuffer' = Tail(recBuffer)
  /\ UNCHANGED <<notRecorder, log>>

(* Under recorder_mutex_: dropped if no log is open.                       *)
RecAppend ==
  /\ Recorder("append", "loop")
  /\ log' = IF recording THEN Append(log, rmessage) ELSE log
  /\ rmessage' = None
  /\ UNCHANGED <<notRecorder, recBuffer>>

RecorderThread == RecTestStop \/ RecRead \/ RecAppend

-----------------------------------------------------------------------------
(* init() and cleanup()                                                    *)

Main(here, there) == mpc = here /\ mpc' = there

notMain == <<pubVars, clearing, overlooked, spc, message, outputs, connected,
             outVars, recording, log, rpc, rmessage, callVars, wire, recBuffer>>

InitBind ==
  /\ Main("bind", "connect")
  /\ RequestOfPublisher(Bind)
  /\ UNCHANGED <<notMain, stopping, shutdown, pubClosed, subQueue, subClosed,
                 recClosed>>

InitConnect ==
  /\ Main("connect", "run")
  /\ RequestOfSubscriber(Connect)
  /\ UNCHANGED <<notMain, stopping, shutdown, aborted, pubQueue, pubClosed,
                 subClosed, recClosed>>

(* Some other thread calls stop_all().                                     *)
Interrupt ==
  /\ Initted
  /\ ~stopping
  /\ stopping' = TRUE
  /\ UNCHANGED <<notMain, mpc, shutdown, aborted, pubQueue, pubClosed, subQueue,
                 subClosed, recClosed>>

CleanupStop ==
  /\ Main("run", "shutdown")
  /\ stopping' = TRUE
  /\ UNCHANGED <<notMain, shutdown, aborted, pubQueue, pubClosed, subQueue,
                 subClosed, recClosed>>

CleanupShutdown ==
  /\ Main("shutdown", "stop_pub")
  /\ shutdown' = TRUE
  /\ UNCHANGED <<notMain, stopping, aborted, pubQueue, pubClosed, subQueue,
                 subClosed, recClosed>>

(* Mutant: the queue of the publisher is not stopped before the join.      *)
StopForgotten ==
  /\ Main("stop_pub", "join_pub")
  /\ UNCHANGED <<notMain, stopping, shutdown, aborted, pubQueue, pubClosed,
                 subQueue,
                 subClosed, recClosed>>

CleanupStopPublisher ==
  /\ Main("stop_pub", "join_pub")
  /\ pubClosed' = TRUE
  /\ UNCHANGED <<notMain, stopping, shutdown, aborted, pubQueue, subQueue,
                 subClosed, recClosed>>

CleanupStopSubscriber ==
  /\ ppc = "exited"
  /\ Main("join_pub", "join_sub")
  /\ subClosed' = TRUE
  /\ UNCHANGED <<notMain, stopping, shutdown, aborted, pubQueue, pubClosed,
                 subQueue, recClosed>>

CleanupStopRecorder ==
  /\ spc = "exited"
  /\ Main("join_sub", "join_rec")
  /\ recClosed' = TRUE
  /\ UNCHANGED <<notMain, stopping, shutdown, aborted, pubQueue, pubClosed,
                 subQueue, subClosed>>

CleanupEnd ==
  /\ rpc = "exited"
  /\ Main("join_rec", "done")
  /\ UNCHANGED <<notMain, stopping, shutdown, aborted, pubQueue, pubClosed,
                 subQueue, subClosed, recClosed>>

Cleanup ==
  \/ CleanupShutdown \/ CleanupStopPublisher \/ CleanupStopSubscriber
  \/ CleanupStopRecorder \/ CleanupEnd

-----------------------------------------------------------------------------

Call ==
  \/ \E c \in Client, t \in Topic, k \in FrameCounts, h \in Headers : Publish(c, t, k, h)
  \/ PublisherRequestsClear
  \/ \E o \in Output : SubscribeTo(o)
  \/ EnableRecording
  \/ DisableRecording
  \/ \E o \in Buffers : Consume(o)
  \/ \E t \in Topic : RemotePublish(t)

Next ==
  /\ ~aborted
  /\ \/ Call
     \/ InitBind
     \/ InitConnect
     \/ Interrupt
     \/ CleanupStop
     \/ Cleanup
     \/ PublisherThread
     \/ SubscriberThread
     \/ RecorderThread

Spec == Init /\ [][Next]_vars

(* The scheduler runs every thread, and cleanup() once it is called.       *)
FairSpec ==
  /\ Spec
  /\ WF_vars(~aborted /\ PublisherThread)
  /\ WF_vars(~aborted /\ SubscriberThread)
  /\ WF_vars(~aborted /\ RecorderThread)
  /\ WF_vars(~aborted /\ Cleanup)

-----------------------------------------------------------------------------
(* Properties.                                                             *)

Parts == [topic : Topic, by : Client \cup {Remote}, n : 0..MaxPublish - 1,
          process : Process, seq : 0..MaxPublish * (1 + Cardinality(Client))]
Publications ==
  [kind : {"publish"}, topic : Topic, frames : FrameCounts, header : Headers,
   by : Client, n : 0..MaxPublish - 1, position : 0..MaxClears]
Messages == Seq(Parts) \ {<<>>}

(* Every variable keeps its type: no queue or buffer outgrows its ring, and *)
(* the subscriber never routes a message without parts.                    *)
TypeOK ==
  /\ {stopping, shutdown, aborted, pubClosed, clearing, overlooked, bound,
      connected, subClosed, recording, recClosed} \subseteq BOOLEAN
  /\ mpc \in {"bind", "connect", "run", "shutdown", "stop_pub", "join_pub",
              "join_sub", "join_rec", "done"}
  /\ pubQueue \in Seq(Publications \cup {Bind}) /\ Len(pubQueue) <= PubCapacity
  /\ ppc \in {"loop", "flag", "clear", "unflag", "read", "handle", "exited"}
  /\ request \in Publications \cup {Bind, None}
  /\ sequence_id \in Nat /\ partial \in Seq(Parts) /\ wire \in Seq(Messages)
  /\ subQueue \in Seq({Subscribe(o) : o \in Output} \cup {Connect})
  /\ Len(subQueue) <= SubCapacity
  /\ spc \in {"loop", "take", "recv", "route", "exited"}
  /\ spc = "route" => message \in Messages
  /\ outputs \subseteq asked /\ asked \subseteq Output
  /\ \A o \in Buffers : buffer[o] \in Seq(Messages) /\ Len(buffer[o]) <= BufCapacity
  /\ \A o \in Items : item[o] \in Messages \cup {None}
  /\ recBuffer \in Seq(Messages) /\ Len(recBuffer) <= RecCapacity
  /\ rpc \in {"loop", "read", "append", "exited"}
  /\ rpc = "append" => rmessage \in Messages
  /\ log \in Seq(Messages)

(* a was published before b, as far as publisher and header can tell.      *)
Precedes(a, b) ==
  /\ a.by = b.by => a.n < b.n
  /\ a.process = "own" /\ b.process = "own" => a.seq < b.seq

(* The message stands alone: it is made of the parts of one request.       *)
Intact(m) == Len(m) = 1

(* run_subscriber_thread(): what a subscriber finds in its buffer is in the *)
(* order of publication, without duplicates and with ascending sequence    *)
(* ids, whatever was lost to a full buffer, a late subscription or clear(). *)
BuffersInOrder ==
  \A o \in Buffers : \A i, j \in DOMAIN buffer[o] :
    i < j => Precedes(buffer[o][i][1], buffer[o][j][1])

(* subscribe_latest(): the item of a subscriber is never replaced by an    *)
(* older message.                                                          *)
ItemsAdvance ==
  [][\A o \in Items :
       item[o] # None /\ item'[o] # item[o] => Precedes(item[o][1], item'[o][1])]_vars

(* pubsub.cpp:283, said of every part: no subscriber is handed parts       *)
(* of a publication on a topic that does not start with its prefix.        *)
PartsRoutedByPrefix ==
  \A o \in Buffers : \A i \in DOMAIN buffer[o] :
    \A k \in DOMAIN buffer[o][i] : buffer[o][i][k].topic \in Matches[o]

(* run_publisher_thread() and run_subscriber_thread() both record, yet no  *)
(* message gets into the log, or on its way there, twice or out of order.  *)
RecordedOnce ==
  LET toBeLogged == log \o (IF rpc = "append" THEN <<rmessage>> ELSE <<>>) \o recBuffer
  IN  \A i, j \in DOMAIN toBeLogged :
        i < j => Precedes(toBeLogged[i][1], toBeLogged[j][1])

(* Once publisher_requests_clear_ is down again, no request is pending that *)
(* was made before the last publisher_requests_clear(), unless that call   *)
(* came between the thread's clear() and its store of false.               *)
ClearTakesEffect ==
  clearing \/ overlooked \/ \A i \in DOMAIN pubQueue :
    pubQueue[i] = Bind \/ pubQueue[i].position = position

(* pubsub.h:104: publisher_requests_clear() gives up pending publications; *)
(* one made after the call is still pending when the publisher clears.     *)
LaterRequestsSurvive ==
  [][\A i \in DOMAIN pubQueue :
       pubQueue[i] # Bind /\ pubQueue[i].position = position =>
         pubQueue[i] \in Range(pubQueue') \cup {request'}]_vars

(* A subscription that was accepted is in force before long, and the       *)
(* connection that init() asked for before it too, although the thread that *)
(* carries them out waits for messages in between.                         *)
RequestsTakeEffect ==
  \A o \in Output :
    o \in asked ~> (o \in outputs /\ connected) \/ stopping \/ aborted

(* The publications a subscriber may still be handed: those pending, in the *)
(* hands of the publisher thread, in an open message, on the wire or in the *)
(* hands of the subscriber thread.  A message counts by its first part.    *)
Publication(p) == [by |-> p.by, n |-> p.n, topic |-> p.topic]
UnderWay ==
  LET requests == Range(pubQueue) \cup (IF ppc = "handle" THEN {request} ELSE {})
      messages == Range(wire) \cup (IF spc = "route" THEN {message} ELSE {})
                    \cup (IF partial = <<>> THEN {} ELSE {partial})
  IN  {Publication(r) : r \in requests \ {Bind}} \cup {Publication(m[1]) : m \in messages}

Handed(q) == [i \in DOMAIN q |-> Publication(q[i][1])]

Inboxes == [o \in Buffers |-> Handed(buffer[o])]
Newest == [o \in Items |-> IF item[o] = None THEN None ELSE Publication(item[o][1])]

PublicBus == INSTANCE Bus WITH
  Sender <- Client \cup {Remote}, Capacity <- BufCapacity, pending <- UnderWay,
  subscribed <- outputs, buffer <- Inboxes, item <- Newest

(* pubsub.h:88-131: whatever the threads, queues and sockets between a     *)
(* publisher and a subscriber do, a publication reaches all subscribers in *)
(* force with room for it or none, at most once, and not after a later one. *)
ImplementsBus == PublicBus!Spec

(* cleanup() joins all three threads and returns, whatever they are doing. *)
CleanupReturns == mpc = "shutdown" ~> mpc = "done" \/ aborted

=============================================================================
