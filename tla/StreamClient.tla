---------------------------- MODULE StreamClient ----------------------------
(***************************************************************************)
(* realsense_streaming/client.cpp: three threads read the packets of all   *)
(* cameras, decode the video ones, and leave the newest result of every    *)
(* stream in a SingleItem for the frame loop.  Packets come from anywhere: *)
(* servers that restart, networks that lose, recordings that jump.         *)
(*                                                                         *)
(* The codecs are external.  A decoder is told apart by the packet it last *)
(* took (ref), whether its picture is what the server saw (good) and       *)
(* whether it was ever given a packet of another run as the next (mixed).  *)
(***************************************************************************)
EXTENDS Integers, Sequences

CONSTANTS
  Serials,     \* cameras
  Packet,      \* video packets: [serial, kind, run, id, key, flag]
  Motion,      \* motion packets: [serial, kind, run, id, samples]
  Capacity,    \* messages a SubscriberBuffer holds
  None         \* no packet, INVALID_SEQUENCE_ID, no item

ASSUME PacketAssumption ==
  \A p \in Packet : /\ p.serial \in Serials /\ p.kind \in {"color", "depth"}
                    /\ p.id \in Nat /\ (p.flag => p.key)
ASSUME MotionAssumption ==
  \A m \in Motion : m.serial \in Serials /\ m.kind \in {"accel", "gyro"}
ASSUME NoneAssumption == None \notin Nat \cup Packet \cup Motion

VARIABLES
  main,        \* init() and cleanup()
  stop,        \* stop_all()'s flag
  closed,      \* the subscriber buffers have been stopped
  inbox,       \* _depth_buffer, _color_buffer, _motion_buffer
  tpc,         \* the three threads
  context,     \* serial_to_context of the depth and the color thread
  known,       \* _serial_numbers
  item,        \* the SingleItems of the four maps; None: not there or empty
  state,       \* the frame loop's RealsenseStates, by serial and kind
  aborted      \* a CHECK has failed

Kinds == {"color", "depth", "accel", "gyro"}
Video == {"color", "depth"}
Inboxes == {"color", "depth", "motion"}

(* init()'s subscriptions.                                                 *)
InboxOf(kind) == IF kind \in Video THEN kind ELSE "motion"

loop == <<known, item, state>>
vars == <<main, stop, closed, inbox, tpc, context, loop, aborted>>

(* A context as it is made: its decoder has seen nothing.  last_sequence_id*)
(* and need_keyframe are the code's, the other three stand for the decoder.*)
Fresh == [last |-> None, need |-> TRUE, ref |-> None, good |-> FALSE, mixed |-> FALSE]

Streams == Serials \X Kinds

Init ==
  /\ main = "running"
  /\ stop = FALSE /\ closed = FALSE
  /\ inbox = [b \in Inboxes |-> <<>>]
  /\ tpc = [b \in Inboxes |-> "loop"]
  /\ context = [s \in Serials \X Video |-> Fresh]
  /\ known = {}
  /\ item = [s \in Streams |-> None]
  /\ state = [s \in Streams |-> None]
  /\ aborted = FALSE

(* pubsub's subscriber thread: a full buffer loses the message.            *)
Deliver(m) ==
  LET b == InboxOf(m.kind) IN
  /\ inbox' = IF Len(inbox[b]) = Capacity THEN inbox
              ELSE [inbox EXCEPT ![b] = Append(@, m)]
  /\ UNCHANGED <<main, stop, closed, tpc, context, loop, aborted>>

-----------------------------------------------------------------------------
Thread(b, here, there) ==
  /\ ~aborted
  /\ tpc[b] = here /\ tpc' = [tpc EXCEPT ![b] = there]
  /\ UNCHANGED <<main, stop, closed, state>>

LoopTest(b) ==
  /\ Thread(b, "loop", IF stop THEN "returned" ELSE "read")
  /\ UNCHANGED <<inbox, context, known, item, aborted>>

ReadStopped(b) ==
  /\ closed
  /\ Thread(b, "read", "returned")
  /\ UNCHANGED <<inbox, context, known, item, aborted>>

Read(b) ==
  /\ inbox[b] # <<>> /\ ~closed
  /\ Thread(b, "read", "loop")
  /\ inbox' = [inbox EXCEPT ![b] = Tail(@)]
  /\ known' = known \cup {Head(inbox[b]).serial}

(* A gap in the sequence ids: start again, with a new decoder.  Mutant:    *)
(* packets that go back are no gap.                                        *)
GapBackwardsIgnored(c, p) ==
  IF c.last # None /\ c.last + 1 < p.id THEN Fresh ELSE c
AfterGap(c, p) == IF c.last # None /\ c.last + 1 # p.id THEN Fresh ELSE c

(* What is left of the context once the packet has been taken.  An         *)
(* acceptable packet is not always decodable: a server started anew counts *)
(* its packets from 0 as well, and one may bear the id that comes next.    *)
Follows(c, p) == c.good /\ c.ref.run = p.run /\ c.ref.id + 1 = p.id
OfAnotherRun(c, p) == c.ref # None /\ c.ref.run # p.run
Taken(c, p) ==
  [last |-> p.id, need |-> FALSE, ref |-> p,
   good |-> p.key \/ Follows(c, p),
   mixed |-> ~p.key /\ (c.mixed \/ OfAnotherRun(c, p))]

Skip(c, p) == c.need /\ ~p.flag

SkipPacket(b) ==
  /\ b \in Video
  /\ Read(b)
  /\ LET p == Head(inbox[b])
         s == <<p.serial, b>> IN
     /\ Skip(AfterGap(context[s], p), p)
     /\ context' = [context EXCEPT ![s] = AfterGap(@, p)]
  /\ UNCHANGED <<item, aborted>>

(* A packet that is not skipped: next is the context with it taken.        *)
TakePacket(b, next) ==
  /\ b \in Video
  /\ Read(b)
  /\ LET p == Head(inbox[b])
         c == AfterGap(context[<<p.serial, b>>], p) IN
     /\ ~Skip(c, p)
     /\ next = Taken(c, p)

(* A decoder makes a picture of any packet it accepts, good or not.        *)
Decode(b, next) ==
  LET s == <<next.ref.serial, b>> IN
  /\ TakePacket(b, next)
  /\ context' = [context EXCEPT ![s] = next]
  /\ item' = [item EXCEPT ![s] = next]
  /\ UNCHANGED aborted

(* It may refuse one that does not follow what it has: the depth thread    *)
(* starts again, the color thread's CHECK fails.                           *)
Checks(b) == b = "color"

Refuse(b, next) ==
  LET s == <<next.ref.serial, b>> IN
  /\ TakePacket(b, next)
  /\ ~next.good
  /\ context' = [context EXCEPT ![s] = IF Checks(b) THEN next ELSE Fresh]
  /\ aborted' = Checks(b)
  /\ UNCHANGED item

Contexts(b) ==
  IF b = "motion" \/ inbox[b] = <<>> THEN {}
  ELSE LET p == Head(inbox[b]) IN { Taken(AfterGap(context[<<p.serial, b>>], p), p) }

(* The motion thread keeps no context worth the name: a batch replaces the *)
(* one before it, read or not.                                             *)
TakeMotion ==
  /\ Read("motion")
  /\ item' = [item EXCEPT ![<<Head(inbox["motion"]).serial,
                             Head(inbox["motion"]).kind>>] = Head(inbox["motion"])]
  /\ UNCHANGED <<context, aborted>>

-----------------------------------------------------------------------------
(* The frame loop.  update_realsense_list() and update_realsense_state():  *)
(* of each stream the item that has come since the last call, if any.      *)
UpdateState(serial) ==
  /\ main \in {"running", "stopping"} /\ ~aborted
  /\ serial \in known
  /\ state' = [s \in Streams |->
                 IF s[1] = serial /\ item[s] # None THEN item[s] ELSE state[s]]
  /\ item' = [s \in Streams |-> IF s[1] = serial THEN None ELSE item[s]]
  /\ UNCHANGED <<main, stop, closed, inbox, tpc, context, known, aborted>>

(* cleanup().  Mutant: the buffers are not stopped.                        *)
Main(here, there) ==
  /\ main = here /\ main' = there /\ ~aborted
  /\ UNCHANGED <<inbox, tpc, context, loop, aborted>>

StopAll == Main("running", "stopping") /\ stop' = TRUE /\ UNCHANGED closed
StopBuffers == Main("stopping", "joining") /\ closed' = TRUE /\ UNCHANGED stop
Join ==
  /\ \A b \in Inboxes : tpc[b] = "returned"
  /\ Main("joining", "done")
  /\ UNCHANGED <<stop, closed>>

-----------------------------------------------------------------------------
Worker(b) ==
  \/ LoopTest(b) \/ ReadStopped(b)
  \/ SkipPacket(b)
  \/ \E next \in Contexts(b) : Decode(b, next) \/ Refuse(b, next)
  \/ (b = "motion" /\ TakeMotion)
Lifecycle == StopAll \/ StopBuffers \/ Join

Next ==
  \/ \E m \in Packet \cup Motion : Deliver(m)
  \/ \E b \in Inboxes : Worker(b)
  \/ \E s \in Serials : UpdateState(s)
  \/ Lifecycle

Spec == Init /\ [][Next]_vars

-----------------------------------------------------------------------------
Context == [last : Nat \cup {None}, need : BOOLEAN, ref : Packet \cup {None},
            good : BOOLEAN, mixed : BOOLEAN]
Item(kind) == IF kind \in Video THEN Context \cup {None} ELSE Motion \cup {None}

TypeOK ==
  /\ main \in {"running", "stopping", "joining", "done"}
  /\ stop \in BOOLEAN /\ closed \in BOOLEAN /\ aborted \in BOOLEAN
  /\ inbox \in [Inboxes -> Seq(Packet \cup Motion)]
  /\ \A b \in Video : inbox[b] \in Seq(Packet)
  /\ inbox["motion"] \in Seq(Motion)
  /\ tpc \in [Inboxes -> {"loop", "read", "returned"}]
  /\ context \in [Serials \X Video -> Context]
  /\ known \subseteq Serials
  /\ item \in [Streams -> Context \cup Motion \cup {None}]
  /\ state \in [Streams -> Context \cup Motion \cup {None}]
  /\ \A s \in Streams : item[s] \in Item(s[2]) /\ state[s] \in Item(s[2])

(* A picture shown or left to be shown is what the server saw: decoded     *)
(* from the key frame before it through every packet between, whatever was *)
(* lost, repeated or out of order (client.cpp:109-137, 206-231).  The one  *)
(* exception is a packet of another run that bears the next sequence id.   *)
Sound(c) == c.good \/ c.mixed
PicturesAreSound ==
  \A s \in Serials \X Video : \A c \in {item[s], state[s]} \ {None} : Sound(c)

(* No CHECK fails but after that exception (client.cpp:128, 226 and 239).  *)
AbortsOnlyWhenMixed == aborted => \E s \in Serials : context[<<s, "color">>].mixed

(* What stop_all() leads to: cleanup() has returned, whatever the threads  *)
(* were at when it stopped them.                                           *)
CleanedUp == stop => main = "done" \/ aborted

=============================================================================
