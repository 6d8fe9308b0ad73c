---------------------------- MODULE CameraServer ----------------------------
(***************************************************************************)
(* realsense_streaming/server.cpp with util.cpp and ActionPeriod           *)
(* (app/timing.cpp): the camera's callbacks put frames into one ring       *)
(* buffer per kind, a thread per buffer encodes them and publishes the     *)
(* packets.  The camera SDK and the codecs are external: a packet is told  *)
(* apart by its stream, the run of the server, its sequence id, whether it *)
(* is a key frame and whether it says so; a motion sample by its time and  *)
(* its number among those of its stream that the ring buffer took.         *)
(***************************************************************************)
EXTENDS Integers, Sequences, FiniteSets, SequencesExt

CONSTANTS
  Device,       \* of a camera, the number of its sensors and their profiles
                \* [sensor, kind, fits], in order
  Setups,       \* what may be plugged in: sets of cameras, which are numbers
  Capacity,     \* frames a ring buffer holds, by buffer: 9, 9, 99
  Period,       \* DepthEncoder, ColorEncoder::keyframe_period, 2 s
  BatchSpan,    \* 33 ms
  MaxTime, MaxFrames, MaxRuns  \* bounds: the clock, all frames, restarts

VARIABLES
  cameras,      \* the devices that have been configured
  main,         \* main(): where it is
  run, now,     \* which run of the program this is; get_process_time_ms()
  frames,       \* frames the cameras have delivered, a bound
  ring,         \* _color_ring_buffer and its two siblings: [uid, at, n]
  tpc,          \* the three threads
  encoder,      \* [seq, last]: sequence_id, keyframe_period.last_triggered_ms_
  batch,        \* MotionEncoder's timestamps_us and samples, by uid: [at, n]
  count,        \* ghost, by motion uid: samples the ring buffer took, and published
  stop, closed, \* stop_all()'s flag; the ring buffers stopped
  sent          \* packets handed to pubsub that have not left yet

process == <<cameras, main, run, now, frames>>
encoders == <<encoder, batch, count>>
flags == <<stop, closed>>
vars == <<process, ring, tpc, encoders, flags, sent>>

Kinds == {"color", "depth", "accel", "gyro"}
Video == {"color", "depth"}
Rings == {"color", "depth", "motion"}
RingOf(kind) == IF kind \in Video THEN kind ELSE "motion"

-----------------------------------------------------------------------------
(* get_device_configurations(): of every kind the first profile, sensor by *)
(* sensor, that fits what is asked for; a camera short of a kind is left   *)
(* out.                                                                    *)
First(camera, kind) ==
  SelectInSeq(Device[camera].profiles, LAMBDA p : p.kind = kind /\ p.fits)
Profile(camera, kind) == Device[camera].profiles[First(camera, kind)]

Configured(plugged) == { c \in plugged : \A k \in Kinds : First(c, k) # 0 }

(* make_sensor_idx_to_profiles(): the sensors that are to be opened.       *)
SensorsInUse(camera) == { Profile(camera, k).sensor : k \in Kinds }

(* The unique id of a stream that is opened, and uid_to_stream_meta.       *)
Uids(kinds) == cameras \X kinds
kind_of(uid) == uid[2]

(* The phases set in main(): they spread the key frames of the streams of  *)
(* one kind over the period, and those of depth away from those of color.  *)
Rank(uid) == Cardinality({ c \in cameras : c < uid[1] })
ColorShare == IF Cardinality(cameras) > 1 THEN Period \div Cardinality(cameras) ELSE 0
Phase(uid) ==
  (Rank(uid) * Period) \div Cardinality(cameras)
    + (IF kind_of(uid) = "depth" THEN ColorShare \div 2 ELSE 0)

NewEncoders == [u \in Uids(Kinds) |-> [seq |-> 0, last |-> 0]]
NoSamples == [u \in Uids(Kinds \ Video) |-> <<>>]
NoneCounted == [u \in Uids(Kinds \ Video) |-> [taken |-> 0, out |-> 0]]

Init ==
  /\ \E plugged \in Setups : cameras = Configured(plugged)
  /\ main = "open" /\ run = 1 /\ now = 0 /\ frames = 0
  /\ ring = [r \in Rings |-> <<>>]
  /\ tpc = [r \in Rings |-> "none"]
  /\ encoder = NewEncoders /\ batch = NoSamples /\ count = NoneCounted
  /\ stop = FALSE /\ closed = FALSE
  /\ sent = <<>>

Tick ==
  /\ now < MaxTime /\ now' = now + 1
  /\ UNCHANGED <<cameras, main, run, frames, ring, tpc, encoders, flags, sent>>

-----------------------------------------------------------------------------
(* main().                                                                 *)
Main(here, there) ==
  /\ main = here /\ main' = there
  /\ UNCHANGED <<cameras, run, now, frames, ring, encoders, sent>>

(* sensor_idx_to_profiles.at() throws for a sensor nothing was chosen of.  *)
OpenSensors ==
  /\ Main("open", IF \A c \in cameras : SensorsInUse(c) = 1..Device[c].sensors
                  THEN "start" ELSE "crashed")
  /\ UNCHANGED <<tpc, flags>>

StartSensors == Main("start", "register") /\ UNCHANGED <<tpc, flags>>
RegisterCallback == Main("register", "threads") /\ UNCHANGED <<tpc, flags>>

StartThreads ==
  /\ Main("threads", "run")
  /\ tpc' = [r \in Rings |-> "loop"]
  /\ UNCHANGED flags

(* stop_all() from a signal: the flag, and what was registered by then.    *)
Interrupt ==
  /\ ~stop /\ main \notin {"crashed", "done"}
  /\ stop' = TRUE
  /\ closed' = (main \in {"threads", "run"})
  /\ UNCHANGED <<process, ring, tpc, encoders, sent>>

Join ==
  /\ stop /\ \A r \in Rings : tpc[r] = "returned"
  /\ Main("run", "done")
  /\ UNCHANGED <<tpc, flags>>

(* The process is killed, or aborts, and is started again.                 *)
Restart ==
  /\ main # "open" /\ run < MaxRuns
  /\ run' = run + 1 /\ main' = "open" /\ now' = 0
  /\ ring' = [r \in Rings |-> <<>>] /\ tpc' = [r \in Rings |-> "none"]
  /\ encoder' = NewEncoders /\ batch' = NoSamples /\ count' = NoneCounted
  /\ stop' = FALSE /\ closed' = FALSE
  /\ UNCHANGED <<cameras, frames, sent>>

-----------------------------------------------------------------------------
SensorsRunning == main \in {"register", "threads", "run"}

(* The frame callback, under the buffer's mutex: a full buffer drops it.   *)
Number(uid) == IF kind_of(uid) \in Video THEN 0 ELSE count[uid].taken + 1
Counted(uid) ==
  IF kind_of(uid) \in Video THEN count ELSE [count EXCEPT ![uid].taken = @ + 1]

FrameArrives(uid) ==
  LET r == RingOf(kind_of(uid))
      f == [uid |-> uid, at |-> now, n |-> Number(uid)] IN
  /\ SensorsRunning
  /\ frames < MaxFrames /\ frames' = frames + 1
  /\ IF Len(ring[r]) = Capacity[r] THEN UNCHANGED <<ring, count>>
     ELSE ring' = [ring EXCEPT ![r] = Append(@, f)] /\ count' = Counted(uid)
  /\ UNCHANGED <<cameras, main, run, now, tpc, encoder, batch, flags, sent>>

Thread(r, here, there) ==
  /\ main # "crashed"
  /\ tpc[r] = here /\ tpc' = [tpc EXCEPT ![r] = there]
  /\ UNCHANGED <<cameras, run, now, frames, flags>>

LoopTest(r) ==
  /\ Thread(r, "loop", IF stop THEN "returned" ELSE "read")
  /\ UNCHANGED <<main, ring, encoders, sent>>

ReadStopped(r) ==
  /\ closed
  /\ Thread(r, "read", "returned")
  /\ UNCHANGED <<main, ring, encoders, sent>>

(* ActionPeriod::should_act(): a multiple of the period has been passed.   *)
(* Mutant: more than a period has gone by.                                 *)
should_act_late(uid) == now > encoder[uid].last + Period
should_act(uid) ==
  (now + Phase(uid)) \div Period > (encoder[uid].last + Phase(uid)) \div Period

(* A first frame, a requested one and any the codec chooses are key frames.*)
IsKey(uid, requested, key) == (requested \/ encoder[uid].seq = 0) => key

(* A color packet says what was asked of the codec, a depth packet what it *)
(* did.                                                                    *)
Flag(kind, requested, key) == IF kind = "color" THEN requested ELSE key

(* process_color_frames(), process_depth_frames().  Mutant: the sequence   *)
(* id stays.                                                               *)
SameId(uid, requested) ==
  encoder' = [encoder EXCEPT ![uid].last = IF requested THEN now ELSE @]
NextId(uid, requested) ==
  encoder' = [encoder EXCEPT ![uid].seq = @ + 1,
                             ![uid].last = IF requested THEN now ELSE @]

Encode(r) ==
  LET uid == Head(ring[r]).uid
      requested == should_act(uid) IN
  /\ r \in Video /\ ring[r] # <<>> /\ ~closed
  /\ Thread(r, "read", "loop")
  /\ ring' = [ring EXCEPT ![r] = Tail(@)]
  /\ NextId(uid, requested)
  /\ \E key \in BOOLEAN :
       /\ IsKey(uid, requested, key)
       /\ sent' = Append(sent, [uid |-> uid, kind |-> r, run |-> run,
                                id |-> encoder[uid].seq, key |-> key,
                                flag |-> Flag(r, requested, key)])
  /\ UNCHANGED <<main, batch, count>>

(* The color codec may drop a frame (rc_dropframe_thresh is 1): there is   *)
(* no packet, and the null pointer is followed.                            *)
CodecDropsFrame ==
  /\ ring["color"] # <<>> /\ ~closed /\ encoder[Head(ring["color"]).uid].seq > 0
  /\ Thread("color", "read", "loop")
  /\ main' = "crashed"
  /\ UNCHANGED <<ring, encoders, sent>>

(* process_motion_frames(): samples are sent in batches.  Mutant: the      *)
(* samples sent are not cleared.                                           *)
KeepBatch(samples) == samples
ClearBatch(samples) == <<>>

Collect ==
  LET f == Head(ring["motion"])
      samples == Append(batch[f.uid], [at |-> f.at, n |-> f.n]) IN
  /\ ring["motion"] # <<>> /\ ~closed
  /\ Thread("motion", "read", "loop")
  /\ ring' = [ring EXCEPT !["motion"] = Tail(@)]
  /\ IF f.at > Head(samples).at + BatchSpan
     THEN /\ sent' = Append(sent, [uid |-> f.uid, kind |-> kind_of(f.uid), run |-> run,
                                   id |-> encoder[f.uid].seq, samples |-> samples])
          /\ encoder' = [encoder EXCEPT ![f.uid].seq = @ + 1]
          /\ batch' = [batch EXCEPT ![f.uid] = ClearBatch(samples)]
          /\ count' = [count EXCEPT ![f.uid].out = @ + Len(samples)]
     ELSE /\ batch' = [batch EXCEPT ![f.uid] = samples]
          /\ UNCHANGED <<encoder, sent, count>>
  /\ UNCHANGED main

-----------------------------------------------------------------------------
Lifecycle ==
  OpenSensors \/ StartSensors \/ RegisterCallback \/ StartThreads \/ Join
Worker(r) == LoopTest(r) \/ ReadStopped(r) \/ Encode(r) \/ (r = "motion" /\ Collect)

(* What the server does when frames of these kinds arrive.                 *)
Step(kinds) ==
  \/ Tick \/ Lifecycle \/ CodecDropsFrame \/ Interrupt \/ Restart
  \/ \E uid \in Uids(kinds) : FrameArrives(uid)
  \/ \E r \in Rings : Worker(r)

(* Packets leave in order; who gets the first is told by who composes this.*)
Leave ==
  /\ sent # <<>> /\ sent' = Tail(sent)
  /\ UNCHANGED <<process, ring, tpc, encoders, flags>>

-----------------------------------------------------------------------------
Frame == [uid : Uids(Kinds), at : Nat, n : Nat]
Sample == [at : Nat, n : Nat]

TypeOK ==
  /\ cameras \subseteq DOMAIN Device /\ run \in Nat /\ now \in Nat /\ frames \in Nat
  /\ main \in {"open", "start", "register", "threads", "run", "crashed", "done"}
  /\ \A r \in Rings : ring[r] \in Seq(Frame) /\ Len(ring[r]) <= Capacity[r]
  /\ tpc \in [Rings -> {"none", "loop", "read", "returned"}]
  /\ encoder \in [Uids(Kinds) -> [seq : Nat, last : Nat]]
  /\ batch \in [Uids(Kinds \ Video) -> Seq(Sample)]
  /\ count \in [Uids(Kinds \ Video) -> [taken : Nat, out : Nat]]
  /\ stop \in BOOLEAN /\ closed \in BOOLEAN

(* Every motion sample the ring buffer took in this run is in one place,   *)
(* and in its turn: the packets not yet on their way hold the last of the  *)
(* samples published, each packet going on where the one before it ends;   *)
(* those collected go on from there, and those waiting after them up to    *)
(* the last one taken.  None is left out, and none is there twice          *)
(* (server.cpp:317-338).                                                   *)
SentOf(uid) == { n \in DOMAIN sent : sent[n].uid = uid /\ sent[n].run = run }
WaitingOf(uid) == { n \in DOMAIN ring["motion"] : ring["motion"][n].uid = uid }

FirstOf(p) == p.samples[1].n
LastOf(p) == p.samples[Len(p.samples)].n
GoOnFrom(low, samples) == \A i \in DOMAIN samples : samples[i].n = low + i

InLine(uid) ==
  LET c == count[uid]
      collected == c.out + Len(batch[uid]) IN
  /\ GoOnFrom(c.out, batch[uid])
  /\ \A n \in SentOf(uid) :
       /\ GoOnFrom(FirstOf(sent[n]) - 1, sent[n].samples)
       /\ \A m \in SentOf(uid) : m < n => LastOf(sent[m]) < FirstOf(sent[n])
       /\ \/ LastOf(sent[n]) = c.out
          \/ \E m \in SentOf(uid) : n < m /\ FirstOf(sent[m]) = LastOf(sent[n]) + 1
  /\ \A n \in WaitingOf(uid) :
       /\ ring["motion"][n].n \in (collected + 1)..c.taken
       /\ \A m \in WaitingOf(uid) : m < n => ring["motion"][m].n < ring["motion"][n].n
  /\ \A i \in (collected + 1)..c.taken : \E n \in WaitingOf(uid) : ring["motion"][n].n = i
  /\ collected <= c.taken
SamplesInOrder == \A uid \in DOMAIN batch : InLine(uid)

(* Whenever a video frame is encoded, the last key frame asked for is less *)
(* than a period old, and none is asked for unless a time at which one is  *)
(* due has come since the last, whatever the phases (server.cpp:180-186,   *)
(* 263).                                                                   *)
DueAt(uid, t) == (t + Phase(uid)) % Period = 0
KeyframeIsDue ==
  \A uid \in Uids(Video) :
    LET last == encoder[uid].last IN
    encoder'[uid].seq > encoder[uid].seq =>
      /\ now - encoder'[uid].last < Period
      /\ encoder'[uid].last # last => \E t \in (last + 1)..now : DueAt(uid, t)

(* What stop_all() leads to, whenever it is called: main() has been left,  *)
(* and no thread stays in a buffer (server.cpp:531-583).                   *)
Stopped == stop => main \in {"done", "crashed"}

=============================================================================
