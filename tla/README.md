# A verification project for axby-core

axby-core is a C++ library for robotics programs: lock-free hand-over of data
between threads, a publish-subscribe bus on ZeroMQ, clock synchronisation over
UDP, streaming of Intel RealSense cameras, recording and playback of everything
that is published, and a viewer.  It has almost no documentation, few tests, and
most of its behaviour is in how threads, messages and frames interleave.  This
directory models that behaviour in TLA+, checks it with TLC on small instances
and proves the properties that matter most with TLAPS for all instances.

    tlc -workers 2 -config MCRingBuffer.cfg MCRingBuffer.tla    # one run
    tlapm RingBuffer_proofs.tla                                 # one proof module

`PROJECT.json` lists the runs, the lines of code each definition stands for, the
hazards of the code with the properties that would catch them, one plausible bug
(a mutant) that each property detects, and the disagreements found.

## 1. The system

### Components and their state

| component | files under `src/` | state | operations |
|---|---|---|---|
| RingBuffer | `concurrency/ring_buffer.h` | an array of slots, `head`, `tail`, `stopped`, `update_counter` | write, read, read_latest, peek_front, peek_back, clear, stop |
| Racer | `concurrency/ring_buffer.h:154` | `head`, `tail`, `update_counter` | try_advance_tail, try_advance_head (nothing instantiates it) |
| SingleItem | `concurrency/single_item.h` | three slots with unread marks, `state_idx_`, `stop_`, `update_counter_` | write, read, swap_read, stop |
| stop_all | `app/stop_all.cpp`, `app/main.cpp` | a flag, a list of callbacks under a mutex | stop_all, on_stop_all, signal handler |
| jobs | `concurrency/job_state.cpp`, `realsense_streaming/pointcloud_job.cpp`, `third_party/simple_thread_pool` | the state of a job, its input and output, a queue of closures | start, complete, reset, read_results, Push, destructors |
| pubsub | `app/pubsub.cpp` | two request queues, a clear flag, two sockets, outputs by topic prefix, the recording flag, a recorder and its buffer; threads for publishing, subscribing, recording | init, bind, connect, publish_*, publisher_requests_clear, subscribe, subscribe_latest, enable_/disable_recording, cleanup |
| recorder | `app/pubsub_recorder.cpp` | an open DuckDB log | append |
| serialization | `serialization/` | none | cbor_encode, estimate_cbor_size, serialize_cbor, cbor_decode, deserialize_cbor |
| time sync | `time_sync/` | a sliding window of round trips, a drift estimate, the offset per process; four threads and the server | send, receive, publish, subscribe, estimate_*, init, cleanup |
| realsense server | `realsense_streaming/server.cpp`, `util.cpp`, `app/timing.cpp` | ring buffers of frames, encoders with sequence ids and key frame periods, batches of motion samples | start-up, frame callback, process_*_frames |
| realsense client | `realsense_streaming/client.cpp` | per stream a decoder, the last sequence id and whether a key frame is needed; a SingleItem of results | the three threads, update_realsense_list, update_realsense_state, init, cleanup |
| log playback, seekbar | `log_viewer/` | the seekbar's position, the shared position, the playback thread's position and what is left to publish; pubsub's publish queue | play, pause, seek, the thread's queries and publications |
| viewer | `viewer/viewer.cpp`, `axgl/`, `shaders/` | camera, pick buffers, clouds, colours, tints, poses, images, models; wrappers of OpenGL's objects and its context | new_frame, update_*, set_*, draw_*, get_image, was_clicked, was_hovered |
| frame loops | `realsense_streaming/viewer.cpp`, `log_viewer/log_viewer.cpp` | known and selected devices, their last pictures, one job | a turn of the loop |
| the rest | `seq/`, `math/`, `rgbd/`, `wrappers/`, `network_config/`, `app/gui.cpp`, ... | sequential, numeric or thin wrappers | |

### How they interact

* Every hand-over between two threads is a RingBuffer (a queue) or a SingleItem
  (the newest value only).  With more than one writer the writers hold a mutex.
* Clients call pubsub from any thread; a call puts a request into a RingBuffer.
  The publisher thread sends it on a PUB socket; the subscriber thread receives
  from a SUB socket and writes copies of a message into the RingBuffer or the
  SingleItem of every subscriber whose prefix matches.
* What is published is an object encoded as CBOR, bytes, or both; the recorder
  encodes the frames of a message once more, as the blob of a log's row, and
  playback decodes that blob and publishes the frames again.
* time sync, the RealSense client and the frame loops are subscribers: each has
  threads that block on their buffers.  They are stopped by `stop_all()`, whose
  callbacks `stop()` those buffers, and joined by the component's `cleanup()`.
* The camera server numbers the packets of a stream and marks key frames; the
  client decodes from a key frame on and starts again at a gap in the numbers.
* The log viewer's playback thread reads a log and republishes it with the
  headers that were recorded, so that the rest of the program cannot tell.
* A frame loop takes pictures over from the client, has one job at a time make a
  point cloud of the selected device's last two, and calls the viewer.

### What is hard

Interleavings of unlocked threads (RingBuffer, SingleItem), lost wake-ups
(`std::atomic::wait` and condition variables), registration that races with
shutdown, a signal handler that takes a mutex, requests carried out later than
they are called, messages lost by full buffers, late subscriptions and UDP, a
server that restarts and counts from 0 again, key frames due by a clock, a
position that one thread moves and another plays up to, destruction while a
worker runs, results that arrive in the middle of a frame, state of earlier draw
calls that later ones meet, readers of another version of a class, unsigned,
narrowing and rounding arithmetic.  The list, each at its line, is under "hazards" in
`PROJECT.json`.

### What makes each component correct

| component | promise | stated as |
|---|---|---|
| RingBuffer | a bounded first-in first-out queue that can be closed | refinement of `SpscFifo` (`ImplementsFifo`), `SlotExclusive`, `StoppedReadsFail`, `OperationReturns` |
| SingleItem | each item is read at most once, and never an older one than is waiting | refinement of `LatestItem` (`ImplementsLatestItem`), `SlotExclusive`, `ReadReturns` |
| stop_all | no worker keeps reading a buffer nobody will close | `NoStrandedWorker`, `CallbacksRunOnce`, `StopReachesWorkersOrDeadlocks` |
| jobs | a job belongs to one thread at a time; results are those of the last start; destruction ends | `WorkerOwnsJob`, `ChecksHold`, `ResultsAreCurrent`, `DestructionEnds` |
| pubsub | what is published reaches all its subscribers or none, once and in order; requests take effect; cleanup returns | refinement of `Bus` (`ImplementsBus`), `BuffersInOrder`, `ClearTakesEffect`, `RequestsTakeEffect`, `CleanupReturns` |
| recorder | each message is logged at most once, in order, and comes back as it was sent | `RecordedOnce`, `LogKeepsFrames` |
| serialization | what is decoded is what was encoded; another version of a class is read up to the first field it lacks | `ReadAsWritten`, `ReaderKeepsPrefix` |
| time sync | a round trip brackets the offset; an estimate is off by no more than the width published with it and the drift; nobody is told an offset that was not published | `TripletsBracket`, `EstimateAccurate`, `ChecksHold`, `OffsetIsMine`, `InitAndCleanupReturn` |
| realsense server | key frames neither late nor early, every motion sample in its one place, an end | `KeyframeDue`, `SamplesInOrder`, `StopsWhenTold` |
| realsense client | what is shown was decoded from a key frame without a gap, and no key frame is waited for in vain | `PicturesAreSound`, `NoNeedlessResync`, `StopsWhenTold` |
| playback | between two jumps nothing is left out or repeated; the position stays in the log; playing ends, and so does the thread | `PlayedInFull`, `PositionInLog` (proved), `PlaysToEnd`, `StopsWhenTold` |
| viewer | what is drawn is what was last given (an array enabled before excepted), what is picked was drawn in the last frame, a new orbit point does not move the picture | `DrawnAsGiven`, `PickIsOfLastFrame`, `ScreenDoesNotJump` |
| frame loops | no CHECK fails, whenever a job completes; the cloud catches up | `ViewerChecksHold`, `CloudCatchesUp` |

## 2. The modules

| module | models | composed of |
|---|---|---|
| `SpscFifo` | the abstract queue | |
| `RingBuffer`, `MCRingBuffer`, `RingBuffer_proofs` | RingBuffer | implements `SpscFifo` |
| `LatestItem` | the abstract mailbox | |
| `SingleItem`, `MCSingleItem`, `SingleItem_proofs` | SingleItem | implements `LatestItem` |
| `StopAll`, `MCStopAll`, `StopAll_proofs` | stop_all, the signal handler, a registering worker | |
| `JobPool`, `JobPool_proofs` | JobState, PointCloudJob, SimpleThreadPool and a thread that starts, reads and destroys jobs | checked in `MCDisplay` |
| `Bus` | the abstract bus, as those who publish and subscribe see it | |
| `PubSub`, `MCPubSub`, `PubSub_proofs` | pubsub with its three threads, its callers and the recorder | implements `Bus`; rests on what `RingBuffer` and `SingleItem` show |
| `CborItem` | serialization: types, sizes, the buffer, numbers, byte strings, sequences and the fields of a class | |
| `Cbor` | serialization: encoder, estimate and decoder of any type | extends `CborItem` |
| `Payload` | the frames of one message, objects of a class or bytes: sent, logged, played back, received; proofs in `PubSub_proofs` | extends `CborItem` |
| `MCMessages` | the bus, and what its messages carry | `MCPubSub`, `Payload`, `Cbor` |
| `TimeSync`, `TimeSync_proofs` | the estimate: pings, pongs, window, bounds, drift rate | |
| `TimeSyncState` | the four threads from `init()` to `cleanup()`, and who is told which offset | |
| `MCTimeSync` | both | `TimeSync`, `TimeSyncState` |
| `CameraServer` | the camera server with `ActionPeriod` | |
| `StreamClient` | the client of its streams | |
| `LogPlayback` | seekbar, playback thread and pubsub's publisher thread | |
| `CameraStreams`, `CameraStreams_proofs` | packets on their way from server or recording to the client | extends `StreamClient`, with instances of `CameraServer` and `LogPlayback` |
| `MCStreams` | its values | extends `CameraStreams` |
| `Graphics`, `Shaders` | wrappers of OpenGL's objects, its context, the draw functions | |
| `Viewer`, `Viewer_proofs` | every function of the viewer | extends `Shaders`, `Graphics` |
| `FrameLoop` | the two frame loops | extends `Viewer` |
| `MCDisplay` | frame loops, viewer calls, jobs | `FrameLoop`, `JobPool` |

An MC module that composes components has several kinds of behaviour, one of
which the first state chooses (`of`, `half`, `mode`, `kind`).  Components that do
not interact (the bus does not look into a frame) are then not multiplied with
each other, while those that do (server and client, playback and client) are
composed and checked together.

### How a module corresponds to its code

**RingBuffer.**  `data`, `head`, `tail`, `stopped`, `update_counter` are the
members; `ppc`, `cpc` and `spc` say where the producer, the consumer and the
threads in `stop()` are.  Each load or store of an atomic is a step, and so is
each access to a slot.  `Call` begins any of the consumer's operations;
`LoadCounter`, `CheckStop`, `CheckEmpty` and `Wait` are
`block_until_stopped_or_nonempty()`; `TestStop`, `TestEmpty`, `SnapTail` and
`Skip` are `begin_read()` and its relatives; `Copy` and `EndRead` finish.
`late` remembers whether the operation began after `stop()`.

**SingleItem.**  Likewise; `LoadStateW`, `SwapWriteSlot` and `RetryW` are the
writer's turns of the compare-and-swap loop (which may fail spuriously),
`LoadStateR`, `SwapReadSlot` and `RetryR` the reader's.

**StopAll.**  An execution of `stop_all()` belongs to a caller or to a signal.
A signal is delivered on top of some thread, which makes no step until the
handler is done; a second signal that finds the flag up kills the process.  A
worker is time sync's subscribe thread: it registers, tests the flag, reads.

**JobPool.**  The main thread starts jobs that are idle and reads those that are
complete; at the end it destroys the jobs (in `~JobState` it waits for a started
one) and then the pool.  An input is the number of the start it was made for,
and `Run` copies it to the output.  The programs have one job and a pool of one
thread; the model has several of each, as the classes allow.  `NotifyOne` wakes
one waiting worker, any of them.

**PubSub.**  The queues are sequences and each operation on them is one step,
which `RingBufferImplementsFifo` justifies; the mutexes of the writing side make
them single-producer.  The publisher thread's loop is `PubTestStop`,
`PubTestClear`, `PubClear`, `PubUnflag`, `PubRead`, then `PubBind` or `PubSend`,
or `PubThrow` when the context has been shut down.  A message is the sequence of
the requests whose parts it consists of, so that a message that was not ended
(`partial`) can grow.  `Transmit` is ZeroMQ: it may lose any message and must lose
those nobody has subscribed to.  The subscriber thread is `SubTestStop`,
`SubTake`, `SubReceive` or `SubTimeout`, `SubRoute`; the recorder thread
`RecRead`, `RecAppend`.  Both writes to `recorder_buffer_` are part of the sending
or routing step.  A publication carries the `position` it was made at, the
number of `publisher_requests_clear()` calls before it; `overlooked` remembers that
a call came between the thread's `clear()` and its store of `false`.

**Bus.**  What is left of all this for a subscriber.  `UnderWay` maps the bus's
`pending` to whatever lies in the publish queue, with the publisher thread, in the
socket, on the wire or with the subscriber thread; `Inboxes` and `Newest` map the
buffers and items.  `Publish` is the call, `Lose` is any clear, drop, shutdown
or abort, `Subscribe` the subscriber thread's taking over of an output, `Deliver`
its loop over the outputs.  Everything else stutters.

**CborItem, Cbor, Payload.**  The template functions the compiler picks by type
are operators with the type as an argument; `CborItem` has what needs no recursion
over types, so that it can be proved about.  An encoded item is its kind and its
contents; of its bytes the number counts, because `serialize_cbor()` encodes into
a buffer of one and a half times `estimate_cbor_size()` and fails when that is too
small.  Decoding goes field by field into an object that may hold something
already, narrows integers to their width and stops at the first field whose name
is not there.  `Payload` follows one message: `add_cbor` and `add_bytes` compose
it, `append` and `unpack_frames` send it through the log, `get_cbor` reads it as a
class that may be another version of the writer's.  `write_object` and
`read_object` are the class cases written out; how a single field is encoded and
decoded is a parameter (`encode_field`, `decode_field`), to which the run gives
what `Cbor` says.  What objects ask of it is stated as `FieldsRoundTrip` and
`FieldsAgree`, and `MCMessages` checks both, and compares objects
(`ObjectsAssumption`) and the frames of a log's row (`FramesAssumption`) with what
`Cbor` says of those types as a whole.

**TimeSync.**  Pings and pongs stay in their sets for ever: one that is never
taken is lost, one taken twice is duplicated, and the order is free.  The clocks
advance together or apart, within `MaxSkew`.  `BeginRound`, `AddSample`,
`RemoveOldSamples` and `Estimate` are `process_ingest_buffer()`, during which
packets go on arriving; `RaiseDrift` and `PublishState` are its two outcomes.
Integer division and the truncating products of the drift rate are the code's.
A pong carries a ghost, the true offset when the server stamped it.

**TimeSyncState.**  An estimate is told apart by its publisher.  The subscriber's
`StoreState`, `StoreOffset` and `StoreGot` are separate stores, and a caller's
`LoadGot` and `LoadOffset` separate loads.  `Connected`, `TimeOut` and `Verdict` are
the end of `init()`, where a pong may still arrive after the last look.

**CameraServer.**  `OpenSensors` to `StartThreads` are `main()`; cameras deliver as
soon as they are started, a signal may come at any point.  `Encode` is a turn of the
colour or the depth thread, `Collect` one of the motion thread.  Codecs are
external: any frame may become a key frame, one that is asked for does.
A motion sample bears its number among those of its stream that the ring buffer
took, and `count` how many these are and how many have been published: ghosts, by
which `SamplesInOrder` tells a sample that is lost or sent twice.
`Restart` ends the process anywhere and starts it again, with ids from 0.

**StreamClient.**  `SkipPacket`, `Decode`, `Refuse` and `TakeMotion` are turns of the
three threads.  A decoder is told apart by the packet it took last, whether its
picture is what the server saw (`good`) and whether it was given a packet of
another run of the server as the next one (`mixed`).  A decoder may refuse what
does not follow: the depth thread starts again, the colour thread's CHECK ends
the process.  `UpdateState` takes the items, as the frame loop does.

**LogPlayback.**  `Frame` is the seekbar's part of a turn of the frame loop: keys,
time, button, slider, and the store of the shared position.  `Float` is what the
addition of `seekbar.cpp:34` does, which is one of floats: beyond `Precision` the
position and the sum are rounded to multiples of a distance that doubles with
every power of two.  The playback thread
is `ReadPosition`, then `RequestClear`, `FindSegments`, `StartHere` after a jump,
and `Query`, `PublishRow`, `EndTurn`; the position is read once per turn and may
move meanwhile.  The queries are operators over the log, and their topics come in
any order, as a table's do.  A row that finds the publish queue full ends the
process (`aborted`).  The publisher thread's loop is `TestStop`, `TestClear`,
`ClearQueue`, `Unflag`, `Send`: a call of `publisher_requests_clear()` is carried out
when it comes round, one more request is sent if it waits in its read, and after
`stop_all()` it leaves and nobody drains the queue.  A composition says where `Send`
sends to (`CameraStreams`: to the client, in mode `watch`).

**Viewer.**  The namespace's variables are one record, and each function an operator
from the record before the call to the one after it, so that a frame is a chain of
calls; a CHECK that fails sets `failed`.  Space is a plane: a pose is a number of
quarter turns and a position, which keeps what matters about the camera, that
turning and moving do not commute.  The picture is what each draw call is given
to draw, the pick buffers what has been drawn into them and in which frame.
An image remembers in a ghost (`last`) the pixels it was given, to be compared with
those in the texture its handle names.
`Graphics` keeps the context's own state (bound frame buffer, viewport, generic
attributes) apart from a vertex array's, because that difference is what a draw
call can get wrong.

**FrameLoop.**  One action per stretch of the loop between two points where another
thread matters: a picture may arrive or the job complete anywhere in between.
Windows are reduced to what they ask of the viewer and to the selection.

### The memory model

A step is one access, and accesses of all threads are interleaved: sequential
consistency.  RingBuffer's atomics are accessed with the default order or with
release increments and acquire waits of one counter, each of which is followed or
preceded by sequentially consistent accesses to `tail` and `stopped`; SingleItem
loads `state_idx_` relaxed, but only as the expected value of a compare-and-swap
that is ordered.  Slots are plain memory: `SlotExclusive` says there is no data
race on them.  The relaxed flag of `stop_all()` is read in loops and guards no
data.  Executions that only a weaker memory model allows are not modelled.

## 3. The runs

| run | instance | shows |
|---|---|---|
| `ring_buffer` | 3 slots, 2 items, 1 stopping thread, 3 updates | no shared slot, no read after stop, implements `SpscFifo`; operations that need not wait return, so no wake-up is lost |
| `single_item` | 2 items, 2 updates | no shared slot, implements `LatestItem`; reads that need not wait return |
| `stop_all` | 2 workers, 2 callers, 2 signals | no stranded worker, callbacks run once; a stop reaches every worker unless a handler waits for its own thread |
| `stop_all_signal` | 2 workers, 1 caller, 1 signal | **violation**: the handler deadlocks with its own thread |
| `pubsub` | 1 local and 1 remote publisher with 2 messages each, 2 topics, a buffer and an item, queues of 2; or one message of objects or up to 26 frames, straight or through the log | order without duplicates, implements `Bus`; objects are read as they were written, logs keep frames of 4 bytes or more, readers of another version get the fields up to the first missing one |
| `pubsub_requests` | 1 local and 1 remote publisher with 1 message each, an item, 2 clears, 1 recording session | after a clear nothing older is pending unless it was overlooked, each message is logged once and in order, requests take effect, cleanup returns |
| `pubsub_seek` | 1 local and 1 remote publisher with 2 messages each, 1 clear | **violation**: a clear drops later publications |
| `pubsub_parts` | publications with 0 or 1 frames, 2 topics | **violation**: a message is glued to the next one |
| `time_sync` | 2 pings, 2 replies, 2 receipts, clocks of 2 units that stray by 1; or the threads with 2 other processes | bounds hold, estimates are accurate, CHECKs hold; nobody is told an offset not published; `init()` and `cleanup()` return |
| `streams` | cameras of four makes, 3 frames, 2 runs of the server; a log of 8 rows on 2 topics, 2 actions of the user, frames of 1 or 2 ms, a publish queue of 2; a client of either | pictures are sound, every sample is in its one place, key frames are due, no needless wait for one, everything on the way is played, playing ends, everything stops when told or a full queue aborts the process |
| `display` | 2 devices, 4 pictures, 1 change of the selection; calls about four things; 3 jobs, 2 workers, 2 starts of each | workers own their jobs, results are current, CHECKs hold, draws and picks are right, the picture does not jump, the cloud catches up, destruction ends |
| `display_empty` | the two frame loops | **violation**: an empty cloud leaves its vertex array with an alpha that later clouds read |

### Bounds, and why they are enough

* RingBuffer: no write begins once `update_counter` has reached `MaxUpdates`.  A
  ring of 3 slots wraps with the third write, is full with two items, and leaves
  the producer a slot to fill beside the one being read.  Two distinct items tell
  an old one from a new one.  The proofs cover every size, every number of stopping
  threads, and every value of the bound.
* SingleItem: likewise.  Reads swap slots whether or not there is anything new, so
  two writes, before or after any number of reads, pass every edge of the table of
  six states.  The proofs cover every value of the bound.
* StopAll: two workers and two executions of `stop_all()` are enough for one to
  register between the flag and the loop of the other; two signals, so that one
  can interrupt the handling of the other or end the process.
* JobPool: with three jobs on two workers one job waits in the queue; a second
  start meets results of the first.
* PubSub: every queue can fill up: two publications and the bind request in a
  queue of two (the CHECK then ends the program, `aborted`), a connect and two
  subscriptions in a queue of two, up to four messages in a buffer of two.  The
  clears, the session and the shutdown come at any moment; the second clear can
  come while the first is being carried out.  `RecordedOnce` is checked for
  publications with a header of their own (`Headers`): a republished header bears a
  foreign process id, by which a local message is taken for a remote one.
* Payload: the class of the serialization tests and some fifteen versions of it (a
  field added, left out or changed in front, in the middle or at the end, fields
  reversed, narrower or longer types), objects with empty, short and long texts
  and containers, frames of 0, 3, 4 and 300 bytes, one or 24 of them: either side
  of every header size up to 16 bits.  Numbers stay below 2^31.
* TimeSync: a unit of the clock stands for a microsecond and, where the code
  divides, for its share of a second or a millisecond, so that both roundings occur
  within two units.  Two samples are the least that can contradict each other; an
  ingest buffer of one slot overflows; `MaxRate` is reached and the rate falls
  to 0.  The proofs of `TimeSync` cover all values of
  its constants.
* Streams: one kind of stream is at work at a time (`focus`), because its thread,
  buffer and context are its own; threads with nothing to do have come to wait
  before others start.  A buffer of one message loses the second; three frames give
  a key frame, a successor and a gap, two runs of the server a packet of the new
  one that bears the expected id.  Two cameras have different phases, one of three
  lacks a gyroscope and is left out, one has a sensor that goes unused.  The period is two units
  of time, so that phases round.
* Playback: the log has key frames at its start and later, two topics of video,
  rows just before, at and just after the places the user can jump to, and one in
  the millisecond that its end cuts off; unsigned positions wrap at 16.  Two actions
  make a jump during another, or a pause during playing.  Floats are exact below
  `Precision` = 4, which stands for 2^24 ms: the end of the log, at 5, lies where
  they are 2 apart, and frames of 1 ms are half of that, frames of 2 ms all of it.
  The queue of 2 stands for one of 1023: five rows follow each other when a
  jump goes to the end, so that it fills up before or after the publisher thread
  has left, or does not.  Turns of the frame loop come when the playback
  thread is about to read the position, which is all it has of them.  Played
  without a client (`focus` is empty) a recording meets every order of the stop, the
  playback and the publisher thread; with one, the user has the keyboard alone and
  the publisher thread comes to wait first.
* Display: four pictures give each of two devices one of either kind, or one
  device two of both; one click changes the device under a running job.  The camera
  moves within `Reach` of the origin, in any of the four directions.  Clouds have 0
  or 1 points, lines and images 1 or 2, enough for all three ways of telling colours
  from their number.  The frame counter wraps at 2, so that it passes the value
  that means "first frame".

No run uses symmetry, as most of them check liveness too.  Deadlock checking is
off because each of these systems may stop: callers need not call again, threads
exit, counters reach their bound.  That nobody waits for ever is what the
liveness properties check instead.

### Fairness

Weak fairness of each thread's own steps, nothing more: the operating system
runs every runnable thread.  Nobody is obliged to call an operation, publish,
subscribe, send a signal, press a key, deliver a packet or quit; those actions
are not fair, nor are cameras and networks.  In SingleItem a weak
compare-and-swap does not fail spuriously for ever.  In `StopAll` each thread takes
the mutex once, so weak fairness is enough for whoever waits.  Timeouts (of a
receive, of `select()`, of `init()`'s three seconds) are fair because the clock goes
on.  In `MCStreams` a turn of the frame loop in which the user does nothing is fair, as
the loop is driven by the display, and so are the steps of the playback and of the
publisher thread; turns that take more than half the distance of the floats at the
end of the log keep coming, among shorter ones, without which `PlaysToEnd` would
fail (section 5).  In `FrameLoop` a turn goes on
(`Onward`) unless a CHECK has failed or the program quit, and the worker
completes its job.

## 4. The proofs

All are invariants, action properties or refinements of the full specifications,
for every value of the constants, under the assumptions named in the modules and
the hypotheses named in the theorems; "Assumptions" below says why the code
justifies each.

| theorem | module | argument |
|---|---|---|
| `TypeCorrect` | all but `PubSub_proofs` and `Viewer_proofs` | alone, or with the invariant of the next rows |
| `SlotsAreExclusive`, `ChecksAlwaysHold` | `RingBuffer_proofs` | `IndexInv`: between `full()` and the store of the tail there is room (`RoomInv`); between the test of emptiness and `end_read()` there is an item (`LocationInv`); a snapshot of the tail lies between head and tail (`SnapInv`).  `SlotExclusive` alone is not inductive: nothing in it says that the test that came first still holds |
| `WakeupIsNeverLost` | `RingBuffer_proofs`, `SingleItem_proofs` | `WakeInv`: a consumer that has loaded the counter and seen nothing either still has the current value, so that the wait returns after the next bump, or a bump or notification is pending |
| `StopIsFinal` | `RingBuffer_proofs` | `LateInv`: `late` implies `stopped` |
| `RingBufferImplementsFifo` | `RingBuffer_proofs` | the queue is the slots from head up to tail; lemmas about that mapping (`QueueAppend`, `QueueDrop`) reduce each step to one of `SpscFifo` or a stutter |
| `SlotsAreExclusive` | `SingleItem_proofs` | `IInv`: the state index stays in the table (`Desired` never leaves it), the slot each thread has looked up keeps its role across the other's swap |
| `SingleItemImplementsLatestItem` | `SingleItem_proofs` | `UnreadInv` and `WriteInv`: only the 0 slot and the slot in hand can be unread, so the mailbox is the 0 slot |
| `NobodyIsStranded`, `NoCallbackRunsTwice` | `StopAll_proofs` | `MutexInv` (who is in a critical section holds the mutex), `ListInv` (a callback is on the list at most once, and not after it has run), `StrandInv` (whoever registered is on the list, has run, or the flag is down or a loop that will find it is to come) |
| `WorkerOwnsItsJob`, `NoCheckFails`, `ResultsBelong` | `JobPool_proofs` | `OneAtATime` (a job is in the queue or with a worker, once in all), `StateFits` (and is started meanwhile), `OutputFits` (a complete job's output is its input) |
| `ClearIsCarriedOut` | `PubSub_proofs` | `ClearedUnlessOverlooked`: at each place of the publisher thread's loop, either the flag is up, or the queue holds nothing made before the last clear, or that clear was overlooked |
| `SubscribersSeeOrder`, `ItemsNeverGoBack` | `PubSub_proofs` | `OInv`: a message goes queue, socket, wire, hand, buffer.  `QueueInOrder`: requests of a caller are queued in their order; `AllSent`: what is farther on the way is earlier than what is queued; `WayInOrder`: each stretch is sorted and earlier than the stretches before it.  The property speaks of the last stretch only |
| `PubSubImplementsBus` | `PubSub_proofs` | `OInv` and `SubType`.  A step that only moves a publication on leaves `UnderWay` alone; one that drops some is `Lose` (`BusLose`).  `SubRoute` is the `Deliver` of the message in hand (`BusDeliver`): by `WayInOrder` all that is left behind it of the same publisher is later, which is what the bus requires |
| `NothingRecordedTwice` | `PubSub_proofs` | `RInv` adds to `OInv` that what is in the log, with the recorder and in its buffer is sorted (`RecordInOrder`), that who published a message can be told by its header (`AllSigned`), and that a message of another process still on the wire is later than all of its sender that is recorded (`RecordedFirst`).  A message is recorded where it is sent if it is the process's own and where it arrives if it is not, and these two come together only through the header |
| `LogIsFaithful` | `PubSub_proofs` | a frame of n >= 4 bytes takes at most n + 9 bytes and leaves one of its 1.5 n to spare (`FrameToSpare`), a list's header takes no more than one for each frame (`HeaderToSpare`), so that for any number of frames the blob fits (`FramesFit`, `LogFits`) and is decoded to what it was (`LogReads`).  `FramesFit` goes by induction over the number of frames, which is written as the least counterexample (`Least`).  `PayloadInv` says of every stage what has been made of the frames so far |
| `ObjectsSurvive`, `VersionsKeepPrefix` | `PubSub_proofs` | from the same invariant: what was sent is the object's one frame (`ObjectSent`), and what is received is read from it (`AtReceiver`).  Names being distinct, a reader finds under a field's name what the writer put there (`FieldIsFound`, `FieldsAreRead`), and goes on up to the first field that fails (`ClassIsDecoded`).  For another version, the first field that does not fit is reached because all before it do (the least one, by `Least`), and a field after a missing one is not |
| `RoundTripsBracketOffset`, `ChecksAlwaysHold` | `TimeSync_proofs` | `Answered`, `Returned`: in the server's reply the send time is no later, and in a sample the receive time no earlier, than the client's clock was when the server stamped it; clocks do not go back |
| `EstimatesAreAccurate` | `TimeSync_proofs` | from the brackets: each of the merged bounds is that of some sample, off by at most that sample's drift, and widening is never negative |
| `OffsetToldIsMine` | `TimeSync_proofs` | `Told`: from the subscriber's test of the sender on, through the separate stores of offset and flag, the offset is this process's, and whoever has loaded the flag can rely on it |
| `PicturesSound`, `AbortsExplained` | `CameraStreams_proofs` | of the client alone, whatever packets come: `ContextsKept`: a context that needs no key frame has taken the packet whose id it holds and is sound; lemmas for the gap test and for taking a packet |
| `KeyframesAreDue` | `CameraStreams_proofs` | `ServerType`; what is left is arithmetic, that the phases of any number of cameras stay below the period, so that the last key frame asked for is less than a period old, and that a quotient which has grown passed a multiple of the period (`OnePassed`), so that none is asked for before its time |
| `SamplesAreInOrder` | `CameraStreams_proofs` | `ServerInv`: the numbers of a sensor's samples stand in a line (`Line`): the packets not yet on their way, each going on where the one before ends, then the batch, then the ring, up to the last one taken |
| `PlaybackIsComplete` | `CameraStreams_proofs` | `PlaybackInv`: at each place of the playback thread's loop (`Thorough`) it says which rows make up what is due, published and still to be published; after a jump it is topic by topic (`OneByOne`), afterwards in the order of the log (`Leads`) |
| `PositionStays` | `CameraStreams_proofs` | from `PlaybackType`, in which the seekbar's position is at most the end of the log: a jump back from below the jump's length is caught by the comparison, and a sum beyond the end by the other, rounded or not |
| `NoResyncIsNeedless` | `CameraStreams_proofs` | `LiveInv`, of server and client together: of each stream the packets the client has not read are the last ones sent, without a gap (`Pending`), and its context waits for the first of them (`WaitsFor`) |
| `ClientIsFed`, `FedPicturesSound` | `CameraStreams_proofs` | what server and playback hand to the bus are packets, so the composition implements the client alone, and `PicturesSound` carries over |
| `ScreenNeverJumps` | `Viewer_proofs` | turning is linear and `inverse` its own inverse, so that in `set_pt_world_orbit()` the movement cancels against the offset (`OrbitMoves`); all other calls but the mouse's and `set_tx_camera_world()` leave pose and offset alone |
| `PickedWasDrawn` | `Viewer_proofs` | `PickInv`: the pick buffers hold what was drawn since they were cleared in this frame, the answer read from them is of the frame before, and there is none before the first frame that is shown |
| `DrawnIsGiven` | `Viewer_proofs` | `DrawInv`, `Sound`: whatever has been kept for a thing (points, colors, array, image) is complete and of its kind, and a texture holds the pixels last given, so that each draw call finds or sets up what it is about to use.  An array that an earlier call enabled and this one does not set is excepted, as the code reads it (section 5) |
| `LoopsFailNoCheck` | `Viewer_proofs` | `LoopSound`: in a frame loop, moreover, colors are as many as the points, and an image keeps type and channels for good.  Only the loops keep this: other programs may call what makes a CHECK fail |

The theorems of `Viewer_proofs` are about a program that makes any calls of the
viewer and about the two frame loops (`Display`, which the run `display` checks).

### Assumptions

* Distinct constants, at least two slots in a ring, clocks that start at natural
  numbers.
* `NothingRecordedTwice`: `Headers \subseteq {"new"}`, all headers are the
  process's own.  This is so in every program but the log viewer: without it the
  claim is false, as a republished message bears the id of the process it was
  recorded in and is recorded once where it is sent and once where it arrives.
* `LogIsFaithful`: the frames have four bytes or more, as the property says; with
  shorter ones the recorder aborts (section 5).  `SizeAssumption` says that sizes
  are natural numbers, `ClassAssumption` that a class's fields have names of their
  own and its objects a value for each; the bounds of section 3 on numbers and
  frames do not matter here.
* `FieldsRoundTrip` (`ObjectsSurvive`), `FieldsAgree` (`VersionsKeepPrefix`): the
  types of the fields, nested to any depth, are decoded as they were encoded.
  TLC checks both for the classes of `MCMessages`, in the run `pubsub`.
* The theorems about `StreamsSpec` cover the run `streams`: its `MCSpec` chooses
  among the same steps, so that some threads come to rest before others start.
* `ServerAssumption`: finitely many cameras are plugged in, the period is not 0.
  `PlaybackAssumption`: recorded times are positive, as they are counted from
  the start of the recording process; the user's range is within the numbers.
* `NothingLeftOut` (`ClientIsFed`, `FedPicturesSound`): the client's constants
  admit every packet that server and recording can produce.  The run's do not:
  they are finite.
* `InPlane`, `CountsAreNumbers`, `Typed` (`Viewer_proofs`): things, camera and
  mouse are in the plane, sizes and counts are numbers, the cloud and the images
  of the frame loops are things.  `NoneIsNothing`: the value for what is not there
  is none of the data.

### Only model-checked

* Liveness under fairness (`OperationReturns`, `ReadReturns`,
  `StopReachesWorkersOrDeadlocks`, `RequestsTakeEffect`, `CleanupReturns`,
  `InitAndCleanupReturn`, `PlaysToEnd`, `StopsWhenTold`, `CloudCatchesUp`,
  `DestructionEnds`): it needs ENABLED, which is out of the prover's reach.
* `FieldsRoundTrip` and `FieldsAgree`, the hypotheses of `ObjectsSurvive` and
  `VersionsKeepPrefix`: `Cbor`'s encoder and decoder are RECURSIVE over types nested
  in each other, and tlapm has neither such operators nor that induction.  What is
  made of the fields of one object, however many, is proved.

Every other property of the passing runs is stated by a theorem.  The type
invariants, RingBuffer's CHECKs, both statements about wake-ups,
`AbortsOnlyWhenMixed` and `PositionInLog` are proved, and no run repeats them.

## 5. What was found

Each of the first four is a run whose property TLC finds violated.

1. **The signal handler can deadlock** (`stop_all.cpp:16`, `stop_all_signal`).
   `stop_all()` locks a mutex in a signal handler; if the interrupted thread holds
   it, nothing stops.  Short of that a stop does reach every worker:
   `StopReachesWorkersOrDeadlocks` holds with two signals.
2. **Seeking drops what it should show** (`pubsub.cpp:70`, `pubsub_seek`).
   `publisher_requests_clear()` is carried out when the publisher thread next
   comes round its loop, and drops the keyframes published in the meantime.
3. **A publication without frames is glued to the next one** (`pubsub.cpp:111`,
   `pubsub_parts`).
4. **An empty cloud changes how later ones are drawn** (`viewer.cpp:510`,
   `display_empty`).  No colours are as many as four per point of no points: the
   cloud counts as one with alpha, an array stays enabled in its vertex array,
   and the alpha of later clouds is read from colours that have none.

Met while modelling, and not the subject of a run.  Bus and messages:

* A clear can be lost between the publisher thread's `clear()` for an earlier one
  and its store of `false` (`pubsub.cpp:71`); what was published between the two
  calls stays pending.  `overlooked` says that this has happened; without that
  disjunct `ClearTakesEffect` fails after two calls.
* A message that is recorded aborts the process if it has no frames or short
  ones: the estimate of a list leaves out the headers (`pubsub_recorder.cpp:101`,
  `make_serializable.hpp:201`).  Frames of up to two bytes never fit, of three only
  in company, of four or more always; hence the condition of `LogKeepsFrames`.
* `add_cbor()` ignores that an object did not fit (`pubsub.h:48`); the receiver
  of the empty frame aborts.
* A field that is missing is logged, but `deserialize_cbor()` returns true
  (`make_serializable.hpp:381`): `ReaderKeepsPrefix` says what the reader has then.
* `Racer` waits once instead of in a loop (`ring_buffer.h:180`): an update whose
  counter increment arrives after its tail was seen ends the next wait on an empty
  buffer, against the CHECK on line 188.  Nothing instantiates the template.

Clocks, streams and playback:

* The drift rate is an unsigned integer multiplied by 0.9 (`time_sync.cpp:298`):
  it sinks to 0 and doubling it leaves it there.
* A packet of a restarted server that bears the next id is decoded as a successor;
  the picture is then wrong, or the colour decoder's CHECK fails (`mixed`).
* The seekbar's position, an `int`, is advanced by `uint64_t * float`
  (`seekbar.cpp:34`), so that position and time are added as floats.  Where these
  are two frame times apart or more, the sum is rounded to the position again, in
  every frame: frames of 1 ms stand still 4.66 hours into a log, frames of 16 ms
  after 74.6 hours.  Before that, time goes by faster or slower than it should.
* The first colour frame is a key frame that does not say so, so that clients
  wait for the next one; the colour codec may drop a frame, whose packet is then
  a null pointer (`server.cpp:230`); a camera with a sensor of which nothing was
  chosen ends the server (`sensor_idx_to_profiles.at()`).
* After a jump the last millisecond before the target is published twice; a
  row that finds the publish queue full aborts the process, and after `stop_all()`
  nobody drains it (`pubsub.cpp:68`, `398`), so that `StopsWhenTold` allows for it;
  the log viewer's loop tests only whether its window was closed.

Viewer:

* Generic attributes belong to the context and not to a vertex array, so that the
  colour `draw_colored_vertices()` sets overrides the callers': cones are always
  red, and a model without colours has that of the last call.  `draw_cone()` draws the
  common cone instead of the one it has set up.  Tints exchange blue and green
  (`colored_vertices.cpp:33`).  `enable_attrib()` disables one
  (`vertex_array.cpp:121`).
* The RealSense viewer reads a job's results only with a new frame of the selected
  device, and shows the cloud of the device before for a while; the log viewer
  wants both pictures new.  Hence `CloudCatchesUp` asks for one of the last two
  pictures, and of the log viewer only.
* A pick's index may lie beyond a cloud that has shrunk since.
* `FrameBuffer` ignores `with_depth`, and its depth buffer keeps the first size;
  `ImGui::End()` is called only if `Begin()` returned true; `rgbd.cpp` compares a
  column with the width by `>`.

## 6. Not modelled, and why

Pixels, codecs, camera and database libraries, OpenGL and ImGui: external or
pure computation.  ZeroMQ, tinycbor, the C++ runtime's waits and mutexes: modelled
by their contracts as the code uses them.  Floating-point averages
(`FrequencyCalculator`, `FpsThrottler`) and geometry (`math/`, `rgbd/`): no
integers to check; of the viewer's geometry what quarter turns of a plane show.
The layout of windows, and `app/gui.cpp`, which has no protocol of its own.
The columns of the log beside topic, time, flag and frames, and its metadata.
Exceptions thrown by `bind` on an address in use: the thread would return as
after a shutdown.  Configuration lookups: read once at start.  Sequential
containers (`seq/`, `fast_resizable_vector/`) and the wrappers in `wrappers/`.
The C version of the time server, which answers like the other.  `bool`, which
can be encoded and not decoded.  `Racer`: dead code.

## 7. Plan

The modules were written in this order: RingBuffer and SingleItem with their
abstract specifications (everything else is built on them), StopAll, JobPool,
PubSub, TimeSync, the streams, serialization, the viewer and the frame loops; then
the proofs, in the same order, the recorder's and the log's last.

What is left, most useful first:

1. TimeSync and the streams on top of `Bus` instead of sets and channels of their
   own, as `PubSubImplementsBus` now allows.
2. Playback and the bus in one run, so that a jump meets the late clear; the
   finding `pubsub_seek` shows it of the bus alone.
3. The containers of `seq/` as algorithms against reference definitions.
