---------------------------- MODULE LogPlayback ----------------------------
(***************************************************************************)
(* log_viewer: the frame loop moves a position through a recording (log_   *)
(* viewer.cpp and seekbar.cpp), and the playback thread publishes what was *)
(* recorded on the way to it, again and again; after a jump it goes back   *)
(* to the last key frame of each video topic first.  What it publishes     *)
(* goes through the queue of pubsub's publisher thread.                    *)
(***************************************************************************)
EXTENDS Integers, Sequences

CONSTANTS
  log,          \* what was recorded, in order: [topic, at, flag, message], at in
                \* microseconds; its indices are the message ids
  Videos,       \* the topics realsense/depth/... and realsense/color/...
  UsPerMs,      \* 1000
  KeySpan,      \* 2e6 us: how far back a key frame is looked for
  Jump,         \* 1000 ms: a longer way is not played through
  SeekJump,     \* 2000 ms: the arrow keys
  Wrap,         \* 2^64
  MinMs, MaxMs, \* Seekbar::min_timestamp_ms, max_timestamp_ms
  Precision,    \* 2^24: up to there a float tells the integers apart
  QueueCapacity,\* 1023, the requests pubsub's publish queue holds
  MaxActs       \* bound on what the user does

VARIABLES
  seekbar,      \* Seekbar: [current, playing, timed]; timed: last_play_time_ms is set
  shared,       \* _playback_timestamp_ms
  acts,         \* what the user has done, a bound
  stop,         \* stop_all()'s flag
  ppc,          \* playback thread: where it is
  position, target,  \* playback_timestamp_ms, new_playback_timestamp_ms
  segments,     \* the results still to come after a jump, one a topic
  todo,         \* the rows of a result still to be published
  qpc,          \* publisher thread of pubsub: where it is
  queue, clear, \* its publisher_requests_, publisher_requests_clear_
  aborted,      \* a CHECK has failed, and the process is gone
  since, origin \* ghosts: rows published since the last jump, and where it went

loop == <<seekbar, shared, acts>>
thread == <<ppc, position, target, segments, todo, since, origin>>
publisher == <<qpc, queue, clear>>
vars == <<loop, stop, thread, publisher, aborted>>

Init ==
  /\ seekbar = [current |-> 0, playing |-> FALSE, timed |-> FALSE]
  /\ shared = 0 /\ acts = 0
  /\ stop = FALSE
  /\ ppc = "read" /\ position = 0 /\ target = 0
  /\ segments = {} /\ todo = {}
  /\ qpc = "loop" /\ queue = <<>> /\ clear = FALSE /\ aborted = FALSE
  /\ since = <<>> /\ origin = 0

-----------------------------------------------------------------------------
(* seekbar.cpp.                                                            *)
jump_playing_time(s, ms) == [s EXCEPT !.current = ms, !.timed = FALSE]
start_playing(s) == [s EXCEPT !.playing = TRUE, !.timed = FALSE]
stop_playing(s) == [s EXCEPT !.playing = FALSE, !.timed = FALSE]
Toggled(s) == IF s.playing THEN stop_playing(s) ELSE start_playing(s)

Minimum(a, b) == IF a < b THEN a ELSE b

(* In 64 bits.                                                             *)
Earlier(ms) ==
  LET e == (ms - SeekJump) % Wrap IN IF e > ms THEN 0 ELSE e

handle_playback_control(s, keys) ==
  LET a == IF "space" \in keys THEN Toggled(s) ELSE s
      b == IF "right" \in keys
           THEN jump_playing_time(a, Minimum(MaxMs, a.current + SeekJump)) ELSE a
  IN IF "left" \in keys THEN jump_playing_time(b, Earlier(b.current)) ELSE b

(* An integer as a float, and back: beyond Precision the nearest multiple  *)
(* of the distance between the floats there, the even one of two; an int   *)
(* is less than 128 times 2^24.                                            *)
Distances == {2, 4, 8, 16, 32, 64, 128}
Distance(x) ==
  CHOOSE d \in Distances : /\ x < Precision * d \/ d = 128
                           /\ \A e \in Distances : e < d => x >= Precision * e
Nearest(x, d) ==
  LET below == x \div d
      over == 2 * (x % d)
  IN d * (IF over > d \/ (over = d /\ below % 2 = 1) THEN below + 1 ELSE below)
Float(x) == IF x < Precision THEN x ELSE Nearest(x, Distance(x))

(* int += uint64_t * float adds floats.  Nothing in the repository sets    *)
(* auto_playback_stop_ms or playback_speed, which is 1.  Mutant: playing   *)
(* goes on at the end of the log.                                          *)
PlayOn(s) == [s EXCEPT !.current = MaxMs]
AtEnd(s) == stop_playing([s EXCEPT !.current = MaxMs])
update_playing(s, elapsed) ==
  LET moved == [s EXCEPT !.current = IF s.timed THEN Float(Float(@) + elapsed) ELSE @,
                         !.timed = TRUE]
  IN IF ~s.playing THEN s
     ELSE IF moved.current > MaxMs THEN AtEnd(moved) ELSE moved

(* make_seekbar(): what the button and the slider may be used for.         *)
InRange(s) == IF s.current < MinMs THEN [s EXCEPT !.current = MinMs] ELSE s
Seeked(s, click, slide) ==
  LET a == IF click THEN Toggled(InRange(s)) ELSE InRange(s)
  IN IF slide \in MinMs..MaxMs THEN jump_playing_time(a, slide) ELSE a

(* One turn of the frame loop: slide = 0 - 1 leaves the slider alone.      *)
Frame(keys, elapsed, click, slide) ==
  /\ ~stop /\ ~aborted
  /\ acts' = IF keys = {} /\ ~click /\ slide < 0 THEN acts ELSE acts + 1
  /\ acts' <= MaxActs
  /\ \E s \in {update_playing(handle_playback_control(seekbar, keys), elapsed)} :
       shared' = s.current /\ seekbar' = Seeked(s, click, slide)
  /\ UNCHANGED <<stop, thread, publisher, aborted>>

Quit ==
  /\ ~stop /\ ~aborted /\ stop' = TRUE
  /\ UNCHANGED <<loop, thread, publisher, aborted>>

-----------------------------------------------------------------------------
(* run_playback_thread().                                                  *)
(* find_keyframe_message_ids(): the latest of each video topic, or none.   *)
KeyFrames(topic, ms) ==
  { i \in DOMAIN log : /\ topic \in Videos /\ log[i].topic = topic /\ log[i].flag
                       /\ log[i].at + KeySpan > ms * UsPerMs
                       /\ log[i].at < ms * UsPerMs }
Latest(ids) == CHOOSE i \in ids : \A j \in ids : j <= i

(* The results of the queries: rows in the order of their times.          *)
Segment(topic, ms) ==
  { i \in DOMAIN log : /\ i >= Latest(KeyFrames(topic, ms))
                       /\ log[i].at < ms * UsPerMs /\ log[i].topic = topic }
Segments(ms) == { Segment(t, ms) : t \in { v \in Videos : KeyFrames(v, ms) # {} } }

(* Mutant: the end of the way left out.                                    *)
ShorterWay(a, b) ==
  { i \in DOMAIN log : a * UsPerMs < log[i].at /\ log[i].at < b * UsPerMs }
Way(a, b) ==
  { i \in DOMAIN log : a * UsPerMs < log[i].at /\ log[i].at <= b * UsPerMs }

NeedInitialize(new) == new < position \/ new > position + Jump

Playback(here, there) ==
  /\ ~aborted
  /\ ppc = here /\ ppc' = there
  /\ UNCHANGED <<loop, stop, qpc>>

Going == ~stop
ReadPosition ==
  /\ Going
  /\ Playback("read", IF NeedInitialize(shared) THEN "clear" ELSE "query")
  /\ target' = shared
  /\ UNCHANGED <<position, segments, todo, since, origin, queue, clear, aborted>>

StopPlayback ==
  /\ stop /\ Playback("read", "returned")
  /\ UNCHANGED <<position, target, segments, todo, since, origin, queue, clear, aborted>>

RequestClear ==
  /\ Playback("clear", "find")
  /\ clear' = TRUE
  /\ UNCHANGED <<position, target, segments, todo, since, origin, queue, aborted>>

FindSegments ==
  /\ Playback("find", "segments")
  /\ segments' = Segments(target)
  /\ since' = <<>> /\ origin' = target
  /\ UNCHANGED <<position, target, todo, queue, clear, aborted>>

NextSegment ==
  /\ todo = {} /\ Playback("segments", "segments")
  /\ todo' \in segments /\ segments' = segments \ {todo'}
  /\ UNCHANGED <<position, target, since, origin, queue, clear, aborted>>

(* Each row is a request of its own.                                       *)
FirstRow(i) ==
  /\ i \in todo /\ \A j \in todo : log[i].at <= log[j].at
  /\ ppc \in {"segments", "play"} /\ Playback(ppc, ppc)
  /\ UNCHANGED <<position, target, segments, origin, clear>>
Request(i) ==
  /\ queue' = Append(queue, log[i].message)
  /\ since' = Append(since, i) /\ todo' = todo \ {i}
  /\ UNCHANGED aborted

(* The CHECK of publish_frames_with_manual_header() fails on a full queue. *)
(* Mutant: the request waits for room.                                     *)
PublishRowBlocking(i) == FirstRow(i) /\ Len(queue) < QueueCapacity /\ Request(i)
PublishRow(i) ==
  /\ FirstRow(i)
  /\ IF Len(queue) < QueueCapacity THEN Request(i)
     ELSE aborted' = TRUE /\ UNCHANGED <<queue, since, todo>>

(* Then the last millisecond before the target is played.                  *)
BeforeTarget == (target - 1) % Wrap

StartHere ==
  /\ todo = {} /\ segments = {}
  /\ Playback("segments", "query")
  /\ position' = BeforeTarget
  /\ UNCHANGED <<target, segments, todo, since, origin, queue, clear, aborted>>

Query ==
  /\ Playback("query", "play")
  /\ todo' = Way(position, target)
  /\ UNCHANGED <<position, target, segments, since, origin, queue, clear, aborted>>

EndTurn ==
  /\ todo = {}
  /\ Playback("play", "read")
  /\ position' = target
  /\ UNCHANGED <<target, segments, todo, since, origin, queue, clear, aborted>>

-----------------------------------------------------------------------------
(* run_publisher_thread() of pubsub.cpp, until the playback thread has been *)
(* joined: only then does pubsub::cleanup() stop the queue.                 *)
Publisher(here, there) ==
  /\ ~aborted
  /\ qpc = here /\ qpc' = there
  /\ UNCHANGED <<loop, stop, thread, aborted>>

TestStop ==
  /\ Publisher("loop", IF stop THEN "returned" ELSE "flag")
  /\ UNCHANGED <<queue, clear>>
TestClear ==
  /\ Publisher("flag", IF clear THEN "clear" ELSE "read")
  /\ UNCHANGED <<queue, clear>>
ClearQueue == Publisher("clear", "unflag") /\ queue' = <<>> /\ UNCHANGED clear
Unflag == Publisher("unflag", "read") /\ clear' = FALSE /\ UNCHANGED queue

(* The blocking move_read(), and the message is on its way: whoever        *)
(* composes this module says where to.                                     *)
Send ==
  /\ queue # <<>> /\ Publisher("read", "loop")
  /\ queue' = Tail(queue) /\ UNCHANGED clear

-----------------------------------------------------------------------------
(* The user does one thing at a time, or two keys.                         *)
User ==
  \E elapsed \in 1..2 :
    \/ \E keys \in SUBSET {"space", "left", "right"} : Frame(keys, elapsed, FALSE, -1)
    \/ Frame({}, elapsed, TRUE, -1)
    \/ \E ms \in MinMs..MaxMs : Frame({}, elapsed, FALSE, ms)

Turn ==
  ReadPosition \/ StopPlayback \/ RequestClear \/ FindSegments \/ NextSegment
    \/ (\E i \in todo : PublishRow(i)) \/ StartHere \/ Query \/ EndTurn

Publishing == TestStop \/ TestClear \/ ClearQueue \/ Unflag

Next == User \/ Quit \/ Turn \/ Publishing \/ Send
Spec == Init /\ [][Next]_vars

-----------------------------------------------------------------------------
TypeOK ==
  /\ seekbar \in [current : 0..(Wrap - 1), playing : BOOLEAN, timed : BOOLEAN]
  /\ shared \in 0..(Wrap - 1) /\ acts \in 0..MaxActs
  /\ stop \in BOOLEAN /\ clear \in BOOLEAN /\ aborted \in BOOLEAN
  /\ ppc \in {"read", "clear", "find", "segments", "query", "play", "returned"}
  /\ position \in 0..(Wrap - 1) /\ target \in 0..(Wrap - 1)
  /\ todo \subseteq DOMAIN log /\ since \in Seq(DOMAIN log)
  /\ segments \subseteq SUBSET DOMAIN log
  /\ qpc \in {"loop", "flag", "clear", "unflag", "read", "returned"}
  /\ Len(queue) <= QueueCapacity /\ queue \in Seq({ log[i].message : i \in DOMAIN log })

(* The rows that must have been published when the position ms has been   *)
(* reached: after a jump, all since the key frame that was found; of the   *)
(* other topics and without one, all since just before the jump.           *)
SinceKey(i) ==
  LET keys == KeyFrames(log[i].topic, origin) IN keys # {} /\ i >= Latest(keys)
SinceJump(i) == log[i].at > (origin - 1) * UsPerMs
Due(ms) ==
  { i \in DOMAIN log : log[i].at <= ms * UsPerMs /\ (SinceKey(i) \/ SinceJump(i)) }
LastMs(i) == SinceJump(i) /\ log[i].at < origin * UsPerMs

Published == { since[n] : n \in DOMAIN since }

(* i may be published after j.                                             *)
MayFollow(j, i) ==
  log[i].topic = log[j].topic => (i # j /\ log[j].at <= log[i].at) \/ LastMs(i)

(* Between two jumps nothing recorded is left out, and nothing of a topic  *)
(* published twice or out of order, except that the last millisecond       *)
(* before a jump's target is published once from the key frame and once    *)
(* more (log_viewer.cpp:243-296).                                          *)
PlayedInFull ==
  ppc = "read" =>
    /\ Published = Due(position)
    /\ \A n \in DOMAIN since : \A m \in 1..(n - 1) : MayFollow(since[m], since[n])

(* The position given to the playback thread never leaves the log at its   *)
(* end, although jumps back are computed in unsigned integers and kept in  *)
(* a signed one (seekbar.cpp:97-110).                                      *)
PositionInLog == shared <= MaxMs

(* What plays reaches the end or is stopped by the user, provided frames   *)
(* come that take longer than half the distance of the floats at the end   *)
(* of the log: shorter ones leave the position where it is, or bring it    *)
(* back (seekbar.cpp:34).                                                  *)
PlaysToEnd == seekbar.playing ~> (~seekbar.playing \/ stop \/ aborted)

(* What stop_all() leads to: the playback thread has come to its end,      *)
(* although the publisher thread carries out one request more at most,     *)
(* unless the queue was full for what it still published.                  *)
PlaybackOver == stop => ppc = "returned" \/ aborted

=============================================================================
