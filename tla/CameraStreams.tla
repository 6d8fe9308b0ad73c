--------------------------- MODULE CameraStreams ---------------------------
(***************************************************************************)
(* The streams as a whole: a behaviour is one of the server alone          *)
(* ("serve"), of a client fed by the server over a network that loses      *)
(* packets ("live"), or of a client fed by the playback of a recording     *)
(* ("watch").  They meet as in the programs: what the server or the        *)
(* playback thread hands to pubsub is delivered to the client's buffers.   *)
(***************************************************************************)
EXTENDS StreamClient, FiniteSets

CONSTANTS
  Device, Setups, RingCapacity,                                     \* CameraServer
  Period, BatchSpan, MaxTime, MaxFrames, MaxRuns,
  log, Videos, UsPerMs, KeySpan, Jump, SeekJump, Wrap, MinMs, MaxMs,  \* LogPlayback
  Precision, QueueCapacity, MaxActs

ASSUME ServerAssumption ==
  /\ \A plugged \in Setups : IsFiniteSet(plugged)
  /\ Period \in Nat \ {0} /\ BatchSpan \in Nat

(* Times are counted from the start of the process that recorded them.     *)
ASSUME PlaybackAssumption ==
  /\ \A i \in DOMAIN log : log[i].at \in Nat \ {0}
  /\ UsPerMs \in Nat \ {0} /\ {Jump, SeekJump, MinMs, MaxMs} \subseteq Nat
  /\ Precision \in Nat \ {0}
  /\ Wrap \in Nat /\ MinMs <= MaxMs /\ MaxMs < Wrap

VARIABLES
  mode, focus, \* the kind of behaviour, and the kinds of streams at work in it
  lost,        \* the network or a full buffer has lost a packet
  cameras, smain, run, now, frames, ring, stpc, encoder, batch, count, sstop, sclosed,
  sent,
  seekbar, shared, acts, pstop, ppc, position, target, segments, todo, qpc, queue, clear,
  paborted, since, origin

server ==
  <<cameras, smain, run, now, frames, ring, stpc, encoder, batch, count, sstop,
    sclosed, sent>>
playback ==
  <<seekbar, shared, acts, pstop, ppc, position, target, segments, todo, qpc, queue, clear,
    paborted, since, origin>>

Server == INSTANCE CameraServer WITH
  Capacity <- RingCapacity, main <- smain, tpc <- stpc, stop <- sstop, closed <- sclosed
Playback == INSTANCE LogPlayback WITH stop <- pstop, aborted <- paborted

(* The client knows a camera by its serial number.                         *)
AsReceived(p) ==
  IF p.kind \in Video
  THEN [serial |-> p.uid[1], kind |-> p.kind, run |-> p.run, id |-> p.id, key |-> p.key,
        flag |-> p.flag]
  ELSE [serial |-> p.uid[1], kind |-> p.kind, run |-> p.run, id |-> p.id]

-----------------------------------------------------------------------------
StreamsInit ==
  /\ mode \in {"serve", "live", "watch"} /\ focus \in SUBSET Kinds
  /\ lost = FALSE
  /\ Server!Init /\ Init /\ Playback!Init
  /\ mode = "live" => cameras \subseteq Serials

OfServer(A) ==
  /\ mode \in {"serve", "live"} /\ A
  /\ UNCHANGED <<mode, focus, lost, vars, playback>>

OfClient(A) ==
  /\ mode \in {"live", "watch"} /\ ~paborted /\ A
  /\ UNCHANGED <<mode, focus, lost, server, playback>>

(* The log viewer is the client and the playback thread in one process.    *)
OfPlayback(A) ==
  /\ mode = "watch" /\ ~aborted /\ A
  /\ UNCHANGED <<mode, focus, lost, server, vars>>

(* A packet of the server is lost, or reaches the client.                  *)
Lose ==
  /\ mode \in {"serve", "live"} /\ Server!Leave
  /\ lost' = TRUE
  /\ UNCHANGED <<mode, focus, vars, playback>>

Receive ==
  /\ mode = "live" /\ Server!Leave
  /\ Deliver(AsReceived(Head(sent)))
  /\ lost' = (lost \/ inbox' = inbox)
  /\ UNCHANGED <<mode, focus, playback>>

(* A recorded message reaches the client, if it asks for such.             *)
Watched == mode = "watch" /\ Head(queue).kind \in focus
Ignored == queue # <<>> /\ ~Watched /\ Playback!Send

Watch ==
  /\ queue # <<>> /\ Watched /\ ~aborted /\ Playback!Send
  /\ Deliver(Head(queue))
  /\ UNCHANGED <<mode, focus, lost, server>>

StreamsNext ==
  \/ OfServer(Server!Step(focus)) \/ Lose \/ Receive
  \/ OfClient((\E b \in Inboxes : Worker(b)) \/ (\E s \in Serials : UpdateState(s))
                \/ Lifecycle)
  \/ OfPlayback(Playback!User \/ Playback!Turn \/ Playback!Publishing
                  \/ Playback!Quit \/ Ignored)
  \/ Watch

streams == <<mode, focus, lost, server, vars, playback>>
StreamsSpec == StreamsInit /\ [][StreamsNext]_streams

-----------------------------------------------------------------------------
(* Motion samples leave in order, none twice and none left out             *)
(* (server.cpp:317-338).                                                   *)
SamplesInOrder == Server!SamplesInOrder

(* Key frames are asked for in time, and not before it (server.cpp:180-186, *)
(* 263).                                                                   *)
KeyframeDue == [][Server!KeyframeIsDue]_server

(* The playback thread leaves nothing out (log_viewer.cpp:243-296).        *)
PlayedInFull == Playback!PlayedInFull

(* Playing comes to the end of the log, or is stopped, if frames come that *)
(* are long enough for its floats (seekbar.cpp:27-50).                     *)
PlaysToEnd == focus = {} => Playback!PlaysToEnd

(* The position it is given is one of the log (seekbar.cpp:27-110).        *)
PositionInLog == Playback!PositionInLog

(* After stop_all() main() of the server is left, wherever in its start-up *)
(* it was (server.cpp:531-583), cleanup() of the client returns            *)
(* (client.cpp:407-431), and so does the playback thread, although nobody  *)
(* reads what it still publishes, unless the queue is full and the process *)
(* aborts (log_viewer.cpp:226-228, pubsub.cpp:68, 398).  Which of the      *)
(* three is told to stop depends on the kind of behaviour.                 *)
StopsWhenTold ==
  sstop \/ stop \/ pstop ~> Server!Stopped /\ CleanedUp /\ Playback!PlaybackOver

(* As long as no packet is lost and the server is not restarted, a client  *)
(* that has found its first key frame never waits for another one: the     *)
(* ids the server gives are those the client expects, frames the cameras'  *)
(* buffers dropped or not (server.cpp:119, 259; client.cpp:109-118,        *)
(* 206-216).                                                               *)
NoNeedlessResync ==
  [][mode = "live" /\ ~lost /\ run = 1 =>
       \A s \in DOMAIN context : ~context[s].need => ~context'[s].need]_context

=============================================================================
