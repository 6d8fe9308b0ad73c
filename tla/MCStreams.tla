----------------------------- MODULE MCStreams -----------------------------
(***************************************************************************)
(* TLC instance of the streams: one camera of a kind is served, live or    *)
(* recorded at a time; of what runs side by side, threads that get nothing *)
(* to do come to wait first.  A recording is also played without a client  *)
(* (focus = {}), and then in every order of its threads.                   *)
(***************************************************************************)
EXTENDS CameraStreams

(* Two cameras of a kind, one that has no gyroscope, one with a sensor     *)
(* that goes unused.                                                       *)
Profiles ==
  << [sensor |-> 1, kind |-> "depth", fits |-> FALSE],
     [sensor |-> 1, kind |-> "depth", fits |-> TRUE],
     [sensor |-> 2, kind |-> "color", fits |-> TRUE],
     [sensor |-> 3, kind |-> "accel", fits |-> TRUE],
     [sensor |-> 3, kind |-> "gyro", fits |-> TRUE] >>
MCDevice ==
  << [sensors |-> 3, profiles |-> Profiles], [sensors |-> 3, profiles |-> Profiles],
     [sensors |-> 3, profiles |-> SubSeq(Profiles, 1, 4)],
     [sensors |-> 4, profiles |-> Profiles] >>
MCSetups == {{1, 3}, {1, 2}, {4}}
MCRings == [color |-> 1, depth |-> 1, motion |-> 2]

(* A recording of one camera: key frames at the start and after a while,   *)
(* another stream in between, and a row in the millisecond that the end of *)
(* the log cuts off.                                                       *)
Row(topic, at, flag, id) ==
  [topic |-> topic, at |-> at, flag |-> flag,
   message |-> [serial |-> 1, kind |-> topic, run |-> 1, id |-> id, key |-> flag,
                flag |-> flag]]
MCLog == << Row("color", 1, FALSE, 0), Row("color", 2, TRUE, 1), Row("depth", 2, TRUE, 0),
            Row("depth", 4, FALSE, 1), Row("color", 5, FALSE, 2), Row("color", 6, FALSE, 3),
            Row("color", 9, TRUE, 4), Row("color", 11, FALSE, 5) >>

(* What the client may be sent.                                            *)
Ids == 0..Len(MCLog)
MCSerials == {1}
MCPacket ==
  { p \in [serial : MCSerials, kind : Video, run : 1..MaxRuns, id : Ids, key : BOOLEAN,
           flag : BOOLEAN] : p.flag => p.key }
MCMotion == [serial : MCSerials, kind : Kinds \ Video, run : 1..MaxRuns, id : Ids]

-----------------------------------------------------------------------------
MCInit ==
  /\ StreamsInit
  /\ <<mode, focus>> \in { <<"serve", {"color"}>>, <<"serve", {"depth"}>>,
       <<"serve", {"accel"}>>, <<"live", {"color"}>>, <<"live", {"depth"}>>,
       <<"live", {"gyro"}>>, <<"watch", {"color"}>>,
       <<"watch", {}>> }
  /\ mode = "watch" => cameras = {4}

(* A thread that gets nothing to do has come to wait before others start.  *)
Idle(pc, r) == pc[r] = "read" \/ r \in { InboxOf(k) : k \in focus }
ServerSettled == smain = "run" /\ ~sstop => \A r \in Inboxes : Idle(stpc, r)
ClientSettled == ~stop => \A b \in Inboxes : Idle(tpc, b)

Serving ==
  \/ OfServer(Server!Tick \/ Server!Lifecycle \/ Server!CodecDropsFrame)
  \/ mode = "live" /\ focus # {"gyro"} /\ OfServer(Server!Restart)
  \/ mode = "serve" /\ OfServer(Server!Interrupt)
  \/ ServerSettled /\ \E uid \in Server!Uids(focus) : OfServer(Server!FrameArrives(uid))
  \/ \E r \in Inboxes : OfServer(Server!Worker(r))

Receiving ==
  \/ focus # {} /\ \E b \in Inboxes : OfClient(Worker(b))
  \/ mode = "live" /\ \E s \in Serials : OfClient(UpdateState(s))
  \/ mode = "live" /\ focus = {"gyro"} /\ OfClient(Lifecycle)

(* What the user does matters when the playback thread next looks at it.   *)
(* With a client, the user has the keyboard alone, and the publisher       *)
(* thread has come to wait or to read before the playback thread goes on.  *)
Typing ==
  \E keys \in {{}, {"space"}, {"left"}, {"space", "right"}} :
    Playback!Frame(keys, 2, FALSE, -1)
Playing ==
  \/ ppc = "read" /\ OfPlayback((focus = {} /\ Playback!User) \/ Typing)
  \/ (focus = {} \/ qpc = "read") /\ OfPlayback(Playback!Turn)
  \/ OfPlayback(Playback!Publishing \/ Ignored)
  \/ focus = {} /\ OfPlayback(Playback!Quit)

MCNext ==
  Serving \/ Lose \/ (ClientSettled /\ Receive) \/ Receiving \/ Playing
    \/ (ClientSettled /\ Watch)

(* Threads and frame loops keep running; users, cameras and networks need  *)
(* not.  At the end of the log the position's floats are two milliseconds  *)
(* apart: frames of two milliseconds keep coming, among shorter ones.      *)
MCSpec ==
  /\ MCInit /\ [][MCNext]_streams
  /\ WF_server(mode = "serve" /\ Server!Lifecycle)
  /\ \A r \in Inboxes : WF_server(mode = "serve" /\ Server!Worker(r))
  /\ WF_vars(mode = "live" /\ (StopBuffers \/ Join))
  /\ \A b \in Inboxes : WF_vars(mode = "live" /\ Worker(b))
  /\ WF_playback(focus = {} /\ Playback!Turn)
  /\ WF_playback(focus = {} /\ (Playback!Publishing \/ Playback!Send))
  /\ WF_playback(focus = {} /\ Playback!Frame({}, 2, FALSE, -1))

=============================================================================
