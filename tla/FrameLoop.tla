----------------------------- MODULE FrameLoop -----------------------------
(***************************************************************************)
(* The frame loops of realsense_streaming/viewer.cpp ("viewer") and of     *)
(* log_viewer/log_viewer.cpp ("log"): pictures are taken over from the     *)
(* client, a point cloud is made of the selected device's last two by one  *)
(* PointCloudJob at a time, and all is drawn.  A picture is its sequence   *)
(* id, a cloud the device and the two ids it was made of.  The client's    *)
(* threads and the worker of the pool go on between any two steps; what    *)
(* the playback controls do is in LogPlayback.                             *)
(***************************************************************************)
EXTENDS Viewer, FiniteSetsExt

CONSTANTS
  Serials,      \* devices
  MaxPictures,  \* bound: no more pictures arrive
  MaxClicks     \* bound: the user does not select a device more often

VARIABLES
  pc, todo,         \* where the loop is, and the devices it has yet to look at
  known, selected,  \* _serial_to_realsense_state, _selected_serial
  device,           \* of each device the last color and depth pictures
  arriving,         \* those the client has, at least as new
  job,              \* pointcloud_job
  clicks

loop == <<pc, todo, known, selected>>
display == <<loop, device, arriving, job, clicks, viewer, kind>>

Programs == {"viewer", "log"}
Kinds == {"color", "depth"}
Cloud == <<"pointcloud">>
Image(k, s) == <<k, s>>
NoPictures == [k \in Kinds |-> 0]
NoJob == [state |-> "none", serial |-> None, color |-> 0, depth |-> 0, n |-> 0]

LoopInit ==
  /\ viewer = [InitViewer EXCEPT !.auto = kind \in Programs]
  /\ pc = "top" /\ todo = {} /\ selected = None
  /\ known = IF kind = "log" THEN Serials ELSE {}
  /\ device = [s \in Serials |-> NoPictures]
  /\ arriving = [s \in Serials |-> NoPictures]
  /\ job = NoJob /\ clicks = 0

LoopGo(here, there) == kind \in Programs /\ ~viewer.failed /\ pc = here /\ pc' = there

-----------------------------------------------------------------------------
(* A picture reaches the client; the worker is through with the job.       *)
Pictures == MapThenSumSet(LAMBDA s : arriving[s].color + arriving[s].depth, Serials)
Arrive(s, k) ==
  /\ kind \in Programs /\ Pictures < MaxPictures
  /\ arriving' = [arriving EXCEPT ![s][k] = @ + 1]
  /\ UNCHANGED <<loop, device, job, clicks, viewer, kind>>

JobCompletes ==
  /\ kind \in Programs /\ job.state = "started"
  /\ \E n \in Counts[kind] : job' = [job EXCEPT !.state = "complete", !.n = n]
  /\ UNCHANGED <<loop, device, arriving, clicks, viewer, kind>>

-----------------------------------------------------------------------------
(* The head of the loop.                                                   *)
LeaveLoop ==
  /\ LoopGo("top", "end")
  /\ UNCHANGED <<todo, known, selected, device, arriving, job, clicks, viewer, kind>>

(* refresh_items_period, update_realsense_list()                           *)
Announced == {s \in Serials : arriving[s] # NoPictures}
Refresh ==
  /\ kind = "viewer" /\ LoopGo("top", "update")
  /\ known' \in {known, known \cup Announced}
  /\ todo' = known'
  /\ UNCHANGED <<selected, device, arriving, job, clicks, viewer, kind>>

NewFrame(here, there) ==
  /\ LoopGo(here, there)
  /\ \E io \in Mouse[kind], hit \in Hits(viewer) \cup {None} :
       viewer' = new_frame(viewer, io, hit)
  /\ UNCHANGED <<known, selected, device, arriving, job, clicks, kind>>

-----------------------------------------------------------------------------
(* One device: update_realsense_state() and the images; ...                *)
ImageOf(k, id) ==
  IF k = "color" THEN Data("u8", 3, id) ELSE Data("u16", 1, id)
UpdateImage(v, s, k) ==
  IF arriving[s][k] = device[s][k] THEN v
  ELSE update_image(v, Image(k, s), 1, 1, ImageOf(k, arriving[s][k]))

HaveData(pictures) == pictures.color # 0 /\ pictures.depth # 0
start(s, pictures) ==
  [NoJob EXCEPT !.state = "started", !.serial = s, !.color = pictures.color,
                !.depth = pictures.depth]

UpdateDevice(s) ==
  LET did_update == arriving[s] # device[s]
      starts == did_update /\ s = selected /\ job.state = "none" /\ HaveData(arriving[s])
  IN  /\ s \in todo /\ todo' = todo \ {s}
      /\ LoopGo("update", IF did_update /\ s = selected THEN "complete?" ELSE "update")
      /\ device' = [device EXCEPT ![s] = arriving[s]]
      /\ viewer' = UpdateImage(UpdateImage(viewer, s, "color"), s, "depth")
      /\ job' = IF starts THEN start(s, arriving[s]) ELSE job
      /\ UNCHANGED <<known, selected, arriving, clicks, kind>>

(* ... read_results() if the job is complete by now.  Mutant: the colors   *)
(* go before the points.                                                   *)
ShowColorsFirst(v, n, as) ==
  update_points(update_point_colors(v, Cloud, Data("u8", 3 * n, as)), Cloud, n, as)
ShowResults(v, n, as) ==
  update_point_colors(update_points(v, Cloud, n, as), Cloud, Data("u8", 3 * n, as))

TakeResults(here, there) ==
  /\ LoopGo(here, there)
  /\ IF job.state = "complete"
     THEN /\ viewer' = ShowResults(viewer, job.n, <<job.serial, job.color, job.depth>>)
          /\ job' = [job EXCEPT !.state = "none", !.n = 0]
     ELSE UNCHANGED <<viewer, job>>
  /\ UNCHANGED <<known, selected, device, arriving, clicks, kind>>

UpdateDone(there) ==
  /\ todo = {} /\ LoopGo("update", there)
  /\ UNCHANGED <<todo, known, selected, device, arriving, job, clicks, viewer, kind>>

(* log_viewer: a job is started for a device that has been selected and    *)
(* for pictures that have both changed.  Mutant: the device is not asked   *)
(* for.                                                                    *)
NewPictures(s) == job.depth # device[s].depth /\ job.color # device[s].color
WorthStarting(s) == job.serial # s \/ NewPictures(s)

StartJob ==
  /\ kind = "log" /\ LoopGo("start", "results")
  /\ LET starts == /\ job.state = "none" /\ selected # None
                   /\ HaveData(device[selected]) /\ WorthStarting(selected)
     IN  job' = IF starts THEN start(selected, device[selected]) ELSE job
  /\ UNCHANGED <<todo, known, selected, device, arriving, clicks, viewer, kind>>

-----------------------------------------------------------------------------
(* What is drawn.                                                          *)
DrawCloud(here, there) ==
  /\ LoopGo(here, there)
  /\ viewer' = IF have_points(viewer, Cloud) THEN draw_points(viewer, Cloud) ELSE viewer
  /\ UNCHANGED <<known, selected, device, arriving, job, clicks, kind>>

(* make_gui(): the images of one device after another, ...                 *)
ShowColor(v, s) ==
  IF have_image(v, Image("color", s)) THEN get_image(v, Image("color", s)) ELSE v
ShowDepth(v, s) ==
  IF have_image(v, Image("depth", s))
  THEN get_image(set_cmap(v, Image("depth", s), "heat"), Image("depth", s)) ELSE v
ShowImages(v, s) == ShowDepth(ShowColor(v, s), s)

ShowDevice(s) ==
  /\ LoopGo("gui", "gui")
  /\ s \in todo /\ todo' = todo \ {s}
  /\ viewer' = ShowImages(viewer, s)
  /\ UNCHANGED <<known, selected, device, arriving, job, clicks, kind>>

(* ... the selection, and the images of the selected device once more.     *)
ShowSelected(there) ==
  /\ todo = {} /\ LoopGo("gui", there)
  /\ IF known = {} THEN UNCHANGED <<selected, clicks>>
     ELSE LET first == IF selected = None THEN CHOOSE s \in known : TRUE ELSE selected
          IN  \/ selected' = first /\ UNCHANGED clicks
              \/ /\ clicks < MaxClicks /\ clicks' = clicks + 1
                 /\ selected' \in known \ {first}
  /\ viewer' = IF selected' = None THEN viewer ELSE ShowImages(viewer, selected')
  /\ UNCHANGED <<todo, known, device, arriving, job, kind>>

-----------------------------------------------------------------------------
ViewerStep ==
  /\ kind = "viewer"
  /\ \/ Refresh
     \/ \E s \in Serials : UpdateDevice(s)
     \/ TakeResults("complete?", "update") /\ UNCHANGED todo
     \/ UpdateDone("frame")
     \/ NewFrame("frame", "draw") /\ UNCHANGED todo
     \/ DrawCloud("draw", "gui") /\ todo' = known
     \/ \E s \in Serials : ShowDevice(s)
     \/ ShowSelected("top")

LogStep ==
  /\ kind = "log"
  /\ \/ NewFrame("top", "update") /\ todo' = known
     \/ \E s \in Serials : UpdateDevice(s)
     \/ TakeResults("complete?", "update") /\ UNCHANGED todo
     \/ UpdateDone("start")
     \/ StartJob
     \/ TakeResults("results", "gui") /\ todo' = known
     \/ \E s \in Serials : ShowDevice(s)
     \/ ShowSelected("draw")
     \/ DrawCloud("draw", "top") /\ UNCHANGED todo

LoopNext ==
  \/ ViewerStep \/ LogStep \/ LeaveLoop
  \/ \E s \in Serials, k \in Kinds : Arrive(s, k)
  \/ JobCompletes

(* Any other program calls the viewer as it likes.                         *)
Calling(ids) ==
  /\ kind \notin Programs /\ Calls(ids)
  /\ UNCHANGED <<loop, device, arriving, job, clicks>>

Display ==
  /\ kind \in DOMAIN Mouse /\ LoopInit
  /\ [][LoopNext \/ Calling(Things)]_display

(* The loop goes round, which no viewer call keeps it from unless a CHECK  *)
(* fails, and the worker works.                                            *)
Steps == {"top", "update", "complete?", "frame", "start", "results", "gui", "draw"}
Onward ==
  /\ kind \in Programs /\ ~viewer.failed /\ pc # "end"
  /\ \E there \in Steps, rest \in SUBSET Serials : pc' = there /\ todo' = rest
LoopFairness == WF_<<pc, todo>>(Onward) /\ WF_job(JobCompletes)

-----------------------------------------------------------------------------
(* No CHECK of the viewer fails in the loops, whenever the job completes.  *)
ViewerChecksHold == kind \in Programs => ~viewer.failed

(* log_viewer.cpp:506-534: once no more pictures come and the user selects *)
(* no other device, the cloud is of the selected device, and one of its    *)
(* pictures is the last that came.                                         *)
Shown ==
  IF have_points(viewer, Cloud) THEN viewer.points[Cloud].buffer.data.as ELSE <<None, 0, 0>>
UpToDate ==
  selected # None /\ HaveData(device[selected]) =>
    /\ Shown[1] = selected
    /\ Shown[2] = device[selected].color \/ Shown[3] = device[selected].depth
CloudCatchesUp == kind = "log" => <>[](pc = "end" \/ UpToDate)

=============================================================================
