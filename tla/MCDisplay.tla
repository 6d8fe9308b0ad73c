----------------------------- MODULE MCDisplay -----------------------------
(***************************************************************************)
(* TLC instance of what the programs show: a behaviour is one of a frame   *)
(* loop ("viewer", "log"), of calls of the viewer's interface of one kind  *)
(* in any order ("camera" to "model"), or of the jobs and the pool behind  *)
(* the clouds ("jobs"): three jobs and two workers, so that jobs queue up  *)
(* and workers wait beside one another.                                    *)
(***************************************************************************)
EXTENDS JobPool, FrameLoop

CONSTANTS m, Chosen, Reach

AllKinds == {"viewer", "log", "camera", "cloud", "shape", "lines", "image", "model", "jobs"}
MCLoops == {"viewer", "log"}

(* Ids as in the programs, and one for a thing of any other kind.          *)
MCThings == {<<"pointcloud">>, <<m>>} \cup ({"color", "depth"} \X Serials)
MCSpots == {<<1, 0>>}
MCPoses == { [rot |-> 1, pos |-> <<1, -1>>] }
MCCounts == [k \in AllKinds |-> IF k \in {"lines", "image"} THEN {1, 2} ELSE {0, 1}]

MouseAs(wheel, down, ctrl, move) ==
  [capture |-> FALSE, wheel |-> wheel, down |-> down, ctrl |-> ctrl, click |-> FALSE,
   move |-> move, window |-> <<1, 1>>]
Still == MouseAs(0, {}, FALSE, 0)
Click == [Still EXCEPT !.click = TRUE]
Minimized == [Still EXCEPT !.window = <<0, 1>>]
Elsewhere == [MouseAs(0, {1}, FALSE, 1) EXCEPT !.capture = TRUE]
MCMouse ==
  [k \in AllKinds |->
    IF k = "camera"
    THEN { Still, Elsewhere, MouseAs(1, {1}, FALSE, 0), MouseAs(1, {}, FALSE, 0),
           MouseAs(0, {2}, FALSE, 1), MouseAs(0, {0}, TRUE, -1), MouseAs(0, {1}, FALSE, 1) }
    ELSE IF k = "log" THEN {Click} ELSE {Click, Minimized}]

-----------------------------------------------------------------------------
MCInit == kind \in Chosen /\ Init /\ LoopInit

(* The mouse moves the camera no further than Reach.                       *)
InReach == \A i \in 1..2 : viewer'.offset[i] \in -Reach..Reach

(* Calls about what a frame loop does not draw have one thing to be about. *)
CallingInReach ==
  kind # "jobs" /\ Calling({<<m>>}) /\ InReach /\ UNCHANGED vars
Looping == LoopNext /\ UNCHANGED vars
Working == kind = "jobs" /\ Next /\ UNCHANGED display

MCNext == CallingInReach \/ Looping \/ Working

(* Fairness is asked of the actors at work.                                *)
MCFairness ==
  /\ LoopFairness
  /\ WF_vars(kind = "jobs" /\ MainStep)
  /\ \A w \in Workers : WF_vars(kind = "jobs" /\ WorkerStep(w))

MCSpec == MCInit /\ [][MCNext]_<<vars, display>> /\ MCFairness

=============================================================================
