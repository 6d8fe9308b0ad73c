--------------------------- MODULE Viewer_proofs ----------------------------
(***************************************************************************)
(* TLAPS proofs about Viewer and FrameLoop.  Whatever a program calls,     *)
(* wherever in the plane things and camera are and however far the mouse   *)
(* moves, moving the orbit point does not move the picture, and the thing  *)
(* under the mouse is one of the frame before.  In the frame loops and     *)
(* under any calls, a cloud, lines and an image are drawn with the data    *)
(* they were given; and no CHECK of the viewer fails in the frame loops.   *)
(***************************************************************************)
EXTENDS FrameLoop, TLAPS

Vector == Int \X Int
Pose == [rot : 0..3, pos : Vector]
Params == [fb : Nat, window : Vector, tx : Pose]
IO == [capture : BOOLEAN, wheel : Int, down : SUBSET (0..2), ctrl : BOOLEAN,
       click : BOOLEAN, move : Int, window : Vector]

(* What the theorems ask of the constants: things and camera are somewhere *)
(* in the plane.                                                           *)
InPlane ==
  /\ Spots \subseteq Vector /\ Poses \subseteq Pose
  /\ \A k \in DOMAIN Mouse : Mouse[k] \subseteq IO

(* The fields the camera depends on, and those picking depends on beside   *)
(* what is in the pick buffers.                                            *)
Fields == {"orbit", "offset", "params", "fbid", "scopes", "io"}
PickFields == {"info", "frame", "counter"}
DataFields == {"points", "colors", "arrays", "images", "cmaps", "lines", "seen"}
IsViewer(v) ==
  /\ v = [f \in DOMAIN v |-> v[f]]
  /\ Fields \cup PickFields \cup DataFields \cup {"pick", "failed", "gl"} \subseteq DOMAIN v
  /\ v.orbit \in Pose /\ v.offset \in Vector
  /\ v.params \in Params /\ v.fbid \in {0, 1}
  /\ v.scopes \in Seq(Params \X {0, 1})

(* A call that leaves the camera alone, and adds to the pick buffers at    *)
(* most what belongs to this frame.                                        *)
Keeps(v, w) ==
  /\ w = [f \in DOMAIN w |-> w[f]] /\ DOMAIN w = DOMAIN v
  /\ \A f \in Fields \cup PickFields : w[f] = v[f]
  /\ \A d \in w.pick : d \in v.pick \/ d.at = v.frame

SameView(v, w) == camera(w.orbit, w.offset) = camera(v.orbit, v.offset)

LEMMA KeepsViewer ==
  ASSUME NEW v, NEW w, IsViewer(v), Keeps(v, w)
  PROVE  IsViewer(w) /\ SameView(v, w) /\ w.io = v.io
BY DEF IsViewer, Keeps, Fields, PickFields, DataFields, SameView

LEMMA KeepsTwice ==
  ASSUME NEW u, NEW v, NEW w, Keeps(u, v), Keeps(v, w)
  PROVE  Keeps(u, w)
BY DEF Keeps, PickFields

LEMMA Other ==
  ASSUME NEW v, IsViewer(v), NEW f, f \notin Fields \cup PickFields \cup {"pick"}, NEW x
  PROVE  Keeps(v, [v EXCEPT ![f] = x])
BY DEF IsViewer, Keeps, Fields, PickFields, DataFields

LEMMA ThreeOthers ==
  ASSUME NEW v, IsViewer(v), NEW x, NEW y, NEW z,
         NEW f, NEW g, NEW h, {f, g, h} \cap (Fields \cup PickFields \cup {"pick"}) = {}
  PROVE  Keeps(v, [v EXCEPT ![f] = x, ![g] = y, ![h] = z])
<1>1. PICK a : a = [v EXCEPT ![f] = x]
  OBVIOUS
<1>2. Keeps(v, a) /\ IsViewer(a)
  BY <1>1, Other, KeepsViewer
<1>3. PICK b : b = [a EXCEPT ![g] = y]
  OBVIOUS
<1>4. Keeps(a, b) /\ IsViewer(b)
  BY <1>2, <1>3, Other, KeepsViewer
<1>5. PICK c : c = [b EXCEPT ![h] = z]
  OBVIOUS
<1>6. Keeps(b, c)
  BY <1>4, <1>5, Other
<1>7. c = [v EXCEPT ![f] = x, ![g] = y, ![h] = z]
  BY <1>1, <1>3, <1>5
<1>8. QED
  BY <1>2, <1>4, <1>6, <1>7, KeepsTwice

LEMMA KeepsItself ==
  ASSUME NEW v, IsViewer(v)
  PROVE  Keeps(v, v)
BY DEF IsViewer, Keeps

LEMMA CheckedKeeps ==
  ASSUME NEW v, IsViewer(v), NEW check, NEW after, Keeps(v, after)
  PROVE  Keeps(v, Checked(v, check, after))
BY DEF Checked, IsViewer, Keeps, Fields, PickFields, DataFields

-----------------------------------------------------------------------------
(* Turning and turning back.                                               *)
LEMMA TurnIsLinear ==
  ASSUME NEW r \in 0..3, NEW a \in Vector, NEW b \in Vector
  PROVE  /\ Turn(4 - r, a) \in Vector /\ Plus(a, b) \in Vector /\ Minus(a, b) \in Vector
         /\ Turn(4 - r, Plus(a, b)) = Plus(Turn(4 - r, a), Turn(4 - r, b))
<1>1. CASE r = 0
  BY <1>1 DEF Turn, Plus, Minus, Vector
<1>2. CASE r = 1
  BY <1>2 DEF Turn, Plus, Minus, Vector
<1>3. CASE r = 2
  BY <1>3 DEF Turn, Plus, Minus, Vector
<1>4. CASE r = 3
  BY <1>4 DEF Turn, Plus, Minus, Vector
<1>5. QED
  BY <1>1, <1>2, <1>3, <1>4

LEMMA GivesWay ==
  ASSUME NEW a \in Vector, NEW b \in Vector, NEW c \in Vector
  PROVE  Plus(Minus(<<0, 0>>, Plus(a, b)), Plus(c, b)) = Plus(Minus(<<0, 0>>, a), c)
BY DEF Plus, Minus, Vector

LEMMA InverseTwice ==
  ASSUME NEW p \in Pose
  PROVE  inverse(p) \in Pose /\ inverse(inverse(p)) = p
<1>1. inverse(p).pos = Minus(<<0, 0>>, Turn(4 - p.rot, p.pos)) /\ inverse(p).rot = (4 - p.rot) % 4
  BY DEF inverse
<1>2. p.rot \in 0..3 /\ p.pos[1] \in Int /\ p.pos[2] \in Int /\ p.pos = <<p.pos[1], p.pos[2]>>
  BY DEF Pose, Vector
<1>3. inverse(p).rot \in 0..3 /\ (4 - inverse(p).rot) % 4 = p.rot
  BY <1>1, <1>2
<1>4. /\ inverse(p).pos \in Vector
      /\ Minus(<<0, 0>>, Turn(4 - inverse(p).rot, inverse(p).pos)) = p.pos
  <2>1. CASE p.rot = 0
    BY <1>1, <1>2, <2>1 DEF Turn, Minus, Vector
  <2>2. CASE p.rot = 1
    BY <1>1, <1>2, <2>2 DEF Turn, Minus, Vector
  <2>3. CASE p.rot = 2
    BY <1>1, <1>2, <2>3 DEF Turn, Minus, Vector
  <2>4. CASE p.rot = 3
    BY <1>1, <1>2, <2>4 DEF Turn, Minus, Vector
  <2>5. QED
    BY <1>2, <2>1, <2>2, <2>3, <2>4
<1>5. QED
  BY <1>3, <1>4 DEF inverse, Pose

LEMMA CameraIsPose ==
  ASSUME NEW o \in Pose, NEW d \in Vector
  PROVE  /\ camera(o, d) \in Pose
         /\ camera(o, d) = [rot |-> inverse(o).rot, pos |-> Plus(inverse(o).pos, d)]
<1>1. inverse(o) \in Pose
  BY InverseTwice
<1>2. QED
  BY <1>1, TurnIsLinear DEF camera, Pose, Vector, Plus

-----------------------------------------------------------------------------
(* set_pt_world_orbit(): the offset gives way to the orbit's movement.     *)
LEMMA OrbitMoves ==
  ASSUME NEW v, IsViewer(v), NEW spot \in Vector
  PROVE  /\ IsViewer(set_pt_world_orbit(v, spot))
         /\ SameView(v, set_pt_world_orbit(v, spot))
         /\ set_pt_world_orbit(v, spot).io = v.io
<1> DEFINE o == v.orbit
           move == Minus(spot, o.pos)
           turned == Turn(4 - o.rot, move)
           w == set_pt_world_orbit(v, spot)
<1>1. /\ o \in Pose /\ o.rot \in 0..3 /\ o.pos \in Vector /\ v.offset \in Vector
  BY DEF IsViewer, Pose
<1>2. move \in Vector /\ turned \in Vector /\ Turn(4 - o.rot, o.pos) \in Vector
  BY <1>1, TurnIsLinear
<1>3. /\ Plus(o.pos, move) \in Vector /\ Plus(v.offset, turned) \in Vector
      /\ Turn(4 - o.rot, Plus(o.pos, move)) = Plus(Turn(4 - o.rot, o.pos), turned)
  BY <1>1, <1>2, TurnIsLinear
<1>4. /\ w = [f \in DOMAIN w |-> w[f]] /\ DOMAIN w = DOMAIN v
      /\ w.orbit = [o EXCEPT !.pos = Plus(o.pos, move)]
      /\ w.offset = Plus(v.offset, turned)
      /\ w.params = v.params /\ w.scopes = v.scopes /\ w.fbid = v.fbid /\ w.io = v.io
  BY DEF set_pt_world_orbit, OffsetAfter, IsViewer, Fields, PickFields, DataFields
<1> HIDE DEF w
<1>5. w.orbit \in Pose /\ w.orbit.rot = o.rot /\ w.orbit.pos = Plus(o.pos, move)
  BY <1>1, <1>3, <1>4 DEF Pose
<1>6. IsViewer(w)
  BY <1>3, <1>4, <1>5 DEF IsViewer
<1>7. SameView(v, w)
  <2>1. Plus(inverse(w.orbit).pos, w.offset) = Plus(inverse(o).pos, v.offset)
    <3> HIDE DEF turned, move
    <3>1. /\ inverse(w.orbit).pos = Minus(<<0, 0>>, Plus(Turn(4 - o.rot, o.pos), turned))
          /\ inverse(o).pos = Minus(<<0, 0>>, Turn(4 - o.rot, o.pos))
      BY <1>3, <1>5 DEF inverse
    <3>2. QED
      BY <1>1, <1>2, <1>4, <3>1, GivesWay
  <2>2. inverse(w.orbit).rot = inverse(o).rot
    BY <1>5 DEF inverse
  <2>3. w.offset \in Vector
    BY <1>3, <1>4
  <2>4. /\ camera(w.orbit, w.offset) =
             [rot |-> inverse(w.orbit).rot, pos |-> Plus(inverse(w.orbit).pos, w.offset)]
        /\ camera(o, v.offset) = [rot |-> inverse(o).rot, pos |-> Plus(inverse(o).pos, v.offset)]
    BY <1>1, <1>5, <2>3, CameraIsPose
  <2>5. QED
    BY <2>1, <2>2, <2>4 DEF SameView
<1>8. QED
  BY <1>4, <1>6, <1>7 DEF w

(* set_tx_camera_world()                                                   *)
LEMMA CameraIsSet ==
  ASSUME NEW v, IsViewer(v), NEW tx \in Pose
  PROVE  LET w == set_tx_camera_world(v, tx)
         IN  /\ IsViewer(w) /\ w.offset = <<0, 0>>
             /\ camera(w.orbit, <<0, 0>>) = w.params.tx
<1> DEFINE w == set_tx_camera_world(v, tx)
<1>1. /\ w = [f \in DOMAIN w |-> w[f]] /\ DOMAIN w = DOMAIN v
      /\ w.params = [v.params EXCEPT !.tx = tx] /\ w.scopes = v.scopes /\ w.fbid = v.fbid
      /\ w.orbit = inverse(tx) /\ w.offset = <<0, 0>>
  BY DEF set_tx_camera_world, IsViewer, Fields, PickFields, DataFields
<1> HIDE DEF w
<1>2. IsViewer(w) /\ w.params.tx = tx
  <2>1. w.params \in Params /\ w.params.tx = tx
    BY <1>1 DEF IsViewer, Params
  <2>2. w.orbit \in Pose /\ w.offset \in Vector
    BY <1>1, InverseTwice DEF Vector
  <2>3. QED
    BY <1>1, <2>1, <2>2 DEF IsViewer
<1>3. camera(inverse(tx), <<0, 0>>) = tx
  <2>1. inverse(inverse(tx)) = tx /\ inverse(tx) \in Pose /\ tx.pos \in Vector
    BY InverseTwice DEF Pose
  <2>2. Plus(tx.pos, <<0, 0>>) = tx.pos
    BY <2>1 DEF Plus, Vector
  <2>3. <<0, 0>> \in Vector
    BY DEF Vector
  <2>4. QED
    BY <2>1, <2>2, <2>3, CameraIsPose DEF Pose
<1>4. QED
  BY <1>1, <1>2, <1>3 DEF w

(* update_orbit_from_mouse(), with a mouse that rests and with one that    *)
(* moves.                                                                  *)
LEMMA MouseRests ==
  ASSUME NEW v, IsViewer(v), NEW io \in IO, ~Moved(io)
  PROVE  Keeps(v, update_orbit_from_mouse(v, io))
<1>1. io.wheel = 0 /\ io.move = 0
  BY DEF Moved
<1>2. v.orbit.rot % 4 = v.orbit.rot /\ v.offset[1] + 0 = v.offset[1]
  BY DEF IsViewer, Pose, Vector
<1>3. /\ [v.offset EXCEPT ![1] = @ + 0] = v.offset
      /\ [v.orbit EXCEPT !.rot = (@ + 0) % 4] = v.orbit
  BY <1>2 DEF IsViewer, Pose, Vector
<1>4. QED
  BY <1>1, <1>3 DEF update_orbit_from_mouse, IsViewer, Keeps, Fields

LEMMA MouseMoves ==
  ASSUME NEW v, IsViewer(v), NEW io \in IO
  PROVE  /\ IsViewer(update_orbit_from_mouse(v, io))
         /\ update_orbit_from_mouse(v, io).io = v.io
<1> DEFINE w == update_orbit_from_mouse(v, io)
<1>1. io.wheel \in Int /\ io.move \in Int
  BY DEF IO
<1>2. /\ w = [f \in DOMAIN w |-> w[f]] /\ DOMAIN w = DOMAIN v
      /\ w.params = v.params /\ w.scopes = v.scopes /\ w.fbid = v.fbid /\ w.io = v.io
      /\ \/ w.orbit = v.orbit
         \/ w.orbit = [v.orbit EXCEPT !.rot = (@ + io.wheel) % 4]
         \/ w.orbit = [v.orbit EXCEPT !.rot = (@ + io.move) % 4]
      /\ \/ w.offset = v.offset
         \/ w.offset = [v.offset EXCEPT ![1] = @ + io.move]
         \/ w.offset = [v.offset EXCEPT ![2] = @ + io.wheel]
  <2>1. /\ v = [f \in DOMAIN v |-> v[f]]
        /\ {"orbit", "offset", "params", "scopes", "fbid", "io"} \subseteq DOMAIN v
    BY DEF IsViewer, Fields
  <2>2. PICK x : x = w
    OBVIOUS
  <2>3. \/ x = v
        \/ x = [v EXCEPT !.orbit.rot = (@ + io.wheel) % 4]
        \/ x = [v EXCEPT !.orbit.rot = (@ + io.move) % 4]
        \/ x = [v EXCEPT !.offset[1] = @ + io.move]
        \/ x = [v EXCEPT !.offset[2] = @ + io.wheel]
    BY <2>2 DEF update_orbit_from_mouse
  <2> HIDE DEF w
  <2>4. x = [f \in DOMAIN x |-> x[f]] /\ DOMAIN x = DOMAIN v
    BY <2>1, <2>3
  <2>5. x.params = v.params /\ x.scopes = v.scopes /\ x.fbid = v.fbid /\ x.io = v.io
    BY <2>1, <2>3
  <2>6. \/ x.orbit = v.orbit
        \/ x.orbit = [v.orbit EXCEPT !.rot = (@ + io.wheel) % 4]
        \/ x.orbit = [v.orbit EXCEPT !.rot = (@ + io.move) % 4]
    BY <2>1, <2>3
  <2>7. \/ x.offset = v.offset
        \/ x.offset = [v.offset EXCEPT ![1] = @ + io.move]
        \/ x.offset = [v.offset EXCEPT ![2] = @ + io.wheel]
    BY <2>1, <2>3
  <2>8. QED
    BY <2>2, <2>4, <2>5, <2>6, <2>7
<1> HIDE DEF w
<1>3. w.orbit \in Pose
  <2>1. \A x \in Int : x % 4 \in 0..3
    OBVIOUS
  <2>2. v.orbit.rot \in Int /\ v.orbit \in Pose
    BY DEF IsViewer, Pose
  <2>3. (v.orbit.rot + io.wheel) % 4 \in 0..3 /\ (v.orbit.rot + io.move) % 4 \in 0..3
    BY <1>1, <2>1, <2>2
  <2>4. QED
    BY <1>2, <2>2, <2>3 DEF Pose
<1>4. w.offset \in Vector
  <2>1. PICK o : o = v.offset
    OBVIOUS
  <2>2. o \in Int \X Int
    BY <2>1 DEF IsViewer, Vector
  <2>3. [o EXCEPT ![1] = @ + io.move] \in Int \X Int
    BY <1>1, <2>2
  <2>4. [o EXCEPT ![2] = @ + io.wheel] \in Int \X Int
    BY <1>1, <2>2
  <2>5. QED
    BY <1>2, <2>1, <2>2, <2>3, <2>4 DEF Vector
<1>5. QED
  BY <1>2, <1>3, <1>4 DEF IsViewer, w

-----------------------------------------------------------------------------
(* new_frame(), step by step.                                              *)
LEMMA PickKeepsView ==
  ASSUME NEW v, IsViewer(v), NEW hit \in Hits(v) \cup {None}, Spots \subseteq Vector
  PROVE  /\ IsViewer(LastPick(v, hit)) /\ SameView(v, LastPick(v, hit))
         /\ LastPick(v, hit).io = v.io
<1>1. PICK x : x = [v EXCEPT !.gl = draw_debug_vertex_ids(
                                     Clear(@, debug_pick_buffer), debug_pick_buffer)]
  OBVIOUS
<1>2. Keeps(v, x) /\ IsViewer(x)
  BY <1>1, Other, KeepsViewer DEF Fields, PickFields, DataFields
<1>3. PICK w : w = update_pick_info(x, hit)
  OBVIOUS
<1>4. /\ IsViewer(w) /\ SameView(v, w) /\ w.io = v.io
      /\ w.info \in {NoInfo, hit} /\ (hit = None => w.info = NoInfo)
  <2>1. /\ w = [f \in DOMAIN w |-> w[f]] /\ DOMAIN w = DOMAIN x
        /\ \A f \in Fields : w[f] = x[f]
        /\ w.info \in {NoInfo, hit} /\ (hit = None => w.info = NoInfo)
    BY <1>2, <1>3 DEF update_pick_info, IsViewer, Fields, PickFields
  <2>2. \A f \in Fields : x[f] = v[f]
    BY <1>2 DEF Keeps
  <2>3. IsViewer(w)
    BY <1>2, <2>1 DEF IsViewer, Fields
  <2>4. QED
    BY <2>1, <2>2, <2>3 DEF SameView, Fields
<1>5. w.info.id # None => w.info.xyz \in Vector
  <2>1. NoInfo.id = None
    BY DEF NoInfo
  <2>2. \A h \in Hits(v) : h.xyz \in Spots
    BY DEF Hits
  <2>3. QED
    BY <1>4, <2>1, <2>2
<1>6. PICK z : z = IF v.auto /\ w.info.id # None /\ w.io.click
                     THEN set_pt_world_orbit(w, w.info.xyz) ELSE w
  OBVIOUS
<1>7. IsViewer(z) /\ SameView(v, z) /\ z.io = v.io
  BY <1>4, <1>5, <1>6, OrbitMoves DEF SameView
<1>8. PICK check : check = (/\ CanClear(debug_pick_buffer, FALSE)
        /\ CanDownloadTexture(pick_buffer.color, "uint", PickSize * PickSize * 2)
        /\ CanDownloadTexture(pick_world_xyzs_buffer.color, "float", PickSize * PickSize * 3))
  OBVIOUS
<1>9. LastPick(v, hit) = Checked(v, check, z)
  BY <1>1, <1>3, <1>6, <1>8 DEF LastPick
<1>10. Keeps(v, [v EXCEPT !.failed = TRUE])
  BY Other DEF Fields, PickFields
<1>11. LastPick(v, hit) = z \/ LastPick(v, hit) = [v EXCEPT !.failed = TRUE]
  BY <1>9 DEF Checked
<1>12. QED
  BY <1>7, <1>10, <1>11, KeepsViewer

LEMMA ClearKeeps ==
  ASSUME NEW v, IsViewer(v)
  PROVE  Keeps(v, ClearPick(v))
<1>1. PICK x : x = [v EXCEPT !.pick = {},
                     !.gl = Clear(Clear(@, pick_buffer), pick_world_xyzs_buffer)]
  OBVIOUS
<1>2. Keeps(v, x)
  BY <1>1 DEF IsViewer, Keeps, Fields, PickFields, DataFields
<1>3. QED
  BY <1>1, <1>2, CheckedKeeps DEF ClearPick

(* The picture follows the mouse, or stays.                                *)
LEMMA LookAgain ==
  ASSUME NEW v, IsViewer(v), v.io \in IO
  PROVE  /\ IsViewer(Look(v)) /\ Look(v).io = v.io
         /\ SameView(v, Look(v)) \/ (~v.io.capture /\ Moved(v.io))
<1>1. PICK w : w = [v EXCEPT !.params.window = v.io.window]
  OBVIOUS
<1>2. v.io.window \in Vector
  BY DEF IO
<1>3. /\ w = [f \in DOMAIN w |-> w[f]] /\ DOMAIN w = DOMAIN v
      /\ w.orbit = v.orbit /\ w.offset = v.offset
      /\ w.scopes = v.scopes /\ w.fbid = v.fbid /\ w.io = v.io
      /\ w.params = [v.params EXCEPT !.window = v.io.window]
  BY <1>1 DEF IsViewer, Fields, PickFields, DataFields
<1>4. w.params \in Params
  BY <1>2, <1>3 DEF IsViewer, Params
<1>5. IsViewer(w) /\ SameView(v, w)
  BY <1>3, <1>4 DEF IsViewer, SameView
<1>6. CASE 0 \in {v.io.window[1], v.io.window[2]}
  BY <1>1, <1>3, <1>5, <1>6 DEF Look
<1>7. CASE ~(0 \in {v.io.window[1], v.io.window[2]})
  <2>1. PICK x : x = IF v.io.capture THEN w ELSE update_orbit_from_mouse(w, v.io)
    OBVIOUS
  <2>2. IsViewer(x) /\ x.io = v.io
    BY <1>3, <1>5, <2>1, MouseMoves
  <2>3. SameView(w, x) \/ (~v.io.capture /\ Moved(v.io))
    BY <1>5, <2>1, MouseRests, KeepsViewer DEF SameView
  <2>4. PICK y : y = update_view_params_from_orbit(x)
    OBVIOUS
  <2>5. /\ y = [f \in DOMAIN y |-> y[f]] /\ DOMAIN y = DOMAIN x
        /\ y.orbit = x.orbit /\ y.offset = x.offset
        /\ y.scopes = x.scopes /\ y.fbid = x.fbid /\ y.io = x.io
        /\ y.params = [x.params EXCEPT !.tx = camera(x.orbit, x.offset)]
    BY <2>2, <2>4 DEF update_view_params_from_orbit, IsViewer, Fields, PickFields, DataFields
  <2>6. y.params \in Params
    <3>1. camera(x.orbit, x.offset) \in Pose
      BY <2>2, CameraIsPose DEF IsViewer
    <3>2. QED
      BY <2>2, <2>5, <3>1 DEF IsViewer, Params
  <2>7. IsViewer(y) /\ SameView(x, y)
    BY <2>2, <2>5, <2>6 DEF IsViewer, SameView
  <2>8. Look(v) = [y EXCEPT !.params.fb = 0,
                           !.counter = IF (@ + 1) % CounterWrap = 0 THEN 1 ELSE @ + 1]
    BY <1>1, <1>7, <2>1, <2>4 DEF Look
  <2>9. PICK z : z = Look(v)
    OBVIOUS
  <2>10. /\ z = [f \in DOMAIN z |-> z[f]] /\ DOMAIN z = DOMAIN y
         /\ z.orbit = y.orbit /\ z.offset = y.offset
         /\ z.scopes = y.scopes /\ z.fbid = y.fbid /\ z.io = y.io
         /\ z.params = [y.params EXCEPT !.fb = 0]
    <3>1. /\ y = [f \in DOMAIN y |-> y[f]]
          /\ {"orbit", "offset", "scopes", "fbid", "io", "params"} \subseteq DOMAIN y
      BY <2>7 DEF IsViewer, Fields
    <3>2. PICK n, ps : z = [y EXCEPT !.params = ps, !.counter = n]
                       /\ ps = [y.params EXCEPT !.fb = 0]
      BY <2>8, <2>9
    <3>3. QED
      BY <3>1, <3>2
  <2>11. z.params \in Params
    BY <2>6, <2>10 DEF Params
  <2>12. IsViewer(z) /\ SameView(y, z)
    BY <2>7, <2>10, <2>11 DEF IsViewer, SameView
  <2>13. QED
    BY <1>5, <2>2, <2>3, <2>5, <2>7, <2>9, <2>10, <2>12 DEF SameView
<1>8. QED
  BY <1>6, <1>7

LEMMA FrameKeepsView ==
  ASSUME NEW v, IsViewer(v), NEW io \in IO, NEW hit \in Hits(v) \cup {None},
         Spots \subseteq Vector
  PROVE  /\ IsViewer(new_frame(v, io, hit)) /\ new_frame(v, io, hit).io = io
         /\ SameView(v, new_frame(v, io, hit)) \/ (~io.capture /\ Moved(io))
<1>1. PICK w : w = [v EXCEPT !.io = io, !.frame = 1 - @]
  OBVIOUS
<1>2. /\ w = [f \in DOMAIN w |-> w[f]] /\ DOMAIN w = DOMAIN v
      /\ w.orbit = v.orbit /\ w.offset = v.offset /\ w.params = v.params
      /\ w.scopes = v.scopes /\ w.fbid = v.fbid /\ w.io = io /\ w.pick = v.pick
  BY <1>1 DEF IsViewer, Fields, PickFields, DataFields
<1>3. IsViewer(w) /\ SameView(v, w) /\ w.io = io
  BY <1>2 DEF IsViewer, SameView
<1>4. hit \in Hits(w) \cup {None}
  BY <1>2 DEF Hits
<1>5. PICK x : x = IF w.counter # 0 THEN LastPick(w, hit) ELSE w
  OBVIOUS
<1>6. IsViewer(x) /\ SameView(w, x) /\ x.io = io
  BY <1>3, <1>4, <1>5, PickKeepsView DEF SameView
<1>7. PICK y : y = ClearPick(x)
  OBVIOUS
<1>8. IsViewer(y) /\ SameView(x, y) /\ y.io = io
  BY <1>6, <1>7, ClearKeeps, KeepsViewer
<1>9. new_frame(v, io, hit) = Look(y)
  BY <1>1, <1>5, <1>7 DEF new_frame
<1>10. /\ IsViewer(Look(y)) /\ Look(y).io = io
       /\ SameView(y, Look(y)) \/ (~io.capture /\ Moved(io))
  BY <1>8, LookAgain
<1>11. QED
  BY <1>3, <1>6, <1>8, <1>9, <1>10 DEF SameView

-----------------------------------------------------------------------------
(* Every other call leaves the camera alone.                               *)
LEMMA TintKeeps ==
  ASSUME NEW v, IsViewer(v), NEW id
  PROVE  Keeps(v, unset_tint(v, id)) /\ Keeps(v, ensure_tint(v, id))
<1>1. \A x : Keeps(v, [v EXCEPT !.tint = x])
  BY Other DEF Fields, PickFields
<1>2. Keeps(v, unset_tint(v, id))
  BY <1>1 DEF unset_tint
<1>3. QED
  BY <1>2, KeepsItself DEF ensure_tint

LEMMA PoseKeeps ==
  ASSUME NEW v, IsViewer(v), NEW id, NEW pose
  PROVE  Keeps(v, update_tx_world_object(v, id, pose)) /\ Keeps(v, ensure_pose(v, id))
<1>1. \A x : Keeps(v, [v EXCEPT !.poses = x])
  BY Other DEF Fields, PickFields
<1>2. \A x : Keeps(v, update_tx_world_object(v, id, x))
  BY <1>1 DEF update_tx_world_object
<1>3. QED
  BY <1>2, KeepsItself DEF ensure_pose

LEMMA PickBufferKeeps ==
  ASSUME NEW v, IsViewer(v), NEW id, NEW n
  PROVE  Keeps(v, update_pick_buffer(v, id, n))
<1>1. PICK p, g : p = (v.pick \cup {[id |-> id, n |-> n, at |-> v.frame]})
                  /\ g = draw_vertex_world_xyzs(draw_vertex_ids(v.gl, pick_buffer),
                                                pick_world_xyzs_buffer)
  OBVIOUS
<1>2. Keeps(v, [v EXCEPT !.pick = p, !.gl = g])
  <2>1. PICK w : w = [v EXCEPT !.pick = p, !.gl = g]
    OBVIOUS
  <2>2. /\ w = [f \in DOMAIN w |-> w[f]] /\ DOMAIN w = DOMAIN v /\ w.pick = p
        /\ \A f \in Fields \cup PickFields : w[f] = v[f]
    BY <2>1 DEF IsViewer, Fields, PickFields, DataFields
  <2>3. \A d \in p : d \in v.pick \/ d.at = v.frame
    BY <1>1
  <2>4. QED
    BY <2>1, <2>2, <2>3 DEF Keeps
<1>3. QED
  BY <1>1, <1>2, CheckedKeeps DEF update_pick_buffer

LEMMA CloudKeeps ==
  ASSUME NEW v, IsViewer(v), NEW id, NEW n, NEW as, NEW data, NEW color
  PROVE  /\ Keeps(v, update_points(v, id, n, as))
         /\ Keeps(v, update_point_colors(v, id, data))
         /\ Keeps(v, set_tint(v, id, color, 1))
<1>1. \A x : /\ Keeps(v, [v EXCEPT !.points = x]) /\ Keeps(v, [v EXCEPT !.colors = x])
             /\ Keeps(v, [v EXCEPT !.tint = x])
  BY Other DEF Fields, PickFields, DataFields
<1>2. Keeps(v, update_points(v, id, n, as))
  BY <1>1, CheckedKeeps DEF update_points
<1>3. Keeps(v, update_point_colors(v, id, data))
  BY <1>1, CheckedKeeps DEF update_point_colors
<1>4. Keeps(v, set_tint(v, id, color, 1))
  BY <1>1, CheckedKeeps DEF set_tint
<1>5. QED
  BY <1>2, <1>3, <1>4

LEMMA PointsKeep ==
  ASSUME NEW v, IsViewer(v), NEW id
  PROVE  Keeps(v, draw_points(v, id))
<1> DEFINE w == ensure_tint(ensure_pose(v, id), id)
           p == v.points[id]
           c == v.colors[id]
           gl == draw_colored_vertices(CloudDefaults(v, id), screen(v))
           array == CloudArray(v, id)
           rgba == IF c = None THEN None ELSE c.buffer.data
           now == [xyz |-> Read(gl, array, 0, p.buffer.data),
                   rgb |-> Read(gl, array, 1, rgba), alpha |-> Read(gl, array, 2, rgba)]
           given == [xyz |-> <<p.buffer.data, 0, 3>>,
                     rgb |-> IF c = None THEN <<"red">>
                             ELSE <<rgba, 0, IF rgba.n = 4 * p.n THEN 4 ELSE 3>>,
                     alpha |-> IF c = None THEN <<"opaque">>
                               ELSE IF rgba.n = 3 * p.n THEN <<"opaque">>
                               ELSE <<rgba, 3, 4>>]
           seen == [what |-> "cloud", n |-> p.n, now |-> now, given |-> given,
                    before |-> [rgb |-> On(v.arrays[id], 1), alpha |-> On(v.arrays[id], 2)]]
           after == update_pick_buffer(
                      [w EXCEPT !.arrays = Put(@, id, array), !.gl = gl, !.seen = seen], id, p.n)
<1>1. draw_points(v, id) =
        Checked(v, p # None, Checked(v,
          /\ CanSetAttribute(p.buffer)
          /\ c # None => CanSetAttribute(c.buffer) /\ c.n = p.n, after))
  BY DEF draw_points
<1> HIDE DEF p, c, gl, array, rgba, now, given, seen
<1>2. Keeps(v, w) /\ IsViewer(w)
  BY TintKeeps, PoseKeeps, KeepsTwice, KeepsViewer
<1> HIDE DEF w
<1>3. \A a, g, s : Keeps(w, [w EXCEPT !.arrays = a, !.gl = g, !.seen = s])
  BY <1>2, ThreeOthers DEF Fields, PickFields
<1>4. Keeps(v, after)
  BY <1>2, <1>3, KeepsTwice, KeepsViewer, PickBufferKeeps
<1> HIDE DEF after
<1>5. QED
  BY <1>1, <1>4, CheckedKeeps

LEMMA ShapeKeeps ==
  ASSUME NEW v, IsViewer(v), NEW id, NEW shape, NEW color
  PROVE  Keeps(v, draw_coordinate_frame(v, id)) /\ Keeps(v, draw_shape(v, id, shape, color))
<1>1. PICK w : w = ensure_tint(v, id)
  OBVIOUS
<1>2. Keeps(v, w) /\ IsViewer(w)
  BY <1>1, TintKeeps, KeepsViewer
<1>3. \A g, s : Keeps(w, [w EXCEPT !.gl = g, !.seen = s])
  BY <1>2 DEF IsViewer, Keeps, Fields, PickFields, DataFields
<1>4. \A g, s, n : Keeps(v, update_pick_buffer([w EXCEPT !.gl = g, !.seen = s], id, n))
  BY <1>2, <1>3, KeepsTwice, KeepsViewer, PickBufferKeeps
<1>5. Keeps(v, draw_coordinate_frame(v, id))
  BY <1>1, <1>4, CheckedKeeps DEF draw_coordinate_frame
<1>6. Keeps(v, draw_shape(v, id, shape, color))
  BY <1>1, <1>4, CheckedKeeps DEF draw_shape
<1>7. QED
  BY <1>5, <1>6

LEMMA LinesKeep ==
  ASSUME NEW v, IsViewer(v), NEW id, NEW n, NEW colors
  PROVE  Keeps(v, draw_lines(v, id, id, n, colors))
<1> DEFINE each == colors.n \notin {0, 3, 4}
           rgba == each /\ colors.n = 4 * n
           stride == IF rgba THEN 4 ELSE 3
           one == IF colors.n = 0 THEN <<"red">> ELSE <<colors.as>>
           ends == set_vertex_attribute(
                     set_vertex_attribute(v.lines.array, 0, "points1", 3, 0, 0),
                     1, "points2", 3, 0, 0)
           rgb == IF each THEN set_vertex_attribute(ends, 2, "colors", 3, 0, stride) ELSE ends
           array == IF rgba THEN set_vertex_attribute(rgb, 3, "colors", 1, 3, 4) ELSE rgb
           red == IF each THEN v.gl ELSE set_default(v.gl, 2, one)
           gl == IF rgba THEN red ELSE set_default(red, 3, <<"opaque">>)
           buffer == IF each THEN Upload(NewBuffer("array", colors.type), colors)
                     ELSE v.lines.colors
           lines == [array |-> PerLine(array), colors |-> buffer]
           seen == [what |-> "lines", n |-> n,
                    before |-> [rgb |-> On(v.lines.array, 2), alpha |-> On(v.lines.array, 3)],
                    now |-> [rgb |-> Read(gl, array, 2, buffer.data),
                             alpha |-> Read(gl, array, 3, buffer.data)],
                    given |-> [rgb |-> IF each THEN <<colors, 0, stride>> ELSE one,
                               alpha |-> IF rgba THEN <<colors, 3, 4>> ELSE <<"opaque">>]]
           w == ensure_pose(ensure_pose(v, id), id)
           after == [w EXCEPT !.lines = lines, !.gl = draw_line_instances(gl, screen(v)),
                              !.seen = seen]
<1>1. draw_lines(v, id, id, n, colors) =
        Checked(v, /\ each => colors.n \in {3 * n, 4 * n}
                   /\ CanDraw(screen(v), array, TRUE, FALSE), after)
  BY DEF draw_lines
<1> HIDE DEF each, array, gl, lines, seen
<1>2. Keeps(v, w) /\ IsViewer(w)
  BY PoseKeeps, KeepsTwice, KeepsViewer
<1> HIDE DEF w
<1>3. Keeps(v, after)
  BY <1>2 DEF IsViewer, Keeps, Fields, PickFields, DataFields
<1> HIDE DEF after
<1>4. QED
  BY <1>1, <1>3, CheckedKeeps

LEMMA ImageKeeps ==
  ASSUME NEW v, IsViewer(v), NEW id, NEW x, NEW y, NEW data, NEW name
  PROVE  /\ Keeps(v, update_image(v, id, x, y, data)) /\ Keeps(v, set_cmap(v, id, name))
         /\ Keeps(v, get_image(v, id)) /\ Keeps(v, draw_image_3d(v, id))
<1>1. /\ \A a : Keeps(v, [v EXCEPT !.images = a]) /\ Keeps(v, [v EXCEPT !.cmaps = a])
      /\ \A s : Keeps(v, [v EXCEPT !.seen = s])
  BY Other DEF Fields, PickFields, DataFields
<1>2. \A a, g : Keeps(v, [v EXCEPT !.gl = g, !.cmaps = a])
  BY DEF IsViewer, Keeps, Fields, PickFields, DataFields
<1>3. \A a, g, s : Keeps(v, [v EXCEPT !.cmaps = a, !.gl = g, !.seen = s])
  BY ThreeOthers DEF Fields, PickFields
<1>4. Keeps(v, update_image(v, id, x, y, data))
  BY <1>1, CheckedKeeps DEF update_image
<1>5. Keeps(v, set_cmap(v, id, name))
  BY <1>1, <1>2, CheckedKeeps DEF set_cmap
<1>6. Keeps(v, get_image(v, id))
  BY <1>1, <1>3, CheckedKeeps DEF get_image
<1>7. Keeps(v, draw_image_3d(v, id))
  <2>1. PICK w : w = get_image(v, id)
    OBVIOUS
  <2>2. Keeps(v, w) /\ IsViewer(w)
    BY <1>6, <2>1, KeepsViewer
  <2>3. \A g : Keeps(w, [w EXCEPT !.gl = g])
    BY <2>2, Other DEF Fields, PickFields, DataFields
  <2>4. Keeps(w, draw_image_3d(v, id))
    BY <2>1, <2>2, <2>3, CheckedKeeps DEF draw_image_3d
  <2>5. QED
    BY <2>2, <2>4, KeepsTwice
<1>8. QED
  BY <1>4, <1>5, <1>6, <1>7

LEMMA ModelKeeps ==
  ASSUME NEW v, IsViewer(v), NEW id, NEW part, NEW meshes, NEW tx, NEW material
  PROVE  /\ Keeps(v, add_model_part(v, id, part, meshes))
         /\ Keeps(v, add_model(v, id, meshes))
         /\ Keeps(v, update_tx_model_modelpart(v, id, part, tx))
         /\ Keeps(v, get_tx_world_modelpart(v, id, part))
         /\ Keeps(v, set_model_material(v, id, material))
         /\ Keeps(v, draw_model(v, id))
<1>1. \A a, g : Keeps(v, [v EXCEPT !.models = a]) /\ Keeps(v, [v EXCEPT !.models = a, !.gl = g])
  BY DEF IsViewer, Keeps, Fields, PickFields, DataFields
<1>2. \A p : Keeps(v, add_model_part(v, id, p, meshes))
  BY <1>1, CheckedKeeps DEF add_model_part
<1>3. Keeps(v, add_model(v, id, meshes))
  BY <1>2 DEF add_model
<1>4. Keeps(v, update_tx_model_modelpart(v, id, part, tx))
  BY <1>1, CheckedKeeps DEF update_tx_model_modelpart
<1>5. Keeps(v, get_tx_world_modelpart(v, id, part))
  BY PoseKeeps, CheckedKeeps DEF get_tx_world_modelpart
<1>6. Keeps(v, set_model_material(v, id, material))
  BY <1>1, CheckedKeeps DEF set_model_material
<1>7. Keeps(v, draw_model(v, id))
  <2>1. PICK w : w = ensure_pose(v, id)
    OBVIOUS
  <2>2. Keeps(v, w) /\ IsViewer(w)
    BY <2>1, PoseKeeps, KeepsViewer
  <2>3. \A g, s : Keeps(v, [w EXCEPT !.gl = g, !.seen = s])
    BY <2>2 DEF IsViewer, Keeps, Fields, PickFields, DataFields
  <2>4. QED
    BY <2>1, <2>3, CheckedKeeps DEF draw_model
<1>8. QED
  BY <1>2, <1>3, <1>4, <1>5, <1>6, <1>7

(* ViewParamsScope: what is pushed and popped are whole sets of parameters. *)
LEMMA ScopesAreTyped ==
  ASSUME NEW v, IsViewer(v)
  PROVE  /\ IsViewer(PushScope(v, InitViewer.params, 1))
         /\ SameView(v, PushScope(v, InitViewer.params, 1))
         /\ v.scopes # <<>> => IsViewer(PopScope(v)) /\ SameView(v, PopScope(v))
<1>1. PICK params : params = InitViewer.params
  OBVIOUS
<1>2. params \in Params
  BY <1>1 DEF InitViewer, Params, Identity, Pose, Vector
<1>3. PICK w : w = PushScope(v, params, 1)
  OBVIOUS
<1>4. /\ w = [f \in DOMAIN w |-> w[f]] /\ DOMAIN w = DOMAIN v
      /\ w.orbit = v.orbit /\ w.offset = v.offset /\ w.params = params /\ w.fbid = 1
      /\ w.scopes = Append(v.scopes, <<v.params, v.fbid>>)
  BY <1>3 DEF PushScope, IsViewer, Fields, PickFields, DataFields
<1>5. IsViewer(w) /\ SameView(v, w)
  BY <1>2, <1>4 DEF IsViewer, SameView
<1>6. ASSUME v.scopes # <<>>
      PROVE  IsViewer(PopScope(v)) /\ SameView(v, PopScope(v))
  <2>1. PICK n, last : n = Len(v.scopes) /\ last = v.scopes[n]
    OBVIOUS
  <2>2. n \in 1..Len(v.scopes) /\ last \in Params \X {0, 1}
    BY <1>6, <2>1 DEF IsViewer
  <2>3. PICK x : x = PopScope(v)
    OBVIOUS
  <2>4. /\ x = [f \in DOMAIN x |-> x[f]] /\ DOMAIN x = DOMAIN v
        /\ x.orbit = v.orbit /\ x.offset = v.offset
        /\ x.params = last[1] /\ x.fbid = last[2]
        /\ x.scopes = SubSeq(v.scopes, 1, n - 1)
    BY <2>1, <2>3 DEF PopScope, IsViewer, Fields, PickFields, DataFields
  <2>5. x.scopes \in Seq(Params \X {0, 1})
    BY <2>2, <2>1, <2>4 DEF IsViewer
  <2>6. QED
    BY <2>2, <2>3, <2>4, <2>5 DEF IsViewer, SameView
<1>7. QED
  BY <1>1, <1>3, <1>5, <1>6

-----------------------------------------------------------------------------
(* A step of the program.                                                  *)
Quiet(v, w) == IsViewer(w) /\ SameView(v, w)

LEMMA FrameIsQuiet ==
  ASSUME InPlane, IsViewer(viewer), kind \in DOMAIN Mouse, Frame
  PROVE  IsViewer(viewer') /\ (SameView(viewer, viewer') \/ SetByHand)
<1>1. PICK io \in Mouse[kind], hit \in Hits(viewer) \cup {None} :
        viewer' = new_frame(viewer, io, hit)
  BY DEF Frame, Call
<1>2. io \in IO /\ Spots \subseteq Vector
  BY DEF InPlane
<1>3. PICK w : w = new_frame(viewer, io, hit)
  OBVIOUS
<1>4. /\ IsViewer(w) /\ w.io = io
      /\ SameView(viewer, w) \/ (~io.capture /\ Moved(io))
  BY <1>2, <1>3, FrameKeepsView
<1>5. QED
  BY <1>1, <1>3, <1>4 DEF SetByHand

LEMMA CameraIsQuiet ==
  ASSUME InPlane, IsViewer(viewer), CameraCall
  PROVE  IsViewer(viewer') /\ (SameView(viewer, viewer') \/ SetByHand)
<1>1. ASSUME NEW pose \in Poses, viewer' = set_tx_camera_world(viewer, pose)
      PROVE  IsViewer(viewer') /\ SetByHand
  <2>1. pose \in Pose
    BY DEF InPlane
  <2>2. QED
    BY <1>1, <2>1, CameraIsSet DEF SetByHand
<1>2. ASSUME NEW pose \in Poses, viewer' = set_pt_world_orbit(viewer, pose.pos)
      PROVE  Quiet(viewer, viewer')
  <2>1. pose.pos \in Vector
    BY DEF InPlane, Pose
  <2>2. QED
    BY <1>2, <2>1, OrbitMoves DEF Quiet
<1>3. ASSUME viewer' = PushScope(viewer, InitViewer.params, 1)
      PROVE  Quiet(viewer, viewer')
  BY <1>3, ScopesAreTyped DEF Quiet
<1>4. ASSUME viewer.scopes # <<>>, viewer' = PopScope(viewer)
      PROVE  Quiet(viewer, viewer')
  BY <1>4, ScopesAreTyped DEF Quiet
<1>5. ASSUME viewer' = enable_auto_orbit(viewer)
      PROVE  Quiet(viewer, viewer')
  <2>1. Keeps(viewer, enable_auto_orbit(viewer))
    BY Other DEF enable_auto_orbit, Fields, PickFields
  <2>2. QED
    BY <1>5, <2>1, KeepsViewer DEF Quiet
<1>6. QED
  BY <1>1, <1>2, <1>3, <1>4, <1>5 DEF CameraCall, Call, Quiet

LEMMA OthersKeep ==
  ASSUME IsViewer(viewer), NEW id \in Things,
         CloudCall(id) \/ ShapeCall(id) \/ LinesCall(id) \/ ImageCall(id) \/ ModelCall(id)
  PROVE  Keeps(viewer, viewer')
<1>1. ASSUME CloudCall(id) PROVE Keeps(viewer, viewer')
  BY <1>1, CloudKeeps, TintKeeps, PointsKeep DEF CloudCall, Call
<1>2. ASSUME ShapeCall(id) PROVE Keeps(viewer, viewer')
  BY <1>2, PoseKeeps, ShapeKeeps DEF ShapeCall, Call, draw_cone, draw_square_cone
<1>3. ASSUME LinesCall(id) PROVE Keeps(viewer, viewer')
  BY <1>3, LinesKeep DEF LinesCall, Call
<1>4. ASSUME ImageCall(id) PROVE Keeps(viewer, viewer')
  BY <1>4, ImageKeeps DEF ImageCall, Call
<1>5. ASSUME ModelCall(id) PROVE Keeps(viewer, viewer')
  BY <1>5, ModelKeeps DEF ModelCall, Call
<1>6. QED
  BY <1>1, <1>2, <1>3, <1>4, <1>5

(* What a step of a frame loop does to the viewer.                         *)
LoopCalls ==
  \/ \E s \in Serials : viewer' = UpdateImage(UpdateImage(viewer, s, "color"), s, "depth")
  \/ viewer' = ShowResults(viewer, job.n, <<job.serial, job.color, job.depth>>)
  \/ have_points(viewer, Cloud) /\ viewer' = draw_points(viewer, Cloud)
  \/ \E s \in Serials : viewer' = ShowImages(viewer, s)

LoopTypes ==
  /\ known \subseteq Serials /\ selected \in Serials \cup {None}
  /\ "n" \in DOMAIN job /\ job.n \in Nat

LEMMA LoopStep ==
  ASSUME LoopTypes, LoopNext, \A k \in DOMAIN Mouse : Counts[k] \subseteq Nat,
         kind \in DOMAIN Mouse
  PROVE  /\ LoopTypes' /\ kind' = kind
         /\ \/ UNCHANGED viewer
            \/ ~viewer.failed /\ (LoopCalls \/ Frame)
<1> USE DEF LoopTypes
<1>1. CASE \E s \in Serials, k \in Kinds : Arrive(s, k)
  BY <1>1 DEF Arrive, loop
<1>2. CASE JobCompletes
  BY <1>2 DEF JobCompletes, loop
<1>3. CASE LeaveLoop \/ Refresh \/ \E there : UpdateDone(there)
  BY <1>3 DEF LeaveLoop, Refresh, UpdateDone, Announced
<1>4. CASE \E here, there : NewFrame(here, there)
  BY <1>4 DEF NewFrame, LoopGo, Frame, Call
<1>a. \A s, p : "n" \in DOMAIN start(s, p) /\ start(s, p).n = 0
  BY DEF start, NoJob
<1>b. CASE StartJob
  <2>1. /\ UNCHANGED <<known, selected, viewer, kind>>
        /\ job' = job \/ job' = start(selected, device[selected])
    BY <1>b DEF StartJob
  <2>2. QED
    BY <1>a, <2>1
<1>5. CASE \E s \in Serials : UpdateDevice(s)
  BY <1>5, <1>a DEF UpdateDevice, LoopGo, LoopCalls
<1>6. CASE \E here, there : TakeResults(here, there)
  <2>1. /\ UNCHANGED <<known, selected, kind>> /\ ~viewer.failed
        /\ \/ UNCHANGED <<viewer, job>>
           \/ /\ viewer' = ShowResults(viewer, job.n, <<job.serial, job.color, job.depth>>)
              /\ job' = [job EXCEPT !.state = "none", !.n = 0]
    BY <1>6 DEF TakeResults, LoopGo
  <2>2. "n" \in DOMAIN job' /\ job'.n \in Nat
    <3>1. CASE UNCHANGED job
      BY <3>1
    <3>2. CASE job' = [job EXCEPT !.state = "none", !.n = 0]
      <4>1. PICK a : a = [job EXCEPT !.state = "none"]
        OBVIOUS
      <4>2. "n" \in DOMAIN a /\ job' = [a EXCEPT !.n = 0]
        BY <3>2, <4>1
      <4>3. QED
        BY <4>2
    <3>3. QED
      BY <2>1, <3>1, <3>2
  <2>3. QED
    BY <2>1, <2>2 DEF LoopCalls
<1>7. CASE \E here, there : DrawCloud(here, there)
  BY <1>7 DEF DrawCloud, LoopGo, LoopCalls
<1>8. CASE \E s \in Serials : ShowDevice(s)
  BY <1>8 DEF ShowDevice, LoopGo, LoopCalls
<1>9. CASE \E there : ShowSelected(there)
  <2>1. /\ UNCHANGED <<known, job, kind>> /\ ~viewer.failed
        /\ viewer' = viewer \/ (selected' # None /\ viewer' = ShowImages(viewer, selected'))
    BY <1>9 DEF ShowSelected, LoopGo
  <2>2. \/ selected' = selected
        \/ known # {} /\ selected' = CHOOSE s \in known : TRUE
        \/ selected' \in known
    BY <1>9 DEF ShowSelected
  <2>3. selected' \in Serials \cup {None}
    BY <2>2
  <2>4. QED
    BY <2>1, <2>3 DEF LoopCalls
<1>10. QED
  BY <1>1, <1>2, <1>3, <1>b, <1>4, <1>5, <1>6, <1>7, <1>8, <1>9 DEF LoopNext, ViewerStep, LogStep

LEMMA LoopCallsKeep ==
  ASSUME IsViewer(viewer), LoopCalls
  PROVE  Keeps(viewer, viewer')
<1>1. \A v, id, x, y, data : IsViewer(v) => Keeps(v, update_image(v, id, x, y, data))
  BY ImageKeeps
<1>2. \A v, s, k : IsViewer(v) => Keeps(v, UpdateImage(v, s, k))
  BY <1>1, KeepsItself DEF UpdateImage
<1>3. ASSUME NEW s \in Serials,
             viewer' = UpdateImage(UpdateImage(viewer, s, "color"), s, "depth")
      PROVE  Keeps(viewer, viewer')
  BY <1>2, <1>3, KeepsViewer, KeepsTwice
<1>4. \A n, as : Keeps(viewer, ShowResults(viewer, n, as))
  BY CloudKeeps, KeepsViewer, KeepsTwice DEF ShowResults
<1>5. Keeps(viewer, draw_points(viewer, Cloud))
  BY PointsKeep
<1>6. \A v, id : IsViewer(v) => Keeps(v, get_image(v, id)) /\ Keeps(v, set_cmap(v, id, "heat"))
  BY ImageKeeps
<1>7. \A v, s : IsViewer(v) => Keeps(v, ShowColor(v, s))
  BY <1>6, KeepsItself DEF ShowColor
<1>8. \A v, s : IsViewer(v) => Keeps(v, ShowDepth(v, s))
  BY <1>6, KeepsItself, KeepsTwice, KeepsViewer DEF ShowDepth
<1>9. \A s : Keeps(viewer, ShowImages(viewer, s))
  BY <1>7, <1>8, KeepsTwice, KeepsViewer DEF ShowImages
<1>10. QED
  BY <1>3, <1>4, <1>5, <1>9 DEF LoopCalls

(* How often points come is a number.                                      *)
CountsAreNumbers == \A k \in DOMAIN Mouse : Counts[k] \subseteq Nat

(* What every step of a program does to the viewer.                        *)
OtherCall ==
  \E id \in Things : \/ CloudCall(id) \/ ShapeCall(id) \/ LinesCall(id)
                     \/ ImageCall(id) \/ ModelCall(id)

LEMMA AnyStep ==
  ASSUME LoopTypes, kind \in DOMAIN Mouse, CountsAreNumbers,
         [LoopNext \/ Calling(Things)]_display
  PROVE  /\ LoopTypes' /\ kind' = kind
         /\ \/ UNCHANGED viewer
            \/ ~viewer.failed /\ Frame
            \/ ~viewer.failed /\ kind \in Programs /\ LoopCalls
            \/ ~viewer.failed /\ kind \notin Programs /\ (CameraCall \/ OtherCall)
<1>1. CASE LoopNext
  <2>1. kind \in Programs
    BY <1>1 DEF LoopNext, ViewerStep, LogStep, LeaveLoop, LoopGo, Arrive, JobCompletes, Programs
  <2>2. QED
    BY <1>1, <2>1, LoopStep DEF CountsAreNumbers
<1>2. CASE Calling(Things)
  <2>1. /\ UNCHANGED <<known, selected, job, kind>> /\ kind \notin Programs
        /\ Frame \/ CameraCall \/ OtherCall
    BY <1>2 DEF Calling, Calls, loop, OtherCall
  <2>2. ~viewer.failed
    BY <2>1 DEF Frame, CameraCall, OtherCall, CloudCall, ShapeCall, LinesCall, ImageCall,
                ModelCall, Call
  <2>3. QED
    BY <2>1, <2>2 DEF LoopTypes
<1>3. CASE UNCHANGED display
  BY <1>3 DEF display, loop, LoopTypes
<1>4. QED
  BY <1>1, <1>2, <1>3

ViewInv == IsViewer(viewer) /\ LoopTypes /\ kind \in DOMAIN Mouse

LEMMA InitView == kind \in DOMAIN Mouse /\ LoopInit => ViewInv
<1> SUFFICES ASSUME kind \in DOMAIN Mouse, LoopInit PROVE ViewInv
  OBVIOUS
<1>1. PICK v : v = viewer
  OBVIOUS
<1>2. /\ v = [f \in DOMAIN v |-> v[f]]
      /\ Fields \cup PickFields \cup DataFields \cup {"pick", "failed", "gl"} \subseteq DOMAIN v
      /\ v.orbit = Identity /\ v.offset = <<0, 0>> /\ v.fbid = 0 /\ v.scopes = <<>>
      /\ v.params = [fb |-> 0, window |-> <<1, 1>>, tx |-> Identity]
  <2>1. PICK u, auto : u = InitViewer /\ v = [u EXCEPT !.auto = auto]
    BY <1>1 DEF LoopInit
  <2>2. /\ u = [f \in DOMAIN u |-> u[f]]
        /\ Fields \cup PickFields \cup DataFields \cup {"pick", "failed", "gl"} \subseteq DOMAIN u
    BY <2>1 DEF InitViewer, Fields, PickFields, DataFields
  <2>3. /\ u.orbit = Identity /\ u.offset = <<0, 0>> /\ u.fbid = 0 /\ u.scopes = <<>>
        /\ u.params = [fb |-> 0, window |-> <<1, 1>>, tx |-> Identity]
    BY <2>1 DEF InitViewer, Identity
  <2>4. {"orbit", "offset", "fbid", "scopes", "params"} \subseteq DOMAIN u
    BY <2>2 DEF Fields
  <2>5. /\ v = [f \in DOMAIN v |-> v[f]] /\ DOMAIN v = DOMAIN u
        /\ v.orbit = u.orbit /\ v.offset = u.offset /\ v.fbid = u.fbid
        /\ v.scopes = u.scopes /\ v.params = u.params
    BY <2>1, <2>4
  <2>6. QED
    BY <2>2, <2>3, <2>5
<1>3. Identity \in Pose
  BY DEF Identity, Pose, Vector
<1>4. v.params \in Params
  BY <1>2, <1>3 DEF Params, Vector
<1>5. IsViewer(v)
  BY <1>2, <1>3, <1>4 DEF IsViewer, Vector
<1>6. LoopTypes
  BY DEF LoopInit, LoopTypes, NoJob
<1>7. QED
  BY <1>1, <1>5, <1>6 DEF ViewInv

LEMMA ViewStep ==
  ASSUME InPlane, CountsAreNumbers, ViewInv, [LoopNext \/ Calling(Things)]_display
  PROVE  ViewInv' /\ (SameView(viewer, viewer') \/ SetByHand)
<1>1. LoopTypes' /\ kind' = kind
  BY AnyStep DEF ViewInv
<1>2. CASE UNCHANGED viewer
  BY <1>1, <1>2 DEF ViewInv, SameView
<1>3. CASE Frame
  BY <1>1, <1>3, FrameIsQuiet DEF ViewInv
<1>4. CASE CameraCall
  BY <1>1, <1>4, CameraIsQuiet DEF ViewInv
<1>5. CASE OtherCall
  BY <1>1, <1>5, OthersKeep, KeepsViewer DEF ViewInv, OtherCall
<1>6. CASE LoopCalls
  BY <1>1, <1>6, LoopCallsKeep, KeepsViewer DEF ViewInv
<1>7. QED
  BY <1>2, <1>3, <1>4, <1>5, <1>6, AnyStep DEF ViewInv

(* viewer.cpp:276-279, "so that the screen does not jump": whatever a      *)
(* program calls, in any order and however often, and whatever the mouse   *)
(* hits and drags, the picture is moved only by the mouse's own movement   *)
(* and by set_tx_camera_world(); a new orbit point never moves it.         *)
THEOREM ScreenNeverJumps ==
  InPlane /\ CountsAreNumbers => (Display => ScreenDoesNotJump)
<1>1. ASSUME InPlane, CountsAreNumbers PROVE Display => ScreenDoesNotJump
  <2>1. ASSUME ViewInv, [LoopNext \/ Calling(Things)]_display
        PROVE  /\ ViewInv'
               /\ SameView(viewer, viewer') \/ SetByHand
    BY <1>1, <2>1, ViewStep
  <2>2. QED
    BY InitView, <2>1, PTL DEF Display, ScreenDoesNotJump, SameView
<1>2. QED
  BY <1>1

-----------------------------------------------------------------------------
(* Picking.  What is in the pick buffers was drawn in this frame, and the  *)
(* thing under the mouse in the frame before; before the first frame that  *)
(* is shown there is none.                                                 *)
PickInv(v) ==
  /\ v.frame \in {0, 1} /\ v.counter \in Nat
  /\ \A d \in v.pick : d.at = v.frame
  /\ v.counter = 0 => v.info = NoInfo
  /\ v.info.id \in Things => v.info.at = 1 - v.frame

LEMMA PickKept ==
  ASSUME NEW v, NEW w, PickInv(v), Keeps(v, w)
  PROVE  PickInv(w)
BY DEF PickInv, Keeps, PickFields

(* The CHECKs of new_frame() hold: the pick buffers are as large as what   *)
(* is read of them.                                                        *)
LEMMA PickBuffersFit ==
  /\ CanClear(debug_pick_buffer, FALSE) /\ CanClear(pick_world_xyzs_buffer, FALSE)
  /\ CanClear(pick_buffer, TRUE)
  /\ CanDownloadTexture(pick_buffer.color, "uint", PickSize * PickSize * 2)
  /\ CanDownloadTexture(pick_world_xyzs_buffer.color, "float", PickSize * PickSize * 3)
<1>1. \A type, channels :
        LET t == NewTexture(type, channels, PickSize, PickSize)
        IN  /\ t.type = type /\ t.channels = channels
            /\ t.width = PickSize /\ t.height = PickSize
  BY DEF NewTexture, ensure_size
<1>2. \A id, texture, depth :
        texture.width = PickSize /\ texture.height = PickSize =>
          NewFrameBuffer(id, texture, PickSize, PickSize, depth).color = texture
  BY DEF NewFrameBuffer, set_size, ensure_size
<1>3. PICK t, u : /\ t = NewTexture("uint", 2, PickSize, PickSize)
                  /\ u = NewTexture("float", 3, PickSize, PickSize)
  OBVIOUS
<1>4. /\ t.width = PickSize /\ t.height = PickSize /\ t.type = "uint" /\ t.channels = 2
      /\ u.width = PickSize /\ u.height = PickSize /\ u.type = "float" /\ u.channels = 3
  BY <1>1, <1>3
<1>5. pick_buffer.color = t /\ pick_world_xyzs_buffer.color = u /\ debug_pick_buffer.color = u
  <2>1. pick_buffer.color = t
    BY <1>2, <1>3, <1>4 DEF pick_buffer
  <2>2. pick_world_xyzs_buffer.color = u
    BY <1>2, <1>3, <1>4 DEF pick_world_xyzs_buffer
  <2>3. debug_pick_buffer.color = u
    BY <1>2, <1>3, <1>4 DEF debug_pick_buffer
  <2>4. QED
    BY <2>1, <2>2, <2>3
<1>6. QED
  BY <1>4, <1>5 DEF CanClear, Integral, CanDownloadTexture, Pixels

(* What new_frame() finds is what it was given to find, or nothing.        *)
LEMMA LastPickFinds ==
  ASSUME NEW v, IsViewer(v), ~v.failed, NEW hit
  PROVE  LET z == LastPick(v, hit)
         IN  /\ ~z.failed /\ z.frame = v.frame /\ z.counter = v.counter /\ z.pick = v.pick
             /\ z.info = NoInfo \/ (hit # None /\ z.info = hit)
<1>1. PICK x : x = [v EXCEPT !.gl = draw_debug_vertex_ids(
                                     Clear(@, debug_pick_buffer), debug_pick_buffer)]
  OBVIOUS
<1>2. PICK w : w = update_pick_info(x, hit)
  OBVIOUS
<1>3. PICK z : z = IF v.auto /\ w.info.id # None /\ w.io.click
                     THEN set_pt_world_orbit(w, w.info.xyz) ELSE w
  OBVIOUS
<1>4. LastPick(v, hit) = z
  BY <1>1, <1>2, <1>3, PickBuffersFit DEF LastPick, Checked
<1> DEFINE Same(a, b) == /\ DOMAIN a = DOMAIN b /\ a.failed = b.failed
                         /\ a.frame = b.frame /\ a.counter = b.counter /\ a.pick = b.pick
<1>5. Same(x, v)
  BY <1>1 DEF IsViewer, PickFields
<1>6. Same(w, v) /\ (w.info = NoInfo \/ (hit # None /\ w.info = hit))
  BY <1>2, <1>5 DEF update_pick_info, IsViewer, PickFields
<1>7. Same(z, w) /\ z.info = w.info
  <2>1. \A spot : Same(set_pt_world_orbit(w, spot), w)
                  /\ set_pt_world_orbit(w, spot).info = w.info
    BY <1>6 DEF set_pt_world_orbit, IsViewer, Fields, PickFields
  <2>2. QED
    BY <1>3, <2>1
<1>8. QED
  BY <1>4, <1>6, <1>7

(* The camera is looked through without what was picked being touched; a   *)
(* frame that is shown is counted, and the count never wraps to none.      *)
LEMMA LookKeepsPick ==
  ASSUME NEW v, IsViewer(v)
  PROVE  LET z == Look(v)
         IN  /\ z.frame = v.frame /\ z.info = v.info /\ z.pick = v.pick
             /\ v.counter \in Nat => z.counter \in Nat /\ (z.counter = 0 => v.counter = 0)
<1> DEFINE Same(a, b) == /\ DOMAIN a = DOMAIN b /\ a.frame = b.frame /\ a.info = b.info
                         /\ a.counter = b.counter /\ a.pick = b.pick
<1>1. PICK w : w = [v EXCEPT !.params.window = v.io.window]
  OBVIOUS
<1>2. Same(w, v)
  BY <1>1 DEF IsViewer, Fields, PickFields
<1>3. CASE 0 \in {v.io.window[1], v.io.window[2]}
  BY <1>1, <1>2, <1>3 DEF Look
<1>4. CASE ~(0 \in {v.io.window[1], v.io.window[2]})
  <2>1. PICK x : x = IF v.io.capture THEN w ELSE update_orbit_from_mouse(w, v.io)
    OBVIOUS
  <2>2. Same(x, w)
    BY <1>2, <2>1 DEF update_orbit_from_mouse, IsViewer, Fields, PickFields
  <2>3. PICK y : y = update_view_params_from_orbit(x)
    OBVIOUS
  <2>4. Same(y, x)
    BY <1>2, <2>2, <2>3 DEF update_view_params_from_orbit, IsViewer, Fields, PickFields
  <2>5. PICK b : b = [y EXCEPT !.params.fb = 0]
    OBVIOUS
  <2>6. Same(b, y)
    BY <1>2, <2>2, <2>4, <2>5 DEF IsViewer, Fields, PickFields
  <2>7. Look(v) = [b EXCEPT !.counter = IF (y.counter + 1) % CounterWrap = 0 THEN 1
                                        ELSE y.counter + 1]
    BY <1>1, <1>4, <2>1, <2>3, <2>5, <2>6 DEF Look
  <2>8. /\ Look(v).frame = v.frame /\ Look(v).info = v.info /\ Look(v).pick = v.pick
        /\ Look(v).counter \in {1, v.counter + 1}
    BY <1>2, <2>2, <2>4, <2>6, <2>7 DEF IsViewer, PickFields
  <2>9. QED
    BY <2>8
<1>5. QED
  BY <1>3, <1>4

LEMMA FrameKeepsPick ==
  ASSUME NEW v, IsViewer(v), PickInv(v), ~v.failed, NEW io \in IO,
         NEW hit \in Hits(v) \cup {None}, Spots \subseteq Vector, None \notin Things
  PROVE  PickInv(new_frame(v, io, hit))
<1>1. PICK w : w = [v EXCEPT !.io = io, !.frame = 1 - @]
  OBVIOUS
<1>2. /\ w = [f \in DOMAIN w |-> w[f]] /\ DOMAIN w = DOMAIN v
      /\ w.orbit = v.orbit /\ w.offset = v.offset /\ w.params = v.params
      /\ w.scopes = v.scopes /\ w.fbid = v.fbid
      /\ w.frame = 1 - v.frame /\ w.counter = v.counter /\ w.pick = v.pick
      /\ w.info = v.info /\ w.failed = v.failed
  BY <1>1 DEF IsViewer, Fields, PickFields
<1>3. IsViewer(w) /\ hit \in Hits(w) \cup {None}
  BY <1>2 DEF IsViewer, Hits
<1>4. PICK x : x = IF w.counter # 0 THEN LastPick(w, hit) ELSE w
  OBVIOUS
<1>5. IsViewer(x)
  BY <1>3, <1>4, PickKeepsView
<1>6. /\ ~x.failed /\ x.frame = w.frame /\ x.counter = v.counter
      /\ x.info = NoInfo \/ (v.counter # 0 /\ hit # None /\ x.info = hit)
  BY <1>2, <1>3, <1>4, LastPickFinds DEF PickInv
<1>7. NoInfo.id \notin Things
  BY DEF NoInfo
<1>8. hit # None => hit.at = v.frame
  BY <1>3 DEF Hits, PickInv
<1>9. PICK y : y = ClearPick(x)
  OBVIOUS
<1>10. /\ IsViewer(y) /\ y.frame = x.frame /\ y.counter = x.counter /\ y.info = x.info
       /\ y.pick = {}
  <2>1. y = [x EXCEPT !.pick = {}, !.gl = Clear(Clear(@, pick_buffer), pick_world_xyzs_buffer)]
    BY <1>6, <1>9, PickBuffersFit DEF ClearPick, Checked
  <2>2. y.pick = {}
    BY <1>5, <2>1 DEF IsViewer
  <2>3. QED
    BY <1>5, <1>9, <2>2, ClearKeeps, KeepsViewer DEF Keeps, PickFields
<1>11. PICK z : z = Look(y)
  OBVIOUS
<1>12. /\ z.frame = y.frame /\ z.info = y.info /\ z.pick = {}
       /\ z.counter \in Nat /\ (z.counter = 0 => y.counter = 0)
  BY <1>6, <1>10, <1>11, LookKeepsPick DEF PickInv
<1>13. z = new_frame(v, io, hit)
  BY <1>1, <1>4, <1>9, <1>11 DEF new_frame
<1>14. PickInv(z)
  BY <1>2, <1>6, <1>7, <1>8, <1>10, <1>12 DEF PickInv
<1>15. QED
  BY <1>13, <1>14

(* The calls that set the camera leave what was picked alone.              *)
LEMMA CameraKeepsPick ==
  ASSUME IsViewer(viewer), PickInv(viewer), CameraCall
  PROVE  PickInv(viewer')
<1>1. /\ viewer'.frame = viewer.frame /\ viewer'.counter = viewer.counter
      /\ viewer'.info = viewer.info /\ viewer'.pick = viewer.pick
  BY DEF CameraCall, Call, enable_auto_orbit, set_tx_camera_world, set_pt_world_orbit,
         PushScope, PopScope, IsViewer, Fields, PickFields
<1>2. QED
  BY <1>1 DEF PickInv

LEMMA PickStep ==
  ASSUME InPlane, CountsAreNumbers, None \notin Things, ViewInv, PickInv(viewer),
         [LoopNext \/ Calling(Things)]_display
  PROVE  PickInv(viewer')
<1>1. CASE UNCHANGED viewer
  BY <1>1
<1>2. CASE ~viewer.failed /\ Frame
  <2>1. PICK io \in Mouse[kind], hit \in Hits(viewer) \cup {None} :
          viewer' = new_frame(viewer, io, hit)
    BY <1>2 DEF Frame, Call
  <2>2. io \in IO /\ Spots \subseteq Vector
    BY DEF InPlane, ViewInv
  <2>3. QED
    BY <1>2, <2>1, <2>2, FrameKeepsPick DEF ViewInv
<1>3. CASE CameraCall
  BY <1>3, CameraKeepsPick DEF ViewInv
<1>4. CASE OtherCall
  BY <1>4, OthersKeep, PickKept DEF ViewInv, OtherCall
<1>5. CASE LoopCalls
  BY <1>5, LoopCallsKeep, PickKept DEF ViewInv
<1>6. QED
  BY <1>1, <1>2, <1>3, <1>4, <1>5, AnyStep DEF ViewInv

(* viewer.cpp:339-389, 396-411: what was_clicked() and was_hovered() say   *)
(* of a thing is about the frame before this one: the thing was drawn in   *)
(* it, however many frames the window was minimized for, and however many  *)
(* frames there were.                                                      *)
THEOREM PickedWasDrawn ==
  InPlane /\ CountsAreNumbers /\ None \notin Things => (Display => []PickIsOfLastFrame)
<1>1. ASSUME InPlane, CountsAreNumbers, None \notin Things
      PROVE  Display => []PickIsOfLastFrame
  <2>1. kind \in DOMAIN Mouse /\ LoopInit => PickInv(viewer)
    <3>1. NoInfo.id \notin Things
      BY <1>1 DEF NoInfo
    <3>2. LoopInit => /\ viewer.frame = 0 /\ viewer.counter = 0 /\ viewer.pick = {}
                      /\ viewer.info = NoInfo
      BY DEF LoopInit, InitViewer
    <3>3. QED
      BY <3>1, <3>2 DEF PickInv
  <2>2. ASSUME ViewInv, PickInv(viewer), [LoopNext \/ Calling(Things)]_display
        PROVE  ViewInv' /\ PickInv(viewer)'
    BY <1>1, <2>2, ViewStep, PickStep
  <2>3. PickInv(viewer) => PickIsOfLastFrame
    BY DEF PickInv, PickIsOfLastFrame, was_clicked, was_hovered
  <2>4. QED
    BY InitView, <2>1, <2>2, <2>3, PTL DEF Display
<1>2. QED
  BY <1>1

-----------------------------------------------------------------------------
(* What is drawn.  None stands for what is not there: it is no record, no  *)
(* tuple and not the type of a point.                                      *)
NoneIsNothing == None # [x \in DOMAIN None |-> None[x]] /\ None # "float"

IsRecord(r, fields) == r = [f \in DOMAIN r |-> r[f]] /\ fields \subseteq DOMAIN r

(* The wrappers of OpenGL's objects, as far as what is drawn depends on    *)
(* their shape.                                                            *)
IsContext(gl) ==
  /\ IsRecord(gl, {"bound", "viewport", "stash", "generic", "programs"})
  /\ gl.generic = [l \in Location |-> gl.generic[l]]
IsArray(array) ==
  /\ IsRecord(array, {"arrays", "divisor", "elements"})
  /\ array.arrays = [l \in Location |-> array.arrays[l]]
IsBuffer(buffer) == IsRecord(buffer, {"kind", "type", "id", "data"})
IsTexture(texture) == IsRecord(texture, {"type", "channels", "width", "height", "data"})

(* Points, colors for each of them, with alpha or without, an image as     *)
(* large as its texture, and the frame buffer of its color map.            *)
IsPoints(p) == p.n \in Nat /\ IsBuffer(p.buffer) /\ CanSetAttribute(p.buffer)
                            /\ p.buffer.type = "float"
IsColors(c) ==
  /\ c.n \in Nat /\ CanSetAttribute(c.buffer)
  /\ c.buffer.data.n = IF c.alpha THEN 4 * c.n ELSE 3 * c.n
  /\ c.alpha \in BOOLEAN
IsImage(i) ==
  /\ IsTexture(i.texture) /\ i.texture.data = i.last
  /\ i.texture.width = i.width /\ i.texture.height = i.height
IsCmap(c) ==
  /\ IsRecord(c, {"cmap", "fb"}) /\ IsRecord(c.fb, {"color", "width", "height"})
  /\ IsTexture(c.fb.color)

IsTable(table) == table = [id \in Things |-> table[id]]
Sound(v) ==
  /\ IsContext(v.gl)
  /\ IsTable(v.points) /\ \A id \in Things : v.points[id] # None => IsPoints(v.points[id])
  /\ IsTable(v.colors) /\ \A id \in Things : v.colors[id] # None => IsColors(v.colors[id])
  /\ IsTable(v.arrays) /\ \A id \in Things : v.arrays[id] # None => IsArray(v.arrays[id])
  /\ IsTable(v.images) /\ \A id \in Things : v.images[id] # None => IsImage(v.images[id])
  /\ IsTable(v.cmaps) /\ \A id \in Things : v.cmaps[id] # None => IsCmap(v.cmaps[id])
  /\ IsArray(v.lines.array)
  /\ v.seen # None => AsGiven(v.seen)

(* In a frame loop the colors are those of the points, and each image is   *)
(* of the kind its id says.                                                *)
Like(k, texture) ==
  IF k = "color" THEN texture.type = "u8" /\ texture.channels = 3
  ELSE texture.type = "u16" /\ texture.channels = 1
LoopSound(v) ==
  /\ ~v.failed
  /\ v.colors[Cloud] # None =>
       v.points[Cloud] # None /\ v.colors[Cloud].n = v.points[Cloud].n
  /\ \A k \in Kinds, s \in Serials :
       v.images[Image(k, s)] # None => Like(k, v.images[Image(k, s)].texture)

LEMMA NoRecordIsNone ==
  ASSUME NoneIsNothing
  PROVE  /\ \A a, b : <<a, b>> # None
         /\ \A a, b, c : Data(a, b, c) # None
         /\ \A a, b, c, d : [of |-> a, dimension |-> b, offset |-> c, stride |-> d] # None
         /\ \A a, b, c : [buffer |-> a, n |-> b, alpha |-> c] # None
         /\ \A a, b : [buffer |-> a, n |-> b] # None
BY DEF NoneIsNothing, Data

LEMMA ContextKept ==
  ASSUME NEW gl, IsContext(gl)
  PROVE  /\ \A b : IsContext(Clear(gl, b))
         /\ \A p, b : IsContext(DrawWith(gl, p, b)) /\ DrawWith(gl, p, b).generic = gl.generic
         /\ IsContext(AfterConstruction(gl))
         /\ \A l \in Location : \A x :
              LET g == set_default(gl, l, x)
              IN  /\ IsContext(g) /\ g.generic[l] = x
                  /\ \A k \in Location \ {l} : g.generic[k] = gl.generic[k]
<1>1. ASSUME NEW g, IsContext(g), NEW id, NEW viewport
      PROVE  IsContext(Within(g, id, viewport)) /\ Within(g, id, viewport).generic = g.generic
  BY <1>1 DEF Within, stash_prev_framebuffer, unstash_prev_framebuffer, IsContext, IsRecord
<1>2. \A b : IsContext(Clear(gl, b))
  BY <1>1 DEF Clear
<1>3. ASSUME NEW p, NEW b
      PROVE  IsContext(DrawWith(gl, p, b)) /\ DrawWith(gl, p, b).generic = gl.generic
  <2>1. PICK g : g = ensure_program_initted(gl, p)
    OBVIOUS
  <2>2. IsContext(g) /\ g.generic = gl.generic
    BY <2>1 DEF ensure_program_initted, IsContext, IsRecord
  <2>3. QED
    BY <1>1, <2>1, <2>2 DEF DrawWith, Draw
<1>4. IsContext(AfterConstruction(gl))
  BY DEF AfterConstruction, IsContext, IsRecord
<1>5. ASSUME NEW l \in Location, NEW x
      PROVE  LET g == set_default(gl, l, x)
             IN  /\ IsContext(g) /\ g.generic[l] = x
                 /\ \A k \in Location \ {l} : g.generic[k] = gl.generic[k]
  <2>1. PICK a : a = [gl.generic EXCEPT ![l] = x]
    OBVIOUS
  <2>2. /\ a = [k \in Location |-> a[k]] /\ a[l] = x
        /\ \A k \in Location \ {l} : a[k] = gl.generic[k]
    BY <2>1 DEF IsContext
  <2>3. PICK g : g = set_default(gl, l, x)
    OBVIOUS
  <2>4. IsRecord(g, {"bound", "viewport", "stash", "generic", "programs"}) /\ g.generic = a
    BY <2>1, <2>3 DEF set_default, IsContext, IsRecord
  <2>5. QED
    BY <2>2, <2>3, <2>4 DEF IsContext
<1>6. QED
  BY <1>2, <1>3, <1>4, <1>5

LEMMA ArrayKept ==
  ASSUME NEW array, IsArray(array)
  PROVE  /\ IsArray(PerLine(array)) /\ PerLine(array).arrays = array.arrays
         /\ \A l \in Location : \A of, d, o, s :
              LET a == set_vertex_attribute(array, l, of, d, o, s)
              IN  /\ IsArray(a)
                  /\ a.arrays[l] = [of |-> of, dimension |-> d, offset |-> o,
                                     stride |-> IF s = 0 THEN d ELSE s]
                  /\ \A k \in Location \ {l} : a.arrays[k] = array.arrays[k]
                  /\ a.elements = array.elements
<1>1. IsArray(PerLine(array)) /\ PerLine(array).arrays = array.arrays
  BY DEF PerLine, IsArray, IsRecord
<1>2. ASSUME NEW l \in Location, NEW of, NEW d, NEW o, NEW s
      PROVE  LET a == set_vertex_attribute(array, l, of, d, o, s)
             IN  /\ IsArray(a)
                 /\ a.arrays[l] = [of |-> of, dimension |-> d, offset |-> o,
                                    stride |-> IF s = 0 THEN d ELSE s]
                 /\ \A k \in Location \ {l} : a.arrays[k] = array.arrays[k]
                 /\ a.elements = array.elements
  <2>1. PICK r : r = [of |-> of, dimension |-> d, offset |-> o,
                      stride |-> IF s = 0 THEN d ELSE s]
    OBVIOUS
  <2>2. PICK b : b = [array.arrays EXCEPT ![l] = r]
    OBVIOUS
  <2>3. /\ b = [k \in Location |-> b[k]] /\ b[l] = r
        /\ \A k \in Location \ {l} : b[k] = array.arrays[k]
    BY <2>2 DEF IsArray
  <2>4. PICK a : a = set_vertex_attribute(array, l, of, d, o, s)
    OBVIOUS
  <2>5. a = [array EXCEPT !.arrays = b]
    BY <2>1, <2>2, <2>4 DEF set_vertex_attribute, IsArray, IsRecord
  <2>6. IsRecord(a, {"arrays", "divisor", "elements"}) /\ a.arrays = b
        /\ a.elements = array.elements
    BY <2>5 DEF IsArray, IsRecord
  <2>7. IsArray(a)
    BY <2>3, <2>6 DEF IsArray
  <2>8. QED
    BY <2>1, <2>3, <2>4, <2>6, <2>7
<1>3. QED
  BY <1>1, <1>2

LEMMA OtherLocations ==
  ASSUME NEW array, IsArray(array), NEW l \in Location, NEW k \in Location, k # l,
         NEW of, NEW d, NEW o, NEW s
  PROVE  set_vertex_attribute(array, l, of, d, o, s).arrays[k] = array.arrays[k]
<1>1. PICK r : r = [of |-> of, dimension |-> d, offset |-> o,
                    stride |-> IF s = 0 THEN d ELSE s]
  OBVIOUS
<1>2. PICK b : b = [array.arrays EXCEPT ![l] = r]
  OBVIOUS
<1>3. b[k] = array.arrays[k]
  BY <1>2 DEF IsArray
<1>4. set_vertex_attribute(array, l, of, d, o, s) = [array EXCEPT !.arrays = b]
  BY <1>1, <1>2 DEF set_vertex_attribute, IsArray, IsRecord
<1>5. QED
  BY <1>3, <1>4 DEF IsArray, IsRecord

LEMMA NewArray ==
  IsArray(NewVertexArray) /\ (\A l \in Location : NewVertexArray.arrays[l] = None)
  /\ NewVertexArray.elements = None
BY DEF IsArray, NewVertexArray, IsRecord

(* A call after which the data are as they were.                           *)
SameData(v, w) == (\A f \in DataFields : w[f] = v[f]) /\ IsContext(w.gl)

LEMMA SoundKept ==
  ASSUME NEW v, NEW w, Sound(v), SameData(v, w)
  PROVE  Sound(w)
BY DEF Sound, SameData, DataFields

LEMMA FailedIsSound ==
  ASSUME NEW v, IsViewer(v), Sound(v)
  PROVE  Sound([v EXCEPT !.failed = TRUE])
<1>1. SameData(v, [v EXCEPT !.failed = TRUE])
  BY DEF SameData, Sound, IsViewer, DataFields
<1>2. QED
  BY <1>1, SoundKept

LEMMA PoseAndTintKeepData ==
  ASSUME NEW v, IsViewer(v), Sound(v), NEW id, NEW pose
  PROVE  /\ SameData(v, unset_tint(v, id)) /\ SameData(v, ensure_tint(v, id))
         /\ SameData(v, update_tx_world_object(v, id, pose)) /\ SameData(v, ensure_pose(v, id))
         /\ ensure_tint(v, id).failed = v.failed /\ ensure_pose(v, id).failed = v.failed
<1> DEFINE Same(w) == SameData(v, w) /\ w.failed = v.failed
<1>1. \A x : Same([v EXCEPT !.tint = x]) /\ Same([v EXCEPT !.poses = x])
  BY DEF SameData, IsViewer, DataFields, Sound
<1>2. \A x : Same(unset_tint(v, id)) /\ Same(update_tx_world_object(v, id, x))
  BY <1>1 DEF unset_tint, update_tx_world_object
<1>3. Same(v)
  BY DEF SameData, Sound
<1>4. Same(ensure_tint(v, id)) /\ Same(ensure_pose(v, id))
  BY <1>2, <1>3 DEF ensure_tint, ensure_pose
<1>5. QED
  BY <1>2, <1>4

(* Drawing, as setting a color map, leaves what there is to draw as it was. *)
SameClouds(v, w) == w.points = v.points /\ w.colors = v.colors /\ w.images = v.images

LEMMA PickBufferKeepsData ==
  ASSUME NEW v, IsViewer(v), Sound(v), NEW id, NEW n
  PROVE  /\ Sound(update_pick_buffer(v, id, n))
         /\ update_pick_buffer(v, id, n).failed = v.failed
         /\ SameClouds(v, update_pick_buffer(v, id, n))
<1>1. PICK p, g : p = (v.pick \cup {[id |-> id, n |-> n, at |-> v.frame]})
                  /\ g = draw_vertex_world_xyzs(draw_vertex_ids(v.gl, pick_buffer),
                                                pick_world_xyzs_buffer)
  OBVIOUS
<1>2. IsContext(g)
  BY <1>1, ContextKept DEF Sound, draw_vertex_world_xyzs, draw_vertex_ids
<1>3. PICK w : w = [v EXCEPT !.pick = p, !.gl = g]
  OBVIOUS
<1>4. SameData(v, w) /\ w.failed = v.failed
  BY <1>2, <1>3 DEF SameData, IsViewer, DataFields
<1>5. CanDraw(pick_buffer, NewVertexArray, FALSE, FALSE)
  BY DEF CanDraw
<1> DEFINE after == update_pick_buffer(v, id, n)
<1>6. ~v.failed => Sound(after) /\ after.failed = v.failed
  BY <1>1, <1>3, <1>4, <1>5, SoundKept DEF update_pick_buffer, Checked
<1>7. v.failed => Sound(after) /\ after.failed = v.failed
  BY FailedIsSound DEF update_pick_buffer, Checked, IsViewer
<1>8. SameClouds(v, w) /\ SameClouds(v, [v EXCEPT !.failed = TRUE])
  BY <1>3 DEF SameClouds, IsViewer, DataFields
<1>9. update_pick_buffer(v, id, n) = IF v.failed THEN [v EXCEPT !.failed = TRUE] ELSE w
  BY <1>1, <1>3, <1>5 DEF update_pick_buffer, Checked
<1>10. QED
  BY <1>6, <1>7, <1>8, <1>9

(* draw_points(): each array is set anew, and each default where there is  *)
(* no array.                                                               *)
LEMMA CloudIsDrawn ==
  ASSUME NoneIsNothing, NEW v, IsViewer(v), Sound(v), NEW id \in Things
  PROVE  /\ Sound(draw_points(v, id))
         /\ ~v.failed /\ v.points[id] # None
               /\ (v.colors[id] # None => v.colors[id].n = v.points[id].n)
             => ~draw_points(v, id).failed
         /\ SameClouds(v, draw_points(v, id))
<1> DEFINE w == ensure_tint(ensure_pose(v, id), id)
           p == v.points[id]
           c == v.colors[id]
           gl == draw_colored_vertices(CloudDefaults(v, id), screen(v))
           array == CloudArray(v, id)
           rgba == IF c = None THEN None ELSE c.buffer.data
           now == [xyz |-> Read(gl, array, 0, p.buffer.data),
                   rgb |-> Read(gl, array, 1, rgba), alpha |-> Read(gl, array, 2, rgba)]
           given == [xyz |-> <<p.buffer.data, 0, 3>>,
                     rgb |-> IF c = None THEN <<"red">>
                             ELSE <<rgba, 0, IF rgba.n = 4 * p.n THEN 4 ELSE 3>>,
                     alpha |-> IF c = None THEN <<"opaque">>
                               ELSE IF rgba.n = 3 * p.n THEN <<"opaque">>
                               ELSE <<rgba, 3, 4>>]
           before == [rgb |-> On(v.arrays[id], 1), alpha |-> On(v.arrays[id], 2)]
           seen == [what |-> "cloud", n |-> p.n, now |-> now, given |-> given,
                    before |-> before]
           after == update_pick_buffer(
                      [w EXCEPT !.arrays = Put(@, id, array), !.gl = gl, !.seen = seen], id, p.n)
           check == /\ CanSetAttribute(p.buffer)
                    /\ c # None => CanSetAttribute(c.buffer) /\ c.n = p.n
<1>1. draw_points(v, id) = Checked(v, p # None, Checked(v, check, after))
  BY DEF draw_points
<1>2. /\ IsViewer(w) /\ SameData(v, w) /\ w.failed = v.failed /\ IsContext(gl)
      /\ gl.generic[1] = <<"red">> /\ gl.generic[2] = <<"opaque">>
  <2>1. PICK u : u = ensure_pose(v, id)
    OBVIOUS
  <2>2. IsViewer(u) /\ SameData(v, u) /\ u.failed = v.failed
    BY <2>1, PoseKeeps, KeepsViewer, PoseAndTintKeepData
  <2>3. IsViewer(w) /\ SameData(u, w) /\ w.failed = u.failed
    BY <2>1, <2>2, TintKeeps, KeepsViewer, PoseAndTintKeepData, SoundKept
  <2>4. SameData(v, w)
    BY <2>2, <2>3 DEF SameData
  <2>5. IsContext(v.gl)
    BY DEF Sound
  <2>6. PICK g : g = CloudDefaults(v, id)
    OBVIOUS
  <2>7. IsContext(g)
    BY <2>5, <2>6, ContextKept DEF CloudDefaults, Location
  <2>8. PICK h : h = set_default(set_default(g, 1, <<"red">>), 2, <<"opaque">>)
    OBVIOUS
  <2>9. IsContext(h) /\ h.generic[1] = <<"red">> /\ h.generic[2] = <<"opaque">>
    BY <2>7, <2>8, ContextKept DEF Location
  <2>10. gl = DrawWith(h, "colored_vertices", screen(v))
    BY <2>6, <2>8 DEF draw_colored_vertices
  <2>11. IsContext(gl) /\ gl.generic = h.generic
    BY <2>9, <2>10, ContextKept
  <2>12. QED
    BY <2>2, <2>3, <2>4, <2>9, <2>11
<1> HIDE DEF w, gl
<1>7. SameClouds(v, [v EXCEPT !.failed = TRUE])
  BY DEF SameClouds, IsViewer, DataFields
<1>3. CASE p # None /\ check
  <2>1. PICK old : old = IF v.arrays[id] = None THEN NewVertexArray ELSE v.arrays[id]
    OBVIOUS
  <2>2. /\ IsArray(old)
        /\ \A l \in {1, 2} : old.arrays[l] # None => On(v.arrays[id], l)
    BY <2>1, NewArray DEF Sound, On, Location
  <2>3. PICK xyz : xyz = set_vertex_attribute(old, 0, "points", 3, 0, 0)
    OBVIOUS
  <2>4. /\ IsArray(xyz) /\ xyz.arrays[1] = old.arrays[1] /\ xyz.arrays[2] = old.arrays[2]
        /\ xyz.arrays[0] = [of |-> "points", dimension |-> 3, offset |-> 0, stride |-> 3]
    BY <2>2, <2>3, ArrayKept DEF Location
  <2>5. PICK rgb : rgb = IF c = None THEN xyz
                         ELSE set_vertex_attribute(xyz, 1, "colors", 3, 0, ColorStride(c))
    OBVIOUS
  <2>6. /\ IsArray(rgb) /\ rgb.arrays[0] = xyz.arrays[0] /\ rgb.arrays[2] = old.arrays[2]
        /\ c = None => rgb.arrays[1] = old.arrays[1]
        /\ c # None => rgb.arrays[1] = [of |-> "colors", dimension |-> 3, offset |-> 0,
                                         stride |-> IF c.alpha THEN 4 ELSE 3]
    BY <2>4, <2>5, ArrayKept DEF Location, ColorStride
  <2>7. array = IF c # None /\ c.alpha THEN set_vertex_attribute(rgb, 2, "colors", 1, 3, 4)
                ELSE rgb
    BY <2>1, <2>3, <2>5 DEF CloudArray
  <2>8. /\ IsArray(array) /\ array.arrays[0] = xyz.arrays[0] /\ array.arrays[1] = rgb.arrays[1]
        /\ c # None /\ c.alpha =>
             array.arrays[2] = [of |-> "colors", dimension |-> 1, offset |-> 3, stride |-> 4]
        /\ ~(c # None /\ c.alpha) => array.arrays[2] = old.arrays[2]
    BY <2>6, <2>7, ArrayKept DEF Location
  <2> HIDE DEF array
  <2>9. p.n \in Nat /\ (c # None => IsColors(c) /\ c.n = p.n)
    BY <1>3 DEF Sound, IsPoints
  <2>10. now.xyz = given.xyz
    BY <2>4, <2>8, NoRecordIsNone DEF Read, Attribute
  <2>11. now.rgb = given.rgb \/ before.rgb \/ p.n = 0
    <3>1. CASE c = None
      BY <1>2, <2>2, <2>6, <2>8, <3>1 DEF Read, Attribute
    <3>2. CASE c # None
      <4>1. now.rgb = <<rgba, 0, IF c.alpha THEN 4 ELSE 3>>
        BY <2>6, <2>8, <3>2, NoRecordIsNone DEF Read, Attribute
      <4>2. p.n # 0 => (rgba.n = 4 * p.n <=> c.alpha)
        BY <2>9, <3>2 DEF IsColors
      <4>3. QED
        BY <3>2, <4>1, <4>2
    <3>3. QED
      BY <3>1, <3>2
  <2>12. now.alpha = given.alpha \/ before.alpha \/ p.n = 0
    <3>1. CASE c = None
      BY <1>2, <2>2, <2>6, <2>8, <3>1 DEF Read, Attribute
    <3>2. CASE c # None
      <4>1. p.n # 0 => (rgba.n = 3 * p.n <=> ~c.alpha)
        BY <2>9, <3>2 DEF IsColors
      <4>2. CASE c.alpha
        BY <2>8, <3>2, <4>1, <4>2, NoRecordIsNone DEF Read, Attribute
      <4>3. CASE ~c.alpha
        BY <1>2, <2>2, <2>8, <3>2, <4>1, <4>3 DEF Read, Attribute
      <4>4. QED
        BY <4>2, <4>3
    <3>3. QED
      BY <3>1, <3>2
  <2> HIDE DEF now
  <2>13. AsGiven(seen)
    <3>1. DOMAIN seen.given = {"xyz", "rgb", "alpha"} /\ seen.n = p.n
      OBVIOUS
    <3>2. /\ seen.now = now /\ seen.given = given /\ seen.before = before
          /\ seen.what # "image"
      OBVIOUS
    <3> HIDE DEF seen, given, before
    <3>3. p.n > 0 => p.n # 0
      BY <2>9
    <3>4. p.n > 0 =>
            \A part \in {"xyz", "rgb", "alpha"} :
              now[part] = given[part] \/ (part # "xyz" /\ before[part])
      BY <2>10, <2>11, <2>12, <3>3
    <3>5. QED
      BY <3>1, <3>2, <3>4 DEF AsGiven, Agrees
  <2> HIDE DEF seen
  <2>14. PICK arrays : arrays = Put(w.arrays, id, array)
    OBVIOUS
  <2>15. /\ IsTable(arrays)
         /\ \A t \in Things : arrays[t] # None => IsArray(arrays[t])
    <3>1. w.arrays = v.arrays
      BY <1>2 DEF SameData, DataFields
    <3>2. IsTable(v.arrays) /\ \A t \in Things : v.arrays[t] # None => IsArray(v.arrays[t])
      BY DEF Sound
    <3>3. arrays = [t \in Things |-> IF t = id THEN array ELSE v.arrays[t]]
      BY <2>14, <3>1, <3>2 DEF Put, IsTable
    <3>4. QED
      BY <2>8, <3>2, <3>3 DEF IsTable
  <2>16. PICK x : x = [w EXCEPT !.arrays = arrays, !.gl = gl, !.seen = seen]
    OBVIOUS
  <2>17. /\ x.failed = w.failed /\ x.arrays = arrays /\ x.gl = gl /\ x.seen = seen
         /\ \A f \in DataFields \ {"arrays", "seen"} : x[f] = w[f]
    BY <1>2, <2>16 DEF IsViewer, DataFields
  <2>18. Sound(x)
    BY <1>2, <2>13, <2>15, <2>17 DEF Sound, SameData, DataFields
  <2>19. IsViewer(x)
    <3>1. Keeps(w, x)
      BY <1>2, <2>16 DEF IsViewer, Keeps, Fields, PickFields, DataFields
    <3>2. QED
      BY <1>2, <3>1, KeepsViewer
  <2>20. after = update_pick_buffer(x, id, p.n)
    BY <2>14, <2>16
  <2>21. SameClouds(v, x)
    BY <1>2, <2>17 DEF SameClouds, SameData, DataFields
  <2>22. Sound(after) /\ after.failed = v.failed /\ SameClouds(x, after)
    BY <1>2, <2>17, <2>18, <2>19, <2>20, PickBufferKeepsData
  <2>23. SameClouds(v, after)
    BY <2>21, <2>22 DEF SameClouds
  <2> HIDE DEF after, check
  <2>24. QED
    BY <1>1, <1>3, <1>7, <2>22, <2>23, FailedIsSound DEF Checked
<1>4. p # None => CanSetAttribute(p.buffer)
  BY DEF Sound, IsPoints
<1>5. c # None => CanSetAttribute(c.buffer)
  BY DEF Sound, IsColors
<1> HIDE DEF after
<1>6. QED
  BY <1>1, <1>3, <1>4, <1>5, <1>7, FailedIsSound DEF Checked

(* A frame leaves the data alone, and fails no CHECK.                      *)
LEMMA FrameKeepsData ==
  ASSUME NEW v, IsViewer(v), Sound(v), ~v.failed, NEW io \in IO,
         NEW hit \in Hits(v) \cup {None}, Spots \subseteq Vector
  PROVE  SameData(v, new_frame(v, io, hit)) /\ ~new_frame(v, io, hit).failed
<1> DEFINE Same(a, b) == /\ DOMAIN a = DOMAIN b /\ a.failed = b.failed
                         /\ \A f \in DataFields : a[f] = b[f]
<1>1. PICK w : w = [v EXCEPT !.io = io, !.frame = 1 - @]
  OBVIOUS
<1>2. Same(w, v) /\ IsContext(w.gl)
  BY <1>1 DEF IsViewer, DataFields, Sound
<1>3. PICK x : x = IF w.counter # 0 THEN LastPick(w, hit) ELSE w
  OBVIOUS
<1>4. Same(x, v) /\ IsContext(x.gl)
  <2>1. PICK a : a = [w EXCEPT !.gl = draw_debug_vertex_ids(
                                        Clear(@, debug_pick_buffer), debug_pick_buffer)]
    OBVIOUS
  <2>2. IsContext(draw_debug_vertex_ids(Clear(w.gl, debug_pick_buffer), debug_pick_buffer))
    BY <1>2, ContextKept DEF draw_debug_vertex_ids
  <2>3. Same(a, v) /\ IsContext(a.gl)
    BY <1>2, <2>1, <2>2 DEF IsViewer, DataFields
  <2>4. PICK b : b = update_pick_info(a, hit)
    OBVIOUS
  <2>5. Same(b, v) /\ IsContext(b.gl)
    BY <2>3, <2>4 DEF update_pick_info, IsViewer, DataFields
  <2>6. PICK z : z = IF w.auto /\ b.info.id # None /\ b.io.click
                       THEN set_pt_world_orbit(b, b.info.xyz) ELSE b
    OBVIOUS
  <2>7. LastPick(w, hit) = z
    BY <1>2, <2>1, <2>4, <2>6, PickBuffersFit DEF LastPick, Checked
  <2>8. Same(z, v) /\ IsContext(z.gl)
    BY <2>5, <2>6 DEF set_pt_world_orbit, IsViewer, DataFields
  <2>9. QED
    BY <1>2, <1>3, <2>7, <2>8
<1>5. PICK y : y = ClearPick(x)
  OBVIOUS
<1>6. Same(y, v) /\ IsContext(y.gl)
  <2>1. y = [x EXCEPT !.pick = {}, !.gl = Clear(Clear(@, pick_buffer), pick_world_xyzs_buffer)]
    BY <1>4, <1>5, PickBuffersFit DEF ClearPick, Checked
  <2>2. IsContext(Clear(Clear(x.gl, pick_buffer), pick_world_xyzs_buffer))
    BY <1>4, ContextKept
  <2>3. QED
    BY <1>4, <2>1, <2>2 DEF IsViewer, DataFields
<1>7. PICK z : z = Look(y)
  OBVIOUS
<1>8. Same(z, v) /\ IsContext(z.gl)
  <2>1. PICK a : a = [y EXCEPT !.params.window = y.io.window]
    OBVIOUS
  <2>2. Same(a, v) /\ IsContext(a.gl)
    BY <1>6, <2>1 DEF IsViewer, DataFields
  <2>3. CASE 0 \in {y.io.window[1], y.io.window[2]}
    BY <1>7, <2>1, <2>2, <2>3 DEF Look
  <2>4. CASE ~(0 \in {y.io.window[1], y.io.window[2]})
    <3>1. PICK b : b = IF y.io.capture THEN a ELSE update_orbit_from_mouse(a, y.io)
      OBVIOUS
    <3>2. Same(b, v) /\ IsContext(b.gl)
      BY <2>2, <3>1 DEF update_orbit_from_mouse, IsViewer, DataFields
    <3>3. PICK c : c = update_view_params_from_orbit(b)
      OBVIOUS
    <3>4. Same(c, v) /\ IsContext(c.gl)
      BY <3>2, <3>3 DEF update_view_params_from_orbit, IsViewer, DataFields
    <3>5. PICK d : d = [c EXCEPT !.params.fb = 0]
      OBVIOUS
    <3>6. Same(d, v) /\ IsContext(d.gl) /\ d.counter = c.counter
      BY <3>4, <3>5 DEF IsViewer, DataFields, PickFields
    <3>7. z = [d EXCEPT !.counter = IF (c.counter + 1) % CounterWrap = 0 THEN 1
                                    ELSE c.counter + 1]
      BY <1>7, <2>1, <2>4, <3>1, <3>3, <3>5, <3>6 DEF Look
    <3>8. QED
      BY <3>6, <3>7 DEF IsViewer, DataFields
  <2>5. QED
    BY <2>3, <2>4
<1>9. z = new_frame(v, io, hit)
  BY <1>1, <1>3, <1>5, <1>7 DEF new_frame
<1>10. QED
  BY <1>8, <1>9 DEF SameData

LEMMA CameraKeepsData ==
  ASSUME IsViewer(viewer), Sound(viewer), CameraCall
  PROVE  SameData(viewer, viewer')
BY DEF CameraCall, Call, enable_auto_orbit, set_tx_camera_world, set_pt_world_orbit,
       PushScope, PopScope, IsViewer, DataFields, SameData, Sound

(* Points and their colors.                                                *)
LEMMA PutInTable ==
  ASSUME NEW table, IsTable(table), NEW id \in Things, NEW x
  PROVE  Put(table, id, x) = [t \in Things |-> IF t = id THEN x ELSE table[t]]
BY DEF IsTable, Put

LEMMA UploadFills ==
  ASSUME NEW buffer, IsBuffer(buffer), NEW data
  PROVE  LET b == Upload(buffer, data)
         IN  /\ IsBuffer(b) /\ b.kind = buffer.kind /\ b.type = buffer.type
             /\ b.data = data /\ (buffer.kind = "array" => CanSetAttribute(b))
<1>1. PICK b : b = Upload(buffer, data)
  OBVIOUS
<1>2. /\ IsBuffer(b) /\ b.kind = buffer.kind /\ b.type = buffer.type /\ b.id /\ b.data = data
  BY <1>1 DEF Upload, IsBuffer, IsRecord
<1>3. QED
  BY <1>1, <1>2 DEF CanSetAttribute

LEMMA NewBufferIsBuffer ==
  ASSUME NEW type
  PROVE  /\ IsBuffer(NewBuffer("array", type)) /\ NewBuffer("array", type).type = type
         /\ NewBuffer("array", type).kind = "array"
BY DEF NewBuffer, IsBuffer, IsRecord

Counted(p, n) == p # None /\ p.n = n

LEMMA PointsAreGiven ==
  ASSUME NoneIsNothing, NEW v, IsViewer(v), Sound(v), NEW id \in Things, NEW n \in Nat, NEW as
  PROVE  LET w == update_points(v, id, n, as)
         IN  /\ Sound(w)
             /\ ~v.failed => ~w.failed /\ Counted(w.points[id], n)
             /\ w.colors = v.colors /\ w.images = v.images
<1>1. PICK buffer, data : /\ buffer = IF v.points[id] = None THEN NewBuffer("array", "float")
                                      ELSE v.points[id].buffer
                          /\ data = Data("float", 3 * n, as)
  OBVIOUS
<1>2. IsBuffer(buffer) /\ buffer.kind = "array" /\ buffer.type = "float"
  BY <1>1, NewBufferIsBuffer DEF Sound, IsPoints, CanSetAttribute
<1>3. CanUpload(buffer, data)
  <2>1. "float" # None
    BY DEF NoneIsNothing
  <2>2. data.type = "float"
    BY <1>1 DEF Data
  <2>3. QED
    BY <1>2, <2>1, <2>2 DEF CanUpload
<1>p. PICK p : p = [buffer |-> Upload(buffer, data), n |-> n]
  OBVIOUS
<1>4. IsPoints(p) /\ p # None /\ p.n = n
  <2>1. p.n = n /\ p.buffer = Upload(buffer, data) /\ p # None
    BY <1>p, NoRecordIsNone
  <2>2. QED
    BY <1>2, <2>1, UploadFills DEF IsPoints
<1>5. PICK points : points = Put(v.points, id, p)
  OBVIOUS
<1>6. IsTable(v.points) /\ \A t \in Things : v.points[t] # None => IsPoints(v.points[t])
  BY DEF Sound
<1>7. points = [t \in Things |-> IF t = id THEN p ELSE v.points[t]]
  BY <1>5, <1>6, PutInTable
<1>8. /\ IsTable(points) /\ points[id] = p
      /\ \A t \in Things : points[t] # None => IsPoints(points[t])
  BY <1>4, <1>6, <1>7 DEF IsTable
<1>9. PICK w : w = [v EXCEPT !.points = points]
  OBVIOUS
<1>10. /\ w.failed = v.failed /\ w.points = points /\ w.gl = v.gl
       /\ \A f \in DataFields \ {"points"} : w[f] = v[f]
  BY <1>9 DEF IsViewer, DataFields
<1>11. Sound(w)
  BY <1>8, <1>10 DEF Sound, DataFields
<1>12. update_points(v, id, n, as) =
         IF v.failed THEN [v EXCEPT !.failed = TRUE] ELSE w
  BY <1>1, <1>3, <1>p, <1>5, <1>9 DEF update_points, Checked
<1>13. LET u == [v EXCEPT !.failed = TRUE] IN u.colors = v.colors /\ u.images = v.images
  BY DEF IsViewer, DataFields
<1>14. QED
  BY <1>4, <1>8, <1>10, <1>11, <1>12, <1>13, FailedIsSound DEF DataFields, Counted

LEMMA ColorsAreGiven ==
  ASSUME NoneIsNothing, NEW v, IsViewer(v), Sound(v), NEW id \in Things, NEW data
  PROVE  LET w == update_point_colors(v, id, data)
         IN  /\ Sound(w)
             /\ ~v.failed /\ v.points[id] # None /\ data.n \in {3 * v.points[id].n,
                                                              4 * v.points[id].n}
                  => ~w.failed /\ w.colors[id].n = v.points[id].n
             /\ w.points = v.points /\ w.images = v.images
<1> DEFINE check == /\ v.points[id] # None
                    /\ data.n \in {3 * v.points[id].n, 4 * v.points[id].n}
<1>1. PICK c : c = [buffer |-> Upload(NewBuffer("array", data.type), data),
                    n |-> v.points[id].n, alpha |-> data.n = 4 * v.points[id].n]
  OBVIOUS
<1>2. check => IsColors(c)
  <2>1. SUFFICES ASSUME check PROVE IsColors(c)
    OBVIOUS
  <2>2. v.points[id].n \in Nat
    BY <2>1 DEF Sound, IsPoints
  <2>3. c.buffer.data = data /\ CanSetAttribute(c.buffer)
    BY <1>1, UploadFills, NewBufferIsBuffer
  <2>4. c.n = v.points[id].n /\ c.alpha = (data.n = 4 * v.points[id].n)
    BY <1>1
  <2>5. CASE data.n = 4 * v.points[id].n
    BY <2>1, <2>2, <2>3, <2>4, <2>5 DEF IsColors
  <2>6. CASE data.n # 4 * v.points[id].n
    BY <2>1, <2>2, <2>3, <2>4, <2>6 DEF IsColors
  <2>7. QED
    BY <2>5, <2>6
<1>3. PICK colors : colors = Put(v.colors, id, c)
  OBVIOUS
<1>4. IsTable(v.colors) /\ \A t \in Things : v.colors[t] # None => IsColors(v.colors[t])
  BY DEF Sound
<1>5. colors = [t \in Things |-> IF t = id THEN c ELSE v.colors[t]]
  BY <1>3, <1>4, PutInTable
<1>6. /\ IsTable(colors) /\ colors[id] = c
      /\ check => \A t \in Things : colors[t] # None => IsColors(colors[t])
  BY <1>2, <1>4, <1>5 DEF IsTable
<1>7. PICK w : w = [v EXCEPT !.colors = colors]
  OBVIOUS
<1>8. /\ w.failed = v.failed /\ w.colors = colors /\ w.gl = v.gl
      /\ \A f \in DataFields \ {"colors"} : w[f] = v[f]
  BY <1>7 DEF IsViewer, DataFields
<1>9. check => Sound(w)
  BY <1>6, <1>8 DEF Sound, DataFields
<1>10. update_point_colors(v, id, data) =
         IF v.failed \/ ~check THEN [v EXCEPT !.failed = TRUE] ELSE w
  BY <1>1, <1>3, <1>7 DEF update_point_colors, Checked
<1>11. LET u == [v EXCEPT !.failed = TRUE] IN u.points = v.points /\ u.images = v.images
  BY DEF IsViewer, DataFields
<1>12. QED
  BY <1>1, <1>6, <1>8, <1>9, <1>10, <1>11, FailedIsSound DEF DataFields

(* Shapes and lines.                                                       *)
LEMMA NothingIsSeen ==
  ASSUME NEW v, IsViewer(v), Sound(v), NEW gl, IsContext(gl)
  PROVE  Sound([v EXCEPT !.gl = gl, !.seen = None]) /\ IsViewer([v EXCEPT !.gl = gl, !.seen = None])
<1>1. PICK w : w = [v EXCEPT !.gl = gl, !.seen = None]
  OBVIOUS
<1>2. w.gl = gl /\ w.seen = None /\ \A f \in DataFields \ {"seen"} : w[f] = v[f]
  BY <1>1 DEF IsViewer, DataFields
<1>3. Sound(w)
  BY <1>2 DEF Sound, DataFields
<1>4. Keeps(v, w)
  BY <1>1 DEF IsViewer, Keeps, Fields, PickFields, DataFields
<1>5. QED
  BY <1>1, <1>3, <1>4, KeepsViewer

LEMMA ShapesAreSound ==
  ASSUME NEW v, IsViewer(v), Sound(v), NEW id, NEW shape, NEW color
  PROVE  Sound(draw_coordinate_frame(v, id)) /\ Sound(draw_shape(v, id, shape, color))
<1>1. PICK w : w = ensure_tint(v, id)
  OBVIOUS
<1>2. IsViewer(w) /\ Sound(w) /\ IsContext(w.gl)
  BY <1>1, TintKeeps, KeepsViewer, PoseAndTintKeepData, SoundKept DEF Sound
<1>3. PICK g, h : /\ g = draw_colored_vertices(w.gl, screen(v))
                  /\ h = draw_colored_vertices(
                           set_default(set_default(w.gl, 1, <<color>>), 2, <<"opaque">>),
                           screen(v))
  OBVIOUS
<1>4. \A gl : IsContext(gl) => IsContext(draw_colored_vertices(gl, screen(v)))
  BY ContextKept DEF draw_colored_vertices, Location
<1>5. IsContext(g) /\ IsContext(h)
  BY <1>2, <1>3, <1>4, ContextKept DEF Location
<1>6. \A gl, n : IsContext(gl) => Sound(update_pick_buffer([w EXCEPT !.gl = gl, !.seen = None], id, n))
  BY <1>2, NothingIsSeen, PickBufferKeepsData
<1>7. Sound(draw_coordinate_frame(v, id))
  BY <1>1, <1>3, <1>5, <1>6, FailedIsSound DEF draw_coordinate_frame, Checked
<1>8. Sound(draw_shape(v, id, shape, color))
  BY <1>1, <1>3, <1>5, <1>6, FailedIsSound DEF draw_shape, Checked
<1>9. QED
  BY <1>7, <1>8

LEMMA LineEnds ==
  ASSUME NEW x, IsArray(x)
  PROVE  LET ends == set_vertex_attribute(set_vertex_attribute(x, 0, "points1", 3, 0, 0),
                                          1, "points2", 3, 0, 0)
         IN  IsArray(ends) /\ ends.arrays[2] = x.arrays[2] /\ ends.arrays[3] = x.arrays[3]
<1>1. /\ 0 \in Location /\ 1 \in Location /\ 2 \in Location /\ 3 \in Location
      /\ 2 # 0 /\ 3 # 0 /\ 2 # 1 /\ 3 # 1
  BY DEF Location
<1>2. PICK near : near = set_vertex_attribute(x, 0, "points1", 3, 0, 0)
  OBVIOUS
<1>3. IsArray(near)
  BY <1>1, <1>2, ArrayKept
<1>4. near.arrays[2] = x.arrays[2] /\ near.arrays[3] = x.arrays[3]
  BY <1>1, <1>2, OtherLocations
<1>5. PICK far : far = set_vertex_attribute(near, 1, "points2", 3, 0, 0)
  OBVIOUS
<1>6. IsArray(far)
  BY <1>1, <1>3, <1>5, ArrayKept
<1>7. far.arrays[2] = near.arrays[2] /\ far.arrays[3] = near.arrays[3]
  BY <1>1, <1>3, <1>5, OtherLocations
<1>8. QED
  BY <1>2, <1>4, <1>5, <1>6, <1>7

LEMMA LinesAreDrawn ==
  ASSUME NoneIsNothing, NEW v, IsViewer(v), Sound(v), NEW id, NEW n, NEW colors
  PROVE  Sound(draw_lines(v, id, id, n, colors))
<1> DEFINE each == colors.n \notin {0, 3, 4}
           rgba == each /\ colors.n = 4 * n
           stride == IF rgba THEN 4 ELSE 3
           one == IF colors.n = 0 THEN <<"red">> ELSE <<colors.as>>
           ends == set_vertex_attribute(
                     set_vertex_attribute(v.lines.array, 0, "points1", 3, 0, 0),
                     1, "points2", 3, 0, 0)
           rgb == IF each THEN set_vertex_attribute(ends, 2, "colors", 3, 0, stride) ELSE ends
           array == IF rgba THEN set_vertex_attribute(rgb, 3, "colors", 1, 3, 4) ELSE rgb
           red == IF each THEN v.gl ELSE set_default(v.gl, 2, one)
           gl == IF rgba THEN red ELSE set_default(red, 3, <<"opaque">>)
           buffer == IF each THEN Upload(NewBuffer("array", colors.type), colors)
                     ELSE v.lines.colors
           lines == [array |-> PerLine(array), colors |-> buffer]
           before == [rgb |-> On(v.lines.array, 2), alpha |-> On(v.lines.array, 3)]
           now == [rgb |-> Read(gl, array, 2, buffer.data),
                   alpha |-> Read(gl, array, 3, buffer.data)]
           given == [rgb |-> IF each THEN <<colors, 0, stride>> ELSE one,
                     alpha |-> IF rgba THEN <<colors, 3, 4>> ELSE <<"opaque">>]
           seen == [what |-> "lines", n |-> n, before |-> before, now |-> now, given |-> given]
           drawn == draw_line_instances(gl, screen(v))
           w == ensure_pose(ensure_pose(v, id), id)
           after == [w EXCEPT !.lines = lines, !.gl = drawn, !.seen = seen]
<1>1. draw_lines(v, id, id, n, colors) =
        Checked(v, /\ each => colors.n \in {3 * n, 4 * n}
                   /\ CanDraw(screen(v), array, TRUE, FALSE), after)
  BY DEF draw_lines
<1>2. IsContext(v.gl) /\ IsArray(v.lines.array)
  BY DEF Sound
<1> HIDE DEF each, one
<1>3. /\ IsArray(ends) /\ ends.arrays[2] = v.lines.array.arrays[2]
      /\ ends.arrays[3] = v.lines.array.arrays[3]
  BY <1>2, LineEnds
<1> HIDE DEF ends
<1>4. /\ IsArray(rgb) /\ rgb.arrays[3] = v.lines.array.arrays[3]
      /\ each => rgb.arrays[2] = [of |-> "colors", dimension |-> 3, offset |-> 0,
                                  stride |-> stride]
      /\ ~each => rgb.arrays[2] = v.lines.array.arrays[2]
  BY <1>3, ArrayKept DEF Location
<1> HIDE DEF rgb
<1>5. /\ IsArray(array) /\ array.arrays[2] = rgb.arrays[2]
      /\ rgba => array.arrays[3] = [of |-> "colors", dimension |-> 1, offset |-> 3,
                                    stride |-> 4]
      /\ ~rgba => array.arrays[3] = v.lines.array.arrays[3]
  BY <1>4, ArrayKept DEF Location
<1> HIDE DEF array
<1>6. IsContext(red) /\ (~each => red.generic[2] = one)
  BY <1>2, ContextKept DEF Location
<1> HIDE DEF red
<1>7. /\ IsContext(gl) /\ (~each => gl.generic[2] = one)
      /\ ~rgba => gl.generic[3] = <<"opaque">>
  <2>1. rgba => each
    OBVIOUS
  <2> HIDE DEF rgba
  <2>2. QED
    BY <1>6, <2>1, ContextKept DEF Location
<1> HIDE DEF gl
<1>8. each => buffer.data = colors
  BY UploadFills, NewBufferIsBuffer
<1> HIDE DEF buffer
<1>9. now.rgb = given.rgb \/ before.rgb
  <2>1. CASE each
    BY <1>4, <1>5, <1>8, <2>1, NoRecordIsNone DEF Read, Attribute
  <2>2. CASE ~each
    <3>1. v.lines.array # None
      BY <1>2 DEF IsArray, IsRecord, NoneIsNothing
    <3>2. array.arrays[2] = v.lines.array.arrays[2] /\ gl.generic[2] = one
      BY <1>4, <1>5, <1>7, <2>2
    <3>3. before.rgb = (array.arrays[2] # None)
      BY <3>1, <3>2 DEF On
    <3>4. array.arrays[2] = None => now.rgb = one
      BY <3>2 DEF Read, Attribute
    <3>5. given.rgb = one
      BY <2>2
    <3>6. QED
      BY <3>3, <3>4, <3>5
  <2>3. QED
    BY <2>1, <2>2
<1>10. now.alpha = given.alpha \/ before.alpha
  <2>1. CASE rgba
    BY <1>5, <1>8, <2>1, NoRecordIsNone DEF Read, Attribute
  <2>2. CASE ~rgba
    <3>1. v.lines.array # None
      BY <1>2 DEF IsArray, IsRecord, NoneIsNothing
    <3>2. array.arrays[3] = v.lines.array.arrays[3] /\ gl.generic[3] = <<"opaque">>
      BY <1>5, <1>7, <2>2
    <3>3. before.alpha = (array.arrays[3] # None)
      BY <3>1, <3>2 DEF On
    <3>4. array.arrays[3] = None => now.alpha = <<"opaque">>
      BY <3>2 DEF Read, Attribute
    <3>5. given.alpha = <<"opaque">>
      BY <2>2
    <3>6. QED
      BY <3>3, <3>4, <3>5
  <2>3. QED
    BY <2>1, <2>2
<1> HIDE DEF now, before
<1>11. AsGiven(seen)
  <2>1. DOMAIN seen.given = {"rgb", "alpha"}
    OBVIOUS
  <2>2. QED
    BY <1>9, <1>10, <2>1 DEF AsGiven, Agrees
<1> HIDE DEF seen
<1>12. IsArray(lines.array) /\ IsContext(drawn)
  BY <1>5, <1>7, ArrayKept, ContextKept DEF draw_line_instances
<1> HIDE DEF lines, drawn
<1>13. IsViewer(w) /\ SameData(v, w)
  <2>1. PICK u : u = ensure_pose(v, id)
    OBVIOUS
  <2>2. IsViewer(u) /\ SameData(v, u) /\ Sound(u)
    BY <2>1, PoseKeeps, KeepsViewer, PoseAndTintKeepData, SoundKept
  <2>3. IsViewer(w) /\ SameData(u, w)
    BY <2>1, <2>2, PoseKeeps, KeepsViewer, PoseAndTintKeepData
  <2>4. QED
    BY <2>2, <2>3 DEF SameData
<1> HIDE DEF w
<1>14. /\ after.lines = lines /\ after.gl = drawn /\ after.seen = seen
       /\ \A f \in DataFields \ {"lines", "seen"} : after[f] = w[f]
  BY <1>13 DEF IsViewer, DataFields
<1> HIDE DEF after
<1>15. Sound(after)
  BY <1>11, <1>12, <1>13, <1>14 DEF Sound, SameData, DataFields
<1>16. QED
  BY <1>1, <1>15, FailedIsSound DEF Checked

(* Images, as large as they are said to be, also through a color map.      *)
LEMMA SizeIsEnsured ==
  ASSUME NEW texture, IsTexture(texture), NEW width, NEW height
  PROVE  LET t == ensure_size(texture, width, height)
         IN  /\ IsTexture(t) /\ t.width = width /\ t.height = height
             /\ t.type = texture.type /\ t.channels = texture.channels
BY DEF ensure_size, IsTexture, IsRecord

LEMMA DataAreSet ==
  ASSUME NEW t, IsTexture(t), NEW data
  PROVE  LET u == [t EXCEPT !.data = data]
         IN  /\ IsTexture(u) /\ u.data = data /\ u.width = t.width /\ u.height = t.height
             /\ u.type = t.type /\ u.channels = t.channels
BY DEF IsTexture, IsRecord

LEMMA UploadedTexture ==
  ASSUME NEW texture, IsTexture(texture), NEW width, NEW height, NEW data
  PROVE  LET t == UploadTexture(texture, width, height, data)
         IN  /\ IsTexture(t) /\ t.width = width /\ t.height = height /\ t.data = data
             /\ t.type = texture.type /\ t.channels = texture.channels
<1>1. PICK sized : sized = ensure_size(texture, width, height)
  OBVIOUS
<1>2. PICK t : t = [sized EXCEPT !.data = data]
  OBVIOUS
<1>3. t = UploadTexture(texture, width, height, data)
  BY <1>1, <1>2 DEF UploadTexture
<1>4. /\ IsTexture(sized) /\ sized.width = width /\ sized.height = height
      /\ sized.type = texture.type /\ sized.channels = texture.channels
  BY <1>1, SizeIsEnsured
<1>5. /\ IsTexture(t) /\ t.data = data /\ t.width = sized.width /\ t.height = sized.height
      /\ t.type = sized.type /\ t.channels = sized.channels
  BY <1>2, <1>4, DataAreSet
<1>6. QED
  BY <1>3, <1>4, <1>5

LEMMA NewTextureIsTexture ==
  ASSUME NEW type, NEW channels, NEW width, NEW height
  PROVE  LET t == NewTexture(type, channels, width, height)
         IN  IsTexture(t) /\ t.type = type /\ t.channels = channels
<1>1. PICK r : r = [type |-> type, channels |-> channels, width |-> 0, height |-> 0,
                    data |-> None]
  OBVIOUS
<1>2. IsTexture(r) /\ r.type = type /\ r.channels = channels
  BY <1>1 DEF IsTexture, IsRecord
<1>3. QED
  BY <1>1, <1>2, SizeIsEnsured DEF NewTexture

LEMMA ImageIsUpdated ==
  ASSUME NoneIsNothing, NEW v, IsViewer(v), Sound(v), NEW id \in Things,
         NEW width, NEW height, NEW data, data # None
  PROVE  LET w == update_image(v, id, width, height, data)
             channels == data.n \div (width * height)
         IN  /\ Sound(w)
             /\ /\ ~v.failed /\ width * height # 0 /\ data.n % (width * height) = 0
                /\ channels \in {1, 3} /\ data.type \in {"float", "u8", "u16"}
                /\ data.n = width * height * channels
                /\ v.images[id] # None => /\ v.images[id].texture.type = data.type
                                          /\ v.images[id].texture.channels = channels
                => /\ ~w.failed /\ w.images[id].texture.type = data.type
                   /\ w.images[id].texture.channels = channels
             /\ w.points = v.points /\ w.colors = v.colors
             /\ \A t \in Things \ {id} : w.images[t] = v.images[t]
<1> DEFINE channels == data.n \div (width * height)
           texture == IF v.images[id] = None THEN NewTexture(data.type, channels, 0, 0)
                      ELSE v.images[id].texture
           check == /\ data.n % (width * height) = 0 /\ channels \in {1, 3}
                    /\ data.type \in {"float", "u8", "u16"}
                    /\ CanUploadTexture(texture, width, height, data)
<1>1. IsTexture(texture)
  BY NewTextureIsTexture DEF Sound, IsImage
<1>2. /\ ~(v.images[id] = None) => texture = v.images[id].texture
      /\ v.images[id] = None => texture.type = data.type /\ texture.channels = channels
  BY NewTextureIsTexture
<1> HIDE DEF texture
<1>3. PICK t : t = UploadTexture(texture, width, height, data)
  OBVIOUS
<1>4. /\ IsTexture(t) /\ t.width = width /\ t.height = height /\ t.data = data
      /\ t.type = texture.type /\ t.channels = texture.channels
  BY <1>1, <1>3, UploadedTexture
<1>5. PICK i : i = [width |-> width, height |-> height, last |-> data, texture |-> t]
  OBVIOUS
<1>6. IsImage(i) /\ i.texture = t
  BY <1>4, <1>5 DEF IsImage
<1>7. PICK images : images = Put(v.images, id, i)
  OBVIOUS
<1>8. IsTable(v.images) /\ \A x \in Things : v.images[x] # None => IsImage(v.images[x])
  BY DEF Sound
<1>9. images = [x \in Things |-> IF x = id THEN i ELSE v.images[x]]
  BY <1>7, <1>8, PutInTable
<1>10. /\ IsTable(images) /\ images[id] = i
       /\ \A x \in Things \ {id} : images[x] = v.images[x]
       /\ \A x \in Things : images[x] # None => IsImage(images[x])
  BY <1>6, <1>8, <1>9 DEF IsTable
<1>11. PICK w : w = [v EXCEPT !.images = images]
  OBVIOUS
<1>12. /\ w.failed = v.failed /\ w.images = images /\ w.gl = v.gl
       /\ \A f \in DataFields \ {"images"} : w[f] = v[f]
  BY <1>11 DEF IsViewer, DataFields
<1>13. Sound(w)
  BY <1>10, <1>12 DEF Sound, DataFields
<1>14. update_image(v, id, width, height, data) =
         Checked(v, width * height # 0, Checked(v, check, w))
  BY <1>3, <1>5, <1>7, <1>11 DEF update_image, texture
<1>15. PICK u : u = [v EXCEPT !.failed = TRUE]
  OBVIOUS
<1>16. u.points = v.points /\ u.colors = v.colors /\ u.images = v.images /\ Sound(u)
  BY <1>15, FailedIsSound DEF IsViewer, DataFields
<1>17. /\ data.n % (width * height) = 0 /\ channels \in {1, 3}
       /\ data.type \in {"float", "u8", "u16"} /\ data.n = width * height * channels
       /\ v.images[id] # None => /\ v.images[id].texture.type = data.type
                                 /\ v.images[id].texture.channels = channels
       => check /\ texture.type = data.type /\ texture.channels = channels
  BY <1>2 DEF CanUploadTexture, Pixels
<1> HIDE DEF check, channels
<1>18. update_image(v, id, width, height, data) \in {u, w}
  BY <1>14, <1>15 DEF Checked
<1>19. check /\ width * height # 0 /\ ~v.failed => update_image(v, id, width, height, data) = w
  BY <1>14 DEF Checked
<1>20. w.points = v.points /\ w.colors = v.colors
  BY <1>12 DEF DataFields
<1>21. QED
  BY <1>4, <1>6, <1>10, <1>12, <1>13, <1>16, <1>17, <1>18, <1>19, <1>20 DEF channels

LEMMA NewFrameBufferIsCmap ==
  ASSUME NEW width, NEW height, NEW cmap
  PROVE  IsCmap([cmap |-> cmap, fb |-> NewFrameBuffer(4, NewTexture("u8", 3, 0, 0), width,
                                                      height, FALSE)])
<1>1. PICK t : t = NewTexture("u8", 3, 0, 0)
  OBVIOUS
<1>2. IsTexture(t)
  BY <1>1, NewTextureIsTexture
<1>3. PICK u : u = ensure_size(t, width, height)
  OBVIOUS
<1>4. IsTexture(u)
  BY <1>2, <1>3, SizeIsEnsured
<1>5. PICK fb : fb = NewFrameBuffer(4, t, width, height, FALSE)
  OBVIOUS
<1>6. IsRecord(fb, {"color", "width", "height"}) /\ fb.color = u
  BY <1>3, <1>5 DEF NewFrameBuffer, set_size, IsRecord
<1>7. PICK c : c = [cmap |-> cmap, fb |-> fb]
  OBVIOUS
<1>8. IsRecord(c, {"cmap", "fb"}) /\ c.fb = fb
  BY <1>7 DEF IsRecord
<1>9. IsCmap(c)
  BY <1>4, <1>6, <1>8 DEF IsCmap
<1>10. QED
  BY <1>1, <1>5, <1>7, <1>9

LEMMA CmapIsSet ==
  ASSUME NEW v, IsViewer(v), Sound(v), NEW id \in Things, NEW name
  PROVE  LET w == set_cmap(v, id, name)
         IN  Sound(w) /\ SameClouds(v, w) /\ (~v.failed /\ v.images[id] # None => ~w.failed)
<1>1. PICK cmap : cmap = get_cmap_from_string(name)
  OBVIOUS
<1>2. IsTable(v.cmaps) /\ \A x \in Things : v.cmaps[x] # None => IsCmap(v.cmaps[x])
  BY DEF Sound
<1>3. ASSUME NEW c, IsCmap(c), NEW gl, IsContext(gl), NEW w,
             w = [v EXCEPT !.gl = gl, !.cmaps = Put(v.cmaps, id, c)]
      PROVE  Sound(w) /\ SameClouds(v, w) /\ w.failed = v.failed
  <2>1. PICK cmaps : cmaps = Put(v.cmaps, id, c)
    OBVIOUS
  <2>2. cmaps = [x \in Things |-> IF x = id THEN c ELSE v.cmaps[x]]
    BY <1>2, <2>1, PutInTable
  <2>3. IsTable(cmaps) /\ \A x \in Things : cmaps[x] # None => IsCmap(cmaps[x])
    BY <1>2, <1>3, <2>2 DEF IsTable
  <2>4. /\ w.failed = v.failed /\ w.cmaps = cmaps /\ w.gl = gl
        /\ \A f \in DataFields \ {"cmaps"} : w[f] = v[f]
    BY <1>3, <2>1 DEF IsViewer, DataFields
  <2>5. QED
    BY <1>3, <2>3, <2>4 DEF Sound, DataFields, SameClouds
<1>4. PICK u : u = [v EXCEPT !.failed = TRUE]
  OBVIOUS
<1>5. Sound(u) /\ SameClouds(v, u)
  BY <1>4, FailedIsSound DEF SameClouds, IsViewer, DataFields
<1>6. CASE v.cmaps[id] # None
  <2>1. PICK old : old = v.cmaps[id]
    OBVIOUS
  <2>2. PICK c : c = [old EXCEPT !.cmap = cmap]
    OBVIOUS
  <2>3. IsCmap(c)
    BY <1>2, <1>6, <2>1, <2>2 DEF IsCmap, IsRecord
  <2>4. PICK w : w = [v EXCEPT !.cmaps = Put(v.cmaps, id, c)]
    OBVIOUS
  <2>5. w = [v EXCEPT !.gl = v.gl, !.cmaps = Put(v.cmaps, id, c)]
    BY <2>4 DEF IsViewer
  <2>6. IsContext(v.gl)
    BY DEF Sound
  <2>7. Sound(w) /\ SameClouds(v, w) /\ w.failed = v.failed
    BY <1>3, <2>3, <2>5, <2>6
  <2>8. Put(v.cmaps, id, [v.cmaps[id] EXCEPT !.cmap = cmap]) = Put(v.cmaps, id, c)
    BY <2>1, <2>2
  <2>9. set_cmap(v, id, name) = Checked(v, v.images[id] # None, w)
    <3>1. w = [v EXCEPT !.cmaps = Put(@, id, [@[id] EXCEPT !.cmap = cmap])]
      BY <2>1, <2>2, <2>4
    <3>2. QED
      BY <1>1, <1>6, <3>1 DEF set_cmap
  <2>10. QED
    BY <1>4, <1>5, <2>7, <2>9 DEF Checked
<1>7. CASE v.cmaps[id] = None
  <2>1. PICK i : i = v.images[id]
    OBVIOUS
  <2>2. PICK c : c = [cmap |-> cmap, fb |-> NewFrameBuffer(4, NewTexture("u8", 3, 0, 0),
                                                           i.width, i.height, FALSE)]
    OBVIOUS
  <2>3. IsCmap(c)
    BY <2>2, NewFrameBufferIsCmap
  <2>4. IsContext(AfterConstruction(v.gl))
    BY ContextKept DEF Sound
  <2>5. PICK w : w = [v EXCEPT !.gl = AfterConstruction(v.gl), !.cmaps = Put(v.cmaps, id, c)]
    OBVIOUS
  <2>6. Sound(w) /\ SameClouds(v, w) /\ w.failed = v.failed
    BY <1>3, <2>3, <2>4, <2>5
  <2>7. set_cmap(v, id, name) = Checked(v, i # None, w)
    BY <1>1, <1>7, <2>1, <2>2, <2>5 DEF set_cmap
  <2>8. QED
    BY <1>4, <1>5, <2>1, <2>6, <2>7 DEF Checked
<1>8. QED
  BY <1>6, <1>7

LEMMA ImageIsShown ==
  ASSUME NoneIsNothing, NEW v, IsViewer(v), Sound(v), NEW id \in Things
  PROVE  LET w == get_image(v, id)
         IN  Sound(w) /\ SameClouds(v, w) /\ (~v.failed /\ v.images[id] # None => ~w.failed)
<1>1. PICK i, c : i = v.images[id] /\ c = v.cmaps[id]
  OBVIOUS
<1>2. PICK handle : handle = [width |-> i.width, height |-> i.height,
                              data |-> IF c = None THEN i.last ELSE <<i.last, c.cmap>>]
  OBVIOUS
<1>3. PICK u : u = [v EXCEPT !.failed = TRUE]
  OBVIOUS
<1>4. Sound(u) /\ SameClouds(v, u)
  BY <1>3, FailedIsSound DEF SameClouds, IsViewer, DataFields
<1>5. i # None => IsImage(i)
  BY <1>1 DEF Sound
<1>6. ASSUME NEW t, t.width = i.width, t.height = i.height, t.data = handle.data
      PROVE  AsGiven([what |-> "image", now |-> t, given |-> handle])
  BY <1>2, <1>6 DEF AsGiven, Agrees
<1>7. CASE c = None
  <2>1. PICK w : w = [v EXCEPT !.seen = [what |-> "image", now |-> i.texture, given |-> handle]]
    OBVIOUS
  <2>2. get_image(v, id) = Checked(v, i # None, w)
    BY <1>1, <1>2, <1>7, <2>1 DEF get_image
  <2>3. PICK seen : seen = [what |-> "image", now |-> i.texture, given |-> handle]
    OBVIOUS
  <2>4. i # None => AsGiven(seen)
    BY <1>2, <1>5, <1>6, <1>7, <2>3 DEF IsImage
  <2>5. /\ w.failed = v.failed /\ w.gl = v.gl /\ w.seen = seen
        /\ \A f \in DataFields \ {"seen"} : w[f] = v[f]
    BY <2>1, <2>3 DEF IsViewer, DataFields
  <2>6. SameClouds(v, w)
    BY <2>5 DEF SameClouds, DataFields
  <2>7. i # None => Sound(w)
    BY <2>4, <2>5 DEF Sound, DataFields
  <2>8. QED
    BY <1>1, <1>3, <1>4, <2>2, <2>5, <2>6, <2>7 DEF Checked
<1>8. CASE c # None
  <2>1. IsCmap(c) /\ IsTexture(c.fb.color)
    BY <1>1, <1>8 DEF Sound, IsCmap
  <2>2. PICK sized : sized = ensure_size(c.fb.color, i.width, i.height)
    OBVIOUS
  <2>3. PICK t : t = [sized EXCEPT !.data = <<i.texture.data, c.cmap>>]
    OBVIOUS
  <2>4. IsTexture(sized) /\ sized.width = i.width /\ sized.height = i.height
    BY <2>1, <2>2, SizeIsEnsured
  <2>5. /\ IsTexture(t) /\ t.width = i.width /\ t.height = i.height
        /\ t.data = <<i.texture.data, c.cmap>>
    BY <2>3, <2>4, DataAreSet
  <2>6. PICK big : big = set_size(c.fb, i.width, i.height)
    OBVIOUS
  <2>7. IsRecord(big, {"color", "width", "height"}) /\ big.color = sized
    BY <2>1, <2>2, <2>6 DEF set_size, IsCmap, IsRecord
  <2>8. PICK fb : fb = [big EXCEPT !.color.data = <<i.texture.data, c.cmap>>]
    OBVIOUS
  <2>9. IsRecord(fb, {"color", "width", "height"}) /\ fb.color = t
    BY <2>3, <2>7, <2>8 DEF IsRecord
  <2>10. PICK d : d = [c EXCEPT !.fb = fb]
    OBVIOUS
  <2>11. IsCmap(d)
    BY <2>1, <2>5, <2>9, <2>10 DEF IsCmap, IsRecord
  <2>12. PICK gl : gl = draw_cmapped_texture(v.gl, fb)
    OBVIOUS
  <2>13. IsContext(gl)
    BY <2>12, ContextKept DEF draw_cmapped_texture, Sound
  <2>14. PICK seen : seen = [what |-> "image", now |-> fb.color, given |-> handle]
    OBVIOUS
  <2>15. i # None => AsGiven(seen)
    <3>1. i # None => t.data = handle.data
      BY <1>2, <1>5, <1>8, <2>5 DEF IsImage
    <3>2. QED
      BY <1>6, <2>5, <2>9, <2>14, <3>1
  <2>16. PICK cmaps : cmaps = Put(v.cmaps, id, d)
    OBVIOUS
  <2>17. IsTable(v.cmaps) /\ \A x \in Things : v.cmaps[x] # None => IsCmap(v.cmaps[x])
    BY DEF Sound
  <2>18. cmaps = [x \in Things |-> IF x = id THEN d ELSE v.cmaps[x]]
    BY <2>16, <2>17, PutInTable
  <2>19. IsTable(cmaps) /\ \A x \in Things : cmaps[x] # None => IsCmap(cmaps[x])
    BY <2>11, <2>17, <2>18 DEF IsTable
  <2>20. PICK w : w = [v EXCEPT !.cmaps = cmaps, !.gl = gl, !.seen = seen]
    OBVIOUS
  <2>21. /\ w.failed = v.failed /\ w.gl = gl /\ w.seen = seen /\ w.cmaps = cmaps
         /\ \A f \in DataFields \ {"seen", "cmaps"} : w[f] = v[f]
    BY <2>20 DEF IsViewer, DataFields
  <2>22. SameClouds(v, w)
    BY <2>21 DEF SameClouds, DataFields
  <2>23. i # None => Sound(w)
    BY <2>13, <2>15, <2>19, <2>21 DEF Sound, DataFields
  <2>24. get_image(v, id) = Checked(v, i # None, w)
    BY <1>1, <1>2, <1>8, <2>6, <2>8, <2>10, <2>12, <2>14, <2>16, <2>20 DEF get_image
  <2>25. QED
    BY <1>1, <1>3, <1>4, <2>21, <2>22, <2>23, <2>24 DEF Checked
<1>9. QED
  BY <1>7, <1>8

LEMMA ImageIsDrawn ==
  ASSUME NoneIsNothing, NEW v, IsViewer(v), Sound(v), NEW id \in Things
  PROVE  Sound(draw_image_3d(v, id))
<1>1. PICK w : w = get_image(v, id)
  OBVIOUS
<1>2. IsViewer(w) /\ Sound(w)
  BY <1>1, ImageKeeps, KeepsViewer, ImageIsShown
<1>3. PICK gl : gl = draw_texture(w.gl, screen(v))
  OBVIOUS
<1>4. IsContext(gl)
  BY <1>2, <1>3, ContextKept DEF draw_texture, Sound
<1>5. PICK x : x = [w EXCEPT !.gl = gl]
  OBVIOUS
<1>6. SameData(w, x)
  BY <1>2, <1>4, <1>5 DEF SameData, IsViewer, DataFields
<1>7. draw_image_3d(v, id) = Checked(w, TRUE, x)
  BY <1>1, <1>3, <1>5 DEF draw_image_3d
<1>8. QED
  BY <1>2, <1>6, <1>7, SoundKept, FailedIsSound DEF Checked

(* Models leave the data of everything else alone.                         *)
LEMMA ModelsAreSound ==
  ASSUME NEW v, IsViewer(v), Sound(v), NEW id, NEW part, NEW meshes, NEW tx, NEW material
  PROVE  /\ Sound(add_model_part(v, id, part, meshes)) /\ Sound(add_model(v, id, meshes))
         /\ Sound(update_tx_model_modelpart(v, id, part, tx))
         /\ Sound(get_tx_world_modelpart(v, id, part))
         /\ Sound(set_model_material(v, id, material)) /\ Sound(draw_model(v, id))
<1>1. \A a : Sound([v EXCEPT !.models = a])
  <2>1. \A a : SameData(v, [v EXCEPT !.models = a])
    BY DEF SameData, Sound, IsViewer, DataFields
  <2>2. QED
    BY <2>1, SoundKept
<1>2. \A a, g : IsContext(g) => Sound([v EXCEPT !.models = a, !.gl = g])
  <2>1. \A a, g : IsContext(g) => SameData(v, [v EXCEPT !.models = a, !.gl = g])
    BY DEF SameData, Sound, IsViewer, DataFields
  <2>2. QED
    BY <2>1, SoundKept
<1>3. Sound([v EXCEPT !.failed = TRUE]) /\ IsContext(v.gl)
  BY FailedIsSound DEF Sound
<1>4. IsContext(set_default(v.gl, 1, <<"white">>))
  <2>1. 1 \in Location
    BY DEF Location
  <2>2. \A x : IsContext(set_default(v.gl, 1, x))
    BY <1>3, <2>1, ContextKept
  <2>3. QED
    BY <2>2
<1>5. \A p : Sound(add_model_part(v, id, p, meshes))
  BY <1>2, <1>3, <1>4 DEF add_model_part, Checked
<1>6. Sound(add_model(v, id, meshes))
  BY <1>5 DEF add_model
<1>7. Sound(update_tx_model_modelpart(v, id, part, tx))
  BY <1>1, <1>3 DEF update_tx_model_modelpart, Checked
<1>8. Sound(ensure_pose(v, id)) /\ IsViewer(ensure_pose(v, id))
  BY PoseKeeps, KeepsViewer, PoseAndTintKeepData, SoundKept
<1>9. Sound(get_tx_world_modelpart(v, id, part))
  BY <1>3, <1>8 DEF get_tx_world_modelpart, Checked
<1>10. Sound(set_model_material(v, id, material))
  BY <1>1, <1>3 DEF set_model_material, Checked
<1>11. Sound(draw_model(v, id))
  <2>1. PICK w : w = ensure_pose(v, id)
    OBVIOUS
  <2>2. IsContext(draw_material_mesh(w.gl, screen(v)))
    BY <1>8, <2>1, ContextKept DEF draw_material_mesh, Sound
  <2>3. Sound([w EXCEPT !.gl = draw_material_mesh(w.gl, screen(v)), !.seen = None])
    BY <1>8, <2>1, <2>2, NothingIsSeen
  <2>4. QED
    BY <1>3, <2>1, <2>3 DEF draw_model, Checked
<1>12. QED
  BY <1>5, <1>6, <1>7, <1>9, <1>10, <1>11

-----------------------------------------------------------------------------
(* Every call of another program, and every step of a frame loop.          *)
Typed == NoneIsNothing /\ InPlane /\ CountsAreNumbers /\ {Cloud} \cup Kinds \X Serials \subseteq Things

LEMMA OtherCallIsSound ==
  ASSUME Typed, ViewInv, Sound(viewer), OtherCall
  PROVE  Sound(viewer')
<1>1. \A n \in Counts[kind] : n \in Nat
  BY DEF Typed, CountsAreNumbers, ViewInv
<1>2. NoneIsNothing /\ IsViewer(viewer)
  BY DEF Typed, ViewInv
<1>3. PICK id \in Things : \/ CloudCall(id) \/ ShapeCall(id) \/ LinesCall(id)
                          \/ ImageCall(id) \/ ModelCall(id)
  BY DEF OtherCall
<1>4. CASE CloudCall(id)
  <2>1. \A n \in Nat : \A as : Sound(update_points(viewer, id, n, as))
    BY <1>2, PointsAreGiven
  <2>2. \A data : Sound(update_point_colors(viewer, id, data))
    BY <1>2, ColorsAreGiven
  <2>3. \A x : Sound(set_tint(viewer, id, x, 1)) /\ Sound(unset_tint(viewer, id))
    <3>1. \A x : SameData(viewer, [viewer EXCEPT !.tint = x])
      BY <1>2 DEF SameData, Sound, IsViewer, DataFields
    <3>2. \A x : Sound([viewer EXCEPT !.tint = x])
      BY <3>1, SoundKept
    <3>3. QED
      BY <1>2, <3>2, FailedIsSound DEF set_tint, unset_tint, Checked
  <2>4. Sound(draw_points(viewer, id))
    BY <1>2, CloudIsDrawn
  <2>5. QED
    BY <1>1, <1>4, <2>1, <2>2, <2>3, <2>4 DEF CloudCall, Call
<1>5. CASE ShapeCall(id)
  <2>1. Sound(update_tx_world_object(viewer, id, "moved"))
    BY <1>2, PoseAndTintKeepData, SoundKept
  <2>2. \A shape, color : /\ Sound(draw_coordinate_frame(viewer, id))
                          /\ Sound(draw_shape(viewer, id, shape, color))
    BY <1>2, ShapesAreSound
  <2>3. QED
    BY <1>5, <2>1, <2>2 DEF ShapeCall, Call, draw_cone, draw_square_cone
<1>6. CASE LinesCall(id)
  BY <1>2, <1>6, LinesAreDrawn DEF LinesCall, Call
<1>7. CASE ImageCall(id)
  <2>1. ASSUME NEW w \in Counts[kind], NEW h \in Counts[kind], NEW n, NEW pixels
        PROVE  Sound(update_image(viewer, id, w, h, Data("u16", n, pixels)))
    <3>1. PICK data : data = Data("u16", n, pixels)
      OBVIOUS
    <3>2. data # None
      BY <1>2, <3>1, NoRecordIsNone
    <3>3. QED
      BY <1>2, <3>1, <3>2, ImageIsUpdated
  <2>2. \A name : Sound(set_cmap(viewer, id, name))
    BY <1>2, CmapIsSet
  <2>3. Sound(get_image(viewer, id)) /\ Sound(draw_image_3d(viewer, id))
    BY <1>2, ImageIsShown, ImageIsDrawn
  <2>4. QED
    BY <1>7, <2>1, <2>2, <2>3 DEF ImageCall, Call
<1>8. CASE ModelCall(id)
  BY <1>2, <1>8, ModelsAreSound DEF ModelCall, Call
<1>9. QED
  BY <1>3, <1>4, <1>5, <1>6, <1>7, <1>8

(* The two images a device has.                                            *)
LEMMA ImageIdsDiffer ==
  ASSUME NEW s \in Serials, NEW t \in Serials, NEW k \in Kinds, NEW l \in Kinds
  PROVE  Image(k, s) = Image(l, t) <=> k = l /\ s = t
BY DEF Image

LEMMA DeviceImageIsSound ==
  ASSUME Typed, NEW v, IsViewer(v), Sound(v), LoopSound(v), NEW s \in Serials, NEW k \in Kinds
  PROVE  Sound(UpdateImage(v, s, k)) /\ LoopSound(UpdateImage(v, s, k))
<1>1. PICK data, id : data = ImageOf(k, arriving[s][k]) /\ id = Image(k, s)
  OBVIOUS
<1>2. /\ data # None /\ data.n \in {1, 3} /\ data.type \in {"u8", "u16"}
      /\ k = "color" => data.n = 3 /\ data.type = "u8"
      /\ k # "color" => data.n = 1 /\ data.type = "u16"
  BY <1>1, NoRecordIsNone DEF ImageOf, Data, Typed
<1>3. id \in Things
  BY <1>1 DEF Typed, Image
<1>4. PICK w : w = update_image(v, id, 1, 1, data)
  OBVIOUS
<1>5. data.n \div (1 * 1) = data.n /\ data.n % (1 * 1) = 0 /\ 1 * 1 * data.n = data.n
  BY <1>2
<1>6. v.images[id] # None => /\ v.images[id].texture.type = data.type
                            /\ v.images[id].texture.channels = data.n
  BY <1>1, <1>2 DEF LoopSound, Like
<1>7. /\ Sound(w) /\ w.points = v.points /\ w.colors = v.colors
      /\ \A t \in Things \ {id} : w.images[t] = v.images[t]
  BY <1>2, <1>3, <1>4, ImageIsUpdated DEF Typed
<1>8. ~w.failed /\ w.images[id].texture.type = data.type /\ w.images[id].texture.channels = data.n
  BY <1>2, <1>3, <1>4, <1>5, <1>6, ImageIsUpdated DEF Typed, LoopSound
<1>9. ASSUME NEW l \in Kinds, NEW t \in Serials, w.images[Image(l, t)] # None
      PROVE  Like(l, w.images[Image(l, t)].texture)
  <2>1. Image(l, t) \in Things
    BY DEF Typed, Image
  <2>2. CASE Image(l, t) = id
    <3>1. l = k
      BY <1>1, <2>2, ImageIdsDiffer
    <3>2. QED
      BY <1>2, <1>8, <2>2, <3>1 DEF Like
  <2>3. CASE Image(l, t) # id
    BY <1>7, <1>9, <2>1, <2>3 DEF LoopSound
  <2>4. QED
    BY <2>2, <2>3
<1>10. LoopSound(w)
  BY <1>7, <1>8, <1>9 DEF LoopSound
<1>11. QED
  BY <1>1, <1>4, <1>7, <1>10 DEF UpdateImage

LEMMA LoopSoundKept ==
  ASSUME NEW v, NEW w, LoopSound(v), SameClouds(v, w), ~w.failed
  PROVE  LoopSound(w)
BY DEF LoopSound, SameClouds

LEMMA ShowImageIsSound ==
  ASSUME Typed, NEW v, IsViewer(v), Sound(v), LoopSound(v), NEW s \in Serials
  PROVE  Sound(ShowImages(v, s)) /\ LoopSound(ShowImages(v, s))
<1>1. NoneIsNothing /\ Image("color", s) \in Things /\ Image("depth", s) \in Things
  BY DEF Typed, Image, Kinds
<1>2. ASSUME NEW x, IsViewer(x), Sound(x), LoopSound(x), NEW id \in Things,
             x.images[id] # None
      PROVE  LET w == get_image(x, id)
             IN  IsViewer(w) /\ Sound(w) /\ LoopSound(w)
  <2>1. IsViewer(get_image(x, id))
    BY <1>2, ImageKeeps, KeepsViewer
  <2>2. /\ Sound(get_image(x, id)) /\ SameClouds(x, get_image(x, id))
        /\ ~get_image(x, id).failed
    BY <1>1, <1>2, ImageIsShown DEF LoopSound
  <2>3. QED
    BY <1>2, <2>1, <2>2, LoopSoundKept
<1>3. PICK w : w = ShowColor(v, s)
  OBVIOUS
<1>4. IsViewer(w) /\ Sound(w) /\ LoopSound(w)
  BY <1>1, <1>2, <1>3 DEF ShowColor, have_image
<1>5. ASSUME w.images[Image("depth", s)] # None
      PROVE  LET x == set_cmap(w, Image("depth", s), "heat")
             IN  /\ IsViewer(x) /\ Sound(x) /\ LoopSound(x)
                 /\ x.images[Image("depth", s)] # None
  <2>1. PICK x : x = set_cmap(w, Image("depth", s), "heat")
    OBVIOUS
  <2>2. IsViewer(x)
    BY <1>4, <2>1, ImageKeeps, KeepsViewer
  <2>3. Sound(x) /\ SameClouds(w, x) /\ ~x.failed
    BY <1>1, <1>4, <1>5, <2>1, CmapIsSet DEF LoopSound
  <2>4. LoopSound(x)
    BY <1>4, <2>3, LoopSoundKept
  <2>5. QED
    BY <1>5, <2>1, <2>2, <2>3, <2>4 DEF SameClouds
<1>6. Sound(ShowDepth(w, s)) /\ LoopSound(ShowDepth(w, s))
  BY <1>1, <1>2, <1>4, <1>5 DEF ShowDepth, have_image
<1>7. QED
  BY <1>3, <1>6 DEF ShowImages

LEMMA ResultsAreSound ==
  ASSUME Typed, NEW v, IsViewer(v), Sound(v), LoopSound(v), NEW n \in Nat, NEW as
  PROVE  Sound(ShowResults(v, n, as)) /\ LoopSound(ShowResults(v, n, as))
<1>1. NoneIsNothing /\ Cloud \in Things /\ ~v.failed
  BY DEF Typed, LoopSound
<1>2. PICK w : w = update_points(v, Cloud, n, as)
  OBVIOUS
<1>3. Sound(w) /\ ~w.failed /\ Counted(w.points[Cloud], n) /\ w.images = v.images
  BY <1>1, <1>2, PointsAreGiven
<1>4. IsViewer(w)
  BY <1>2, CloudKeeps, KeepsViewer
<1>5. PICK data : data = Data("u8", 3 * n, as)
  OBVIOUS
<1>6. data.n = 3 * n
  BY <1>5 DEF Data
<1>7. PICK x : x = update_point_colors(w, Cloud, data)
  OBVIOUS
<1>8. /\ Sound(x) /\ ~x.failed /\ x.colors[Cloud].n = w.points[Cloud].n
      /\ x.points = w.points /\ x.images = w.images
  BY <1>1, <1>3, <1>4, <1>6, <1>7, ColorsAreGiven DEF Counted
<1>9. LoopSound(x)
  BY <1>3, <1>8 DEF LoopSound, Counted
<1>10. x = ShowResults(v, n, as)
  BY <1>2, <1>5, <1>7 DEF ShowResults
<1>11. QED
  BY <1>8, <1>9, <1>10

LEMMA LoopCallsAreSound ==
  ASSUME Typed, ViewInv, Sound(viewer), LoopSound(viewer), LoopCalls
  PROVE  Sound(viewer') /\ LoopSound(viewer')
<1>1. IsViewer(viewer) /\ job.n \in Nat /\ "color" \in Kinds /\ "depth" \in Kinds
  BY DEF ViewInv, LoopTypes, Kinds
<1>2. ASSUME NEW s \in Serials,
             viewer' = UpdateImage(UpdateImage(viewer, s, "color"), s, "depth")
      PROVE  Sound(viewer') /\ LoopSound(viewer')
  <2>1. PICK w : w = UpdateImage(viewer, s, "color")
    OBVIOUS
  <2>2. Sound(w) /\ LoopSound(w)
    BY <1>1, <2>1, DeviceImageIsSound
  <2>3. IsViewer(w)
    BY <1>1, <2>1, ImageKeeps, KeepsViewer DEF UpdateImage
  <2>4. Sound(UpdateImage(w, s, "depth")) /\ LoopSound(UpdateImage(w, s, "depth"))
    BY <1>1, <2>2, <2>3, DeviceImageIsSound
  <2>5. viewer' = UpdateImage(w, s, "depth")
    BY <1>2, <2>1
  <2>6. QED
    BY <2>4, <2>5
<1>3. ASSUME viewer' = ShowResults(viewer, job.n, <<job.serial, job.color, job.depth>>)
      PROVE  Sound(viewer') /\ LoopSound(viewer')
  BY <1>1, <1>3, ResultsAreSound
<1>4. ASSUME have_points(viewer, Cloud), viewer' = draw_points(viewer, Cloud)
      PROVE  Sound(viewer') /\ LoopSound(viewer')
  <2>1. NoneIsNothing /\ Cloud \in Things
    BY DEF Typed
  <2>2. Sound(viewer') /\ ~viewer'.failed /\ SameClouds(viewer, viewer')
    BY <1>1, <1>4, <2>1, CloudIsDrawn DEF LoopSound, have_points
  <2>3. QED
    BY <2>2, LoopSoundKept
<1>5. ASSUME NEW s \in Serials, viewer' = ShowImages(viewer, s)
      PROVE  Sound(viewer') /\ LoopSound(viewer')
  BY <1>1, <1>5, ShowImageIsSound
<1>6. QED
  BY <1>2, <1>3, <1>4, <1>5 DEF LoopCalls

(* The invariant: what is kept of the data is of its kind; in a frame loop *)
(* moreover what is drawn together belongs together, and no CHECK failed.  *)
DrawInv == ViewInv /\ Sound(viewer) /\ (kind \in Programs => LoopSound(viewer))

LEMMA InitDraw ==
  ASSUME Typed, kind \in DOMAIN Mouse, LoopInit
  PROVE  DrawInv
<1>1. PICK v : v = viewer
  OBVIOUS
<1>2. /\ v.gl = NewContext /\ v.seen = None /\ v.lines.array = NewVertexArray
      /\ v.points = Nothing /\ v.colors = Nothing /\ v.arrays = Nothing
      /\ v.images = Nothing /\ v.cmaps = Nothing /\ v.failed = FALSE
  BY <1>1 DEF LoopInit, InitViewer
<1>3. IsTable(Nothing) /\ \A id \in Things : Nothing[id] = None
  BY DEF IsTable, Nothing
<1>4. IsContext(NewContext)
  BY DEF IsContext, NewContext, IsRecord
<1>5. Sound(v)
  BY <1>2, <1>3, <1>4, NewArray DEF Sound
<1>6. Cloud \in Things /\ \A k \in Kinds, s \in Serials : Image(k, s) \in Things
  BY DEF Typed, Image
<1>7. LoopSound(v)
  BY <1>2, <1>3, <1>6 DEF LoopSound
<1>8. QED
  BY <1>1, <1>5, <1>7, InitView DEF DrawInv

LEMMA DrawStep ==
  ASSUME Typed, DrawInv, [LoopNext \/ Calling(Things)]_display
  PROVE  DrawInv'
<1>1. ViewInv' /\ kind' = kind
  BY ViewStep, AnyStep DEF Typed, DrawInv, ViewInv
<1>2. CASE UNCHANGED viewer
  BY <1>1, <1>2 DEF DrawInv
<1>3. CASE ~viewer.failed /\ Frame
  <2>1. PICK io \in Mouse[kind], hit \in Hits(viewer) \cup {None} :
          viewer' = new_frame(viewer, io, hit)
    BY <1>3 DEF Frame, Call
  <2>2. io \in IO /\ Spots \subseteq Vector
    BY DEF Typed, InPlane, DrawInv, ViewInv
  <2>3. SameData(viewer, viewer') /\ ~viewer'.failed
    BY <1>3, <2>1, <2>2, FrameKeepsData DEF DrawInv, ViewInv
  <2>4. SameClouds(viewer, viewer')
    BY <2>3 DEF SameData, SameClouds, DataFields
  <2>5. QED
    BY <1>1, <2>3, <2>4, SoundKept, LoopSoundKept DEF DrawInv
<1>4. CASE kind \in Programs /\ LoopCalls
  BY <1>1, <1>4, LoopCallsAreSound DEF DrawInv
<1>5. CASE kind \notin Programs /\ CameraCall
  BY <1>1, <1>5, CameraKeepsData, SoundKept DEF DrawInv, ViewInv
<1>6. CASE kind \notin Programs /\ OtherCall
  BY <1>1, <1>6, OtherCallIsSound DEF DrawInv
<1>7. QED
  BY <1>2, <1>3, <1>4, <1>5, <1>6, AnyStep DEF Typed, DrawInv, ViewInv

(* viewer.cpp:521-588, 883-950, 709-736: whatever was drawn before, through *)
(* whatever arrays and defaults, a cloud and lines are drawn with the points *)
(* and colors last given for them, except that an array once enabled is read *)
(* where there would now be a default; and an image is as large as its      *)
(* handle says and shows the pixels last given, in its color map if any.    *)
THEOREM DrawnIsGiven == Typed => (Display => []DrawnAsGiven)
<1>1. ASSUME Typed PROVE Display => []DrawnAsGiven
  <2>1. kind \in DOMAIN Mouse /\ LoopInit => DrawInv
    BY <1>1, InitDraw
  <2>2. DrawInv /\ [LoopNext \/ Calling(Things)]_display => DrawInv'
    BY <1>1, DrawStep
  <2>3. DrawInv => DrawnAsGiven
    BY DEF DrawInv, Sound, DrawnAsGiven
  <2>4. QED
    BY <2>1, <2>2, <2>3, PTL DEF Display
<1>2. QED
  BY <1>1

(* realsense_streaming/viewer.cpp:57-297 and log_viewer.cpp:395-558: no     *)
(* CHECK of the viewer fails in either frame loop, whatever comes in, and   *)
(* whenever the point cloud job is through: the colors are those of the     *)
(* points, and an image keeps the type and the channels it began with.      *)
THEOREM LoopsFailNoCheck == Typed => (Display => []ViewerChecksHold)
<1>1. ASSUME Typed PROVE Display => []ViewerChecksHold
  <2>1. kind \in DOMAIN Mouse /\ LoopInit => DrawInv
    BY <1>1, InitDraw
  <2>2. DrawInv /\ [LoopNext \/ Calling(Things)]_display => DrawInv'
    BY <1>1, DrawStep
  <2>3. DrawInv => ViewerChecksHold
    BY DEF DrawInv, LoopSound, ViewerChecksHold
  <2>4. QED
    BY <2>1, <2>2, <2>3, PTL DEF Display
<1>2. QED
  BY <1>1

=============================================================================
