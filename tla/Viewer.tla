------------------------------- MODULE Viewer -------------------------------
(***************************************************************************)
(* viewer/viewer.cpp: what a program may draw and the camera it is seen    *)
(* with.  The variables of the namespace are one record, and each function *)
(* of the interface is an operator from the record before the call to the  *)
(* record after it, so that a frame of a program is a chain of calls.  A   *)
(* CHECK that fails ends the program: `failed'.                            *)
(*                                                                         *)
(* Space is a plane: a pose is a number of quarter turns and a position,   *)
(* the camera pans along the first axis and zooms along the second.  The   *)
(* picture is abstracted to what each draw call is given to draw.          *)
(***************************************************************************)
EXTENDS Shaders, Sequences, FiniteSets

CONSTANTS
  Things,       \* ids of clouds, images, models and poses
  Parts,        \* ids of the parts of a model
  Spots,        \* positions of what the mouse may hit
  CounterWrap,  \* _frame_counter is an integer modulo this
  PickSize      \* PICK_BUFFER_WIDTH_PX, PICK_BUFFER_HEIGHT_PX

VARIABLE viewer

(* Poses of the plane.                                                     *)
Plus(a, b) == <<a[1] + b[1], a[2] + b[2]>>
Minus(a, b) == <<a[1] - b[1], a[2] - b[2]>>
Turn(rot, a) ==
  CASE rot % 4 = 0 -> a [] rot % 4 = 1 -> <<-a[2], a[1]>>
    [] rot % 4 = 2 -> <<-a[1], -a[2]>> [] rot % 4 = 3 -> <<a[2], -a[1]>>
Identity == [rot |-> 0, pos |-> <<0, 0>>]
inverse(pose) ==
  [rot |-> (4 - pose.rot) % 4, pos |-> Minus(<<0, 0>>, Turn(4 - pose.rot, pose.pos))]

-----------------------------------------------------------------------------
Nothing == [t \in Things |-> None]
NoInfo == [id |-> None, index |-> 0, xyz |-> <<0, 0>>, at |-> 0]
NoIO == [capture |-> FALSE, wheel |-> 0, down |-> {}, ctrl |-> FALSE, click |-> FALSE,
         move |-> 0, window |-> <<1, 1>>]

InitViewer ==
  [ failed |-> FALSE, gl |-> NewContext,
    params |-> [fb |-> 0, window |-> <<1, 1>>, tx |-> Identity], fbid |-> 0,
    scopes |-> <<>>,
    orbit |-> [rot |-> 0, pos |-> <<0, 0>>], offset |-> <<0, 0>>, auto |-> FALSE,
    counter |-> 0, io |-> NoIO, info |-> NoInfo,
    pick |-> {},      \* what has been drawn into the pick buffers, and in which
    frame |-> 0,      \* frame, as far as two in a row are told apart
    points |-> Nothing, colors |-> Nothing, tint |-> Nothing, poses |-> Nothing,
    arrays |-> Nothing, images |-> Nothing, cmaps |-> Nothing, models |-> Nothing,
    lines |-> [array |-> NewVertexArray, colors |-> NewBuffer("array", None)],
    seen |-> None ]   \* what the last draw call has drawn, and was to draw

pick_buffer == NewFrameBuffer(1, NewTexture("uint", 2, PickSize, PickSize),
                              PickSize, PickSize, TRUE)
pick_world_xyzs_buffer == NewFrameBuffer(2, NewTexture("float", 3, PickSize, PickSize),
                                         PickSize, PickSize, TRUE)
debug_pick_buffer == NewFrameBuffer(3, NewTexture("float", 3, PickSize, PickSize),
                                    PickSize, PickSize, FALSE)
screen(v) == [id |-> v.params.fb, width |-> v.params.window[1],
              height |-> v.params.window[2], color |-> NewTexture("u8", 3, 1, 1)]

Checked(v, check, after) ==
  IF v.failed \/ ~check THEN [v EXCEPT !.failed = TRUE] ELSE after

Put(map, id, value) == [map EXCEPT ![id] = value]

-----------------------------------------------------------------------------
(* The camera.                                                             *)
camera(orbit, offset) ==
  [inverse(orbit) EXCEPT !.pos = Plus(@, offset)]

enable_auto_orbit(v) == [v EXCEPT !.auto = TRUE]

set_tx_camera_world(v, tx) ==
  [v EXCEPT !.params.tx = tx, !.orbit = inverse(tx), !.offset = <<0, 0>>]

(* Mutant: the orbit's frame taken for the world's.                        *)
OffsetInWorld(v, movement) == Plus(v.offset, movement)
OffsetAfter(v, movement) == Plus(v.offset, Turn(4 - v.orbit.rot, movement))

set_pt_world_orbit(v, spot) ==
  LET movement == Minus(spot, v.orbit.pos)
  IN  [v EXCEPT !.orbit.pos = Plus(@, movement), !.offset = OffsetAfter(v, movement)]

update_orbit_from_mouse(v, io) ==
  IF io.wheel # 0 /\ 1 \in io.down
    THEN [v EXCEPT !.orbit.rot = (@ + io.wheel) % 4]
  ELSE IF io.wheel # 0
    THEN [v EXCEPT !.offset[2] = @ + io.wheel]
  ELSE IF 2 \in io.down \/ (io.ctrl /\ 0 \in io.down)
    THEN [v EXCEPT !.offset[1] = @ + io.move]
  ELSE IF 1 \in io.down
    THEN [v EXCEPT !.orbit.rot = (@ + io.move) % 4]
  ELSE v

update_view_params_from_orbit(v) ==
  [v EXCEPT !.params.tx = camera(v.orbit, v.offset)]

(* ViewParamsScope                                                         *)
PushScope(v, params, fbid) ==
  [v EXCEPT !.scopes = Append(@, <<v.params, v.fbid>>), !.params = params, !.fbid = fbid]
PopScope(v) ==
  LET saved == v.scopes[Len(v.scopes)]
  IN  [v EXCEPT !.params = saved[1], !.fbid = saved[2],
                !.scopes = SubSeq(@, 1, Len(@) - 1)]

-----------------------------------------------------------------------------
(* Picking: what the pixel nearest to the middle of the pick buffer holds. *)
Hits(v) ==
  UNION { {[id |-> d.id, index |-> i, xyz |-> s, at |-> d.at] :
             i \in 0..(d.n - 1), s \in Spots} : d \in v.pick }

update_pick_info(v, hit) ==
  [v EXCEPT !.info = IF v.io.capture \/ hit = None THEN NoInfo ELSE hit]

update_pick_buffer(v, id, n) ==
  Checked(v, CanDraw(pick_buffer, NewVertexArray, FALSE, FALSE),
    [v EXCEPT !.pick = @ \cup {[id |-> id, n |-> n, at |-> v.frame]},
              !.gl = draw_vertex_world_xyzs(draw_vertex_ids(@, pick_buffer),
                                            pick_world_xyzs_buffer)])

was_clicked(v, id) == v.info.id = id /\ v.io.click
was_hovered(v, id) == v.info.id = id /\ v.io.down = {}

(* new_frame(): the pick of the last frame; ...                            *)
LastPick(v, hit) ==
  LET w == update_pick_info([v EXCEPT !.gl = draw_debug_vertex_ids(
                                   Clear(@, debug_pick_buffer), debug_pick_buffer)], hit)
      t == pick_buffer.color
      x == pick_world_xyzs_buffer.color
  IN  Checked(v,
        /\ CanClear(debug_pick_buffer, FALSE)
        /\ CanDownloadTexture(t, "uint", PickSize * PickSize * 2)
        /\ CanDownloadTexture(x, "float", PickSize * PickSize * 3),
        IF v.auto /\ w.info.id # None /\ w.io.click
          THEN set_pt_world_orbit(w, w.info.xyz) ELSE w)

(* Mutant: the pick buffers are cleared only for a frame that is shown.    *)
ClearIfShown(v) ==
  IF 0 \in {v.io.window[1], v.io.window[2]} THEN v ELSE [v EXCEPT !.pick = {}]
ClearPick(v) ==
  Checked(v, CanClear(pick_buffer, TRUE) /\ CanClear(pick_world_xyzs_buffer, FALSE),
    [v EXCEPT !.pick = {},
              !.gl = Clear(Clear(@, pick_buffer), pick_world_xyzs_buffer)])

(* ... the camera, unless the window is minimized.                         *)
Look(v) ==
  LET w == [v EXCEPT !.params.window = v.io.window]
  IN  IF 0 \in {v.io.window[1], v.io.window[2]} THEN w
      ELSE [update_view_params_from_orbit(
              IF v.io.capture THEN w ELSE update_orbit_from_mouse(w, v.io)) EXCEPT
              !.params.fb = 0,
              !.counter = IF (@ + 1) % CounterWrap = 0 THEN 1 ELSE @ + 1]

new_frame(v, io, hit) ==
  LET w == [v EXCEPT !.io = io, !.frame = 1 - @]
  IN  Look(ClearPick(IF w.counter # 0 THEN LastPick(w, hit) ELSE w))

-----------------------------------------------------------------------------
(* Poses of things.                                                        *)
update_tx_world_object(v, id, pose) == [v EXCEPT !.poses = Put(@, id, pose)]

ensure_pose(v, id) ==
  IF v.poses[id] = None THEN update_tx_world_object(v, id, "identity") ELSE v

-----------------------------------------------------------------------------
(* Clouds.                                                                 *)
Data(type, n, as) == [type |-> type, n |-> n, as |-> as]

update_points(v, id, n, as) ==
  LET buffer == IF v.points[id] = None THEN NewBuffer("array", "float")
                ELSE v.points[id].buffer
      data == Data("float", 3 * n, as)
  IN  Checked(v, CanUpload(buffer, data),
        [v EXCEPT !.points = Put(@, id, [buffer |-> Upload(buffer, data), n |-> n])])

have_points(v, id) == v.points[id] # None

update_point_colors(v, id, data) ==
  Checked(v, v.points[id] # None /\ data.n \in {3 * v.points[id].n, 4 * v.points[id].n},
    [v EXCEPT !.colors =
       Put(@, id, [buffer |-> Upload(NewBuffer("array", data.type), data),
                   n |-> v.points[id].n, alpha |-> data.n = 4 * v.points[id].n])])

set_tint(v, id, color, amount) ==
  Checked(v, amount \in 0..1, [v EXCEPT !.tint = Put(@, id, <<color, amount>>)])
unset_tint(v, id) ==
  [v EXCEPT !.tint =
     Put(@, id, IF @[id] = None THEN <<"red", 0>> ELSE <<@[id][1], 0>>)]

(* The tint a draw call finds, made on first use.                          *)
ensure_tint(v, id) == IF v.tint[id] = None THEN unset_tint(v, id) ELSE v

(* What is read at a location: data in an array, or a single value.        *)
Read(gl, array, location, data) ==
  LET a == Attribute(gl, array, location)
  IN  IF array.arrays[location] = None THEN a ELSE <<data, a.offset, a.stride>>

On(array, location) == IF array = None THEN FALSE ELSE array.arrays[location] # None

(* Mutant: the stride of colors with alpha, forgotten.                     *)
ColorStrideForgotten(colors) == 3
ColorStride(colors) == IF colors.alpha THEN 4 ELSE 3

CloudArray(v, id) ==
  LET old == IF v.arrays[id] = None THEN NewVertexArray ELSE v.arrays[id]
      c == v.colors[id]
      xyz == set_vertex_attribute(old, 0, "points", 3, 0, 0)
      rgb == IF c = None THEN xyz
             ELSE set_vertex_attribute(xyz, 1, "colors", 3, 0, ColorStride(c))
  IN  IF c # None /\ c.alpha THEN set_vertex_attribute(rgb, 2, "colors", 1, 3, 4) ELSE rgb

CloudDefaults(v, id) ==
  LET c == v.colors[id]
      red == IF c = None THEN set_default(v.gl, 1, <<"red">>) ELSE v.gl
  IN  IF c # None /\ c.alpha THEN red ELSE set_default(red, 2, <<"opaque">>)

draw_points(v, id) ==
  LET p == v.points[id]
      c == v.colors[id]
      gl == draw_colored_vertices(CloudDefaults(v, id), screen(v))
      array == CloudArray(v, id)
      rgba == IF c = None THEN None ELSE c.buffer.data
      now == [xyz |-> Read(gl, array, 0, p.buffer.data), rgb |-> Read(gl, array, 1, rgba),
              alpha |-> Read(gl, array, 2, rgba)]
      given == [xyz |-> <<p.buffer.data, 0, 3>>,
                rgb |-> IF c = None THEN <<"red">>
                        ELSE <<rgba, 0, IF rgba.n = 4 * p.n THEN 4 ELSE 3>>,
                alpha |-> IF c = None THEN <<"opaque">> ELSE IF rgba.n = 3 * p.n THEN <<"opaque">>
                          ELSE <<rgba, 3, 4>>]
  IN  Checked(v, p # None, Checked(v,
        /\ CanSetAttribute(p.buffer)
        /\ c # None => CanSetAttribute(c.buffer) /\ c.n = p.n,
        update_pick_buffer(
          [ensure_tint(ensure_pose(v, id), id) EXCEPT
             !.arrays = Put(@, id, array), !.gl = gl,
             !.seen = [what |-> "cloud", n |-> p.n, now |-> now, given |-> given,
                       before |-> [rgb |-> On(v.arrays[id], 1),
                                   alpha |-> On(v.arrays[id], 2)]]], id, p.n)))

-----------------------------------------------------------------------------
(* Shapes in the pose of a thing.                                          *)
draw_coordinate_frame(v, id) ==
  Checked(v, v.poses[id] # None,
    update_pick_buffer([ensure_tint(v, id) EXCEPT
                          !.gl = draw_colored_vertices(@, screen(v)), !.seen = None],
                       id, CoordinateFrame.vertices))

draw_shape(v, id, shape, color) ==
  Checked(v, v.poses[id] # None,
    update_pick_buffer([ensure_tint(v, id) EXCEPT
                          !.gl = draw_colored_vertices(
                                   set_default(set_default(@, 1, <<color>>), 2, <<"opaque">>),
                                   screen(v)), !.seen = None],
                       id, shape.vertices))
draw_cone(v, id, color) == draw_shape(v, id, Cone, color)
draw_square_cone(v, id, color) == draw_shape(v, id, SquareCone, color)

(* Lines, from buffers and a vertex array that all calls share.  Whether   *)
(* there is no color, one, or one for each line, is told by their number.  *)
draw_lines(v, id1, id2, n, colors) ==
  LET each == colors.n \notin {0, 3, 4}
      rgba == each /\ colors.n = 4 * n
      stride == IF rgba THEN 4 ELSE 3
      one == IF colors.n = 0 THEN <<"red">> ELSE <<colors.as>>
      ends == set_vertex_attribute(
                set_vertex_attribute(v.lines.array, 0, "points1", 3, 0, 0),
                1, "points2", 3, 0, 0)
      rgb == IF each THEN set_vertex_attribute(ends, 2, "colors", 3, 0, stride) ELSE ends
      array == IF rgba THEN set_vertex_attribute(rgb, 3, "colors", 1, 3, 4) ELSE rgb
      red == IF each THEN v.gl ELSE set_default(v.gl, 2, one)
      gl == IF rgba THEN red ELSE set_default(red, 3, <<"opaque">>)
      buffer == IF each THEN Upload(NewBuffer("array", colors.type), colors)
                ELSE v.lines.colors
  IN  Checked(v, /\ each => colors.n \in {3 * n, 4 * n}
                 /\ CanDraw(screen(v), array, TRUE, FALSE),
        [ensure_pose(ensure_pose(v, id1), id2) EXCEPT
           !.lines = [array |-> PerLine(array), colors |-> buffer],
           !.gl = draw_line_instances(gl, screen(v)),
           !.seen = [what |-> "lines", n |-> n,
                     before |-> [rgb |-> On(v.lines.array, 2), alpha |-> On(v.lines.array, 3)],
                     now |-> [rgb |-> Read(gl, array, 2, buffer.data),
                              alpha |-> Read(gl, array, 3, buffer.data)],
                     given |-> [rgb |-> IF each THEN <<colors, 0, stride>> ELSE one,
                                alpha |-> IF rgba THEN <<colors, 3, 4>> ELSE <<"opaque">>]]])

-----------------------------------------------------------------------------
(* Images: the type and the channels are those of the first upload.  last  *)
(* is a ghost: the pixels last given.                                      *)
update_image(v, id, width, height, data) ==
  LET channels == data.n \div (width * height)
      texture == IF v.images[id] = None THEN NewTexture(data.type, channels, 0, 0)
                 ELSE v.images[id].texture
  IN  Checked(v, width * height # 0, Checked(v,
        /\ data.n % (width * height) = 0 /\ channels \in {1, 3}
        /\ data.type \in {"float", "u8", "u16"}
        /\ CanUploadTexture(texture, width, height, data),
        [v EXCEPT !.images =
           Put(@, id, [width |-> width, height |-> height, last |-> data,
                       texture |-> UploadTexture(texture, width, height, data)])]))

have_image(v, id) == v.images[id] # None

Cmaps == {"heat", "viridis"}
get_cmap_from_string(name) == IF name \in Cmaps THEN name ELSE "viridis"

set_cmap(v, id, name) ==
  LET i == v.images[id]
      cmap == get_cmap_from_string(name)
  IN  Checked(v, i # None,
        IF v.cmaps[id] # None THEN [v EXCEPT !.cmaps = Put(@, id, [@[id] EXCEPT !.cmap = cmap])]
        ELSE [v EXCEPT
          !.gl = AfterConstruction(@),
          !.cmaps = Put(@, id,
            [cmap |-> cmap, fb |-> NewFrameBuffer(4, NewTexture("u8", 3, 0, 0), i.width,
                                                  i.height, FALSE)])])

(* The handle names a texture and says how large it is; what it is to show *)
(* goes with it here.                                                      *)
get_image(v, id) ==
  LET i == v.images[id]
      c == v.cmaps[id]
      fb == [set_size(c.fb, i.width, i.height) EXCEPT !.color.data = <<i.texture.data, c.cmap>>]
      handle == [width |-> i.width, height |-> i.height,
                 data |-> IF c = None THEN i.last ELSE <<i.last, c.cmap>>]
  IN  Checked(v, i # None,
        IF c = None
        THEN [v EXCEPT !.seen = [what |-> "image", now |-> i.texture, given |-> handle]]
        ELSE [v EXCEPT !.cmaps = Put(@, id, [c EXCEPT !.fb = fb]), !.gl = draw_cmapped_texture(@, fb),
                       !.seen = [what |-> "image", now |-> fb.color, given |-> handle]])

draw_image_3d(v, id) ==
  LET w == get_image(v, id) IN Checked(w, TRUE, [w EXCEPT !.gl = draw_texture(@, screen(v))])

-----------------------------------------------------------------------------
(* Models: parts of meshes, each with a vertex array of its own.  A mesh   *)
(* is told apart by whether it has colors.                                 *)
Faces == Upload(NewBuffer("element", "u32"), Data("u32", 3, "faces"))
MeshArray(colored) ==
  LET xyz == set_vertex_attribute(NewVertexArray, 0, "xyzs", 3, 0, 0)
      rgb == IF colored THEN set_vertex_attribute(xyz, 1, "rgbs", 3, 0, 0) ELSE xyz
  IN  set_element_array(set_vertex_attribute(rgb, 2, "normals", 3, 0, 0), Faces)

add_model_part(v, id, part, meshes) ==
  LET parts == IF v.models[id] = None THEN [p \in Parts |-> None] ELSE v.models[id]
      mesh(i) == [array |-> MeshArray(meshes[i]), material |-> "default"]
      plain == \E i \in DOMAIN meshes : ~meshes[i]
  IN  Checked(v, parts[part] = None /\ CanSetElements(Faces),
        [v EXCEPT
          !.models = Put(@, id, Put(parts, part,
            [tx |-> "identity", meshes |-> [i \in DOMAIN meshes |-> mesh(i)]])),
          !.gl = IF plain THEN set_default(@, 1, <<"white">>) ELSE @])
add_model(v, id, meshes) == add_model_part(v, id, CHOOSE p \in Parts : TRUE, meshes)

HavePart(v, id, part) == v.models[id] # None /\ v.models[id][part] # None

update_tx_model_modelpart(v, id, part, tx) ==
  Checked(v, v.models[id] # None, Checked(v, v.models[id][part] # None,
    [v EXCEPT !.models = Put(@, id, [@[id] EXCEPT ![part].tx = tx])]))

get_tx_world_modelpart(v, id, part) ==
  Checked(v, v.models[id] # None, Checked(v, v.models[id][part] # None, ensure_pose(v, id)))

draw_model(v, id) ==
  Checked(v, v.models[id] # None,
    [ensure_pose(v, id) EXCEPT !.gl = draw_material_mesh(@, screen(v)), !.seen = None])

set_model_material(v, id, material) ==
  LET changed(part) == IF part = None THEN None
        ELSE [part EXCEPT !.meshes =
                [i \in DOMAIN @ |-> [@[i] EXCEPT !.material = material]]]
  IN  Checked(v, v.models[id] # None,
        [v EXCEPT !.models =
           Put(@, id, [p \in Parts |-> changed(v.models[id][p])])])

-----------------------------------------------------------------------------
(* A program that calls the interface as it likes, a kind of calls at a    *)
(* time.                                                                   *)
CONSTANTS
  Poses,  \* camera poses and orbit points it may set
  Counts, \* for each kind of calls the numbers of points, lines and pixels,
  Mouse   \* and the IO it may be given

VARIABLE kind

Call(after) == ~viewer.failed /\ viewer' = after
Colors(n) == {Data("u8", 3 * n, "rgb"), Data("u8", 4 * n, "rgba")}

Frame ==
  \E io \in Mouse[kind], hit \in Hits(viewer) \cup {None} : Call(new_frame(viewer, io, hit))

CameraCall ==
  /\ kind = "camera"
  /\ \/ Call(enable_auto_orbit(viewer))
     \/ \E pose \in Poses : Call(set_tx_camera_world(viewer, pose))
     \/ \E pose \in Poses : Call(set_pt_world_orbit(viewer, pose.pos))
     \/ viewer.scopes = <<>> /\ Call(PushScope(viewer, InitViewer.params, 1))
     \/ viewer.scopes # <<>> /\ Call(PopScope(viewer))

CloudCall(id) ==
  /\ kind = "cloud"
  /\ \/ \E n \in Counts[kind] : Call(update_points(viewer, id, n, "xyz"))
     \/ \E n \in Counts[kind] : \E data \in Colors(n) : Call(update_point_colors(viewer, id, data))
     \/ \E color \in {"red", "blue"} : Call(set_tint(viewer, id, color, 1))
     \/ Call(unset_tint(viewer, id))
     \/ Call(draw_points(viewer, id))

ShapeCall(id) ==
  /\ kind = "shape"
  /\ \/ Call(update_tx_world_object(viewer, id, "moved"))
     \/ Call(draw_coordinate_frame(viewer, id))
     \/ Call(draw_cone(viewer, id, "blue"))
     \/ Call(draw_square_cone(viewer, id, "blue"))

LinesCall(id) ==
  /\ kind = "lines"
  /\ \E n \in Counts[kind] :
       \E colors \in Colors(n) \cup {Data("float", 0, "none"), Data("float", 3, "white")} :
         Call(draw_lines(viewer, id, id, n, colors))

ImageCall(id) ==
  /\ kind = "image"
  /\ \/ \E w, h \in Counts[kind], channels \in {1, 3}, pixels \in {"dark", "light"} :
          Call(update_image(viewer, id, w, h, Data("u16", w * h * channels, pixels)))
     \/ \E cmap \in {"heat", "nonsense"} : Call(set_cmap(viewer, id, cmap))
     \/ Call(get_image(viewer, id))
     \/ Call(draw_image_3d(viewer, id))

ModelCall(id) ==
  /\ kind = "model"
  /\ \/ \E part \in Parts, colored \in BOOLEAN :
          Call(add_model_part(viewer, id, part, <<colored>>))
     \/ Call(add_model(viewer, id, <<TRUE, FALSE>>))
     \/ \E part \in Parts : Call(update_tx_model_modelpart(viewer, id, part, "moved"))
     \/ \E part \in Parts : Call(get_tx_world_modelpart(viewer, id, part))
     \/ Call(set_model_material(viewer, id, "shiny"))
     \/ Call(draw_model(viewer, id))

Calls(ids) ==
  /\ \/ Frame \/ CameraCall
     \/ \E id \in ids : \/ CloudCall(id) \/ ShapeCall(id) \/ LinesCall(id)
                        \/ ImageCall(id) \/ ModelCall(id)
  /\ UNCHANGED kind

-----------------------------------------------------------------------------
(* viewer.cpp:276-279, "so that the screen does not jump": what the camera *)
(* sees is moved by the mouse and by set_tx_camera_world(), and never by   *)
(* moving the orbit point, be it by a call or by a click.                  *)
Moved(io) == io.wheel # 0 \/ io.move # 0
SetByHand ==
  \/ ~viewer'.io.capture /\ Moved(viewer'.io)
  \/ /\ viewer'.offset = <<0, 0>>
     /\ camera(viewer'.orbit, <<0, 0>>) = viewer'.params.tx
ScreenDoesNotJump ==
  [][ \/ camera(viewer'.orbit, viewer'.offset) = camera(viewer.orbit, viewer.offset)
      \/ SetByHand ]_viewer

(* viewer.cpp:521-588, 883-950, 709-736: a cloud or lines are drawn with   *)
(* the points and colors they were last given, except that an array read   *)
(* for an earlier call is read again where now there is a default; and an  *)
(* image is as large as its handle says and shows the pixels last given,   *)
(* in its color map if it has one.                                         *)
Agrees(seen, part) == seen.now[part] = seen.given[part]
AsGiven(seen) ==
  IF seen.what = "image"
  THEN \A part \in {"width", "height", "data"} : Agrees(seen, part)
  ELSE seen.n > 0 =>
         \A part \in DOMAIN seen.given :
           Agrees(seen, part) \/ (part # "xyz" /\ seen.before[part])
DrawnAsGiven == viewer.seen # None => AsGiven(viewer.seen)

(* viewer.cpp:339-389, 396-411: the thing under the mouse is one that was  *)
(* drawn in the frame before this one, also when the window was minimized  *)
(* for a while.                                                            *)
PickIsOfLastFrame ==
  \A id \in Things :
    was_clicked(viewer, id) \/ was_hovered(viewer, id) => viewer.info.at = 1 - viewer.frame

(* The comment of draw_points(), viewer.cpp:539-544: "we just incur the    *)
(* cost of re-binding on every call. in exchange, we don't have to deal    *)
(* with state tracking issues."                                            *)
NoStateTracked ==
  viewer.seen # None /\ viewer.seen.what = "cloud" /\ viewer.seen.n > 0 =>
    \A part \in DOMAIN viewer.seen.given : Agrees(viewer.seen, part)

=============================================================================
