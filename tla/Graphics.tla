------------------------------ MODULE Graphics ------------------------------
(***************************************************************************)
(* axgl/: the wrappers around OpenGL objects, as operators on records, and *)
(* the state of the OpenGL context they work on.                           *)
(*                                                                         *)
(* Data (the contents of a buffer or a texture) are values with a type and *)
(* a size.  What a vertex shader reads at a location is an array if the    *)
(* vertex array has one enabled there, and otherwise the generic value of  *)
(* the location, which belongs to the context and not to the vertex array. *)
(* Operators named Can... are the CHECKs of the operation they go with.    *)
(***************************************************************************)
EXTENDS Integers

CONSTANT None

Location == 0..3

-----------------------------------------------------------------------------
(* Buffer: `id' says that it has been generated.                           *)
NewBuffer(kind, type) == [kind |-> kind, type |-> type, id |-> FALSE, data |-> None]

CanUpload(buffer, data) == buffer.type # None /\ buffer.type = data.type
Upload(buffer, data) == [buffer EXCEPT !.id = TRUE, !.data = data]

-----------------------------------------------------------------------------
(* Texture: allocated anew, its contents undefined, when the size changes. *)
ensure_size(texture, width, height) ==
  IF texture.width = width /\ texture.height = height THEN texture
  ELSE [texture EXCEPT !.width = width, !.height = height, !.data = None]

NewTexture(type, channels, width, height) ==
  ensure_size([type |-> type, channels |-> channels, width |-> 0, height |-> 0,
               data |-> None], width, height)

Pixels(texture, width, height) == width * height * texture.channels

CanUploadTexture(texture, width, height, data) ==
  data.type = texture.type /\ data.n = Pixels(texture, width, height)
UploadTexture(texture, width, height, data) ==
  [ensure_size(texture, width, height) EXCEPT !.data = data]

CanDownloadTexture(texture, type, length) ==
  type = texture.type /\ length = Pixels(texture, texture.width, texture.height)

-----------------------------------------------------------------------------
(* The context: the bound frame buffer and viewport, the one place they    *)
(* are stashed in, the generic values of the locations, and the programs   *)
(* compiled so far.                                                        *)
NewContext == [bound |-> 0, viewport |-> None, stash |-> None,
               generic |-> [l \in Location |-> <<"black">>],
               programs |-> {}]

stash_prev_framebuffer(gl) == [gl EXCEPT !.stash = <<gl.bound, gl.viewport>>]
unstash_prev_framebuffer(gl) ==
  [gl EXCEPT !.bound = gl.stash[1], !.viewport = gl.stash[2], !.stash = None]

(* FrameBuffer: its color texture, and a depth buffer of the first size.   *)
set_size(buffer, width, height) ==
  [buffer EXCEPT !.color = ensure_size(@, width, height),
                 !.width = width, !.height = height]

NewFrameBuffer(id, texture, width, height, with_depth) ==
  set_size([id |-> id, color |-> texture, width |-> 0, height |-> 0,
            depth |-> IF with_depth THEN <<width, height>> ELSE None], width, height)

Integral(texture) == texture.type = "uint"

(* The constructor leaves the default frame buffer bound, ...              *)
AfterConstruction(gl) == [gl EXCEPT !.bound = 0]

(* ... clear(), clear_ui() and Program::draw() bind theirs in between.     *)
Within(gl, id, viewport) ==
  unstash_prev_framebuffer(
    [stash_prev_framebuffer(gl) EXCEPT !.bound = id, !.viewport = viewport])

CanClear(buffer, ui) == Integral(buffer.color) = ui
Clear(gl, buffer) ==
  Within(gl, buffer.id, <<buffer.color.width, buffer.color.height>>)

-----------------------------------------------------------------------------
(* VertexArray: at each location None or an enabled array, the stretch of  *)
(* a buffer it reads.                                                      *)
NewVertexArray ==
  [arrays |-> [l \in Location |-> None], divisor |-> [l \in Location |-> 0],
   elements |-> None]

CanSetAttribute(buffer) == buffer.kind = "array" /\ buffer.id
set_vertex_attribute(array, location, of, dimension, offset, stride) ==
  [array EXCEPT !.arrays[location] =
     [of |-> of, dimension |-> dimension, offset |-> offset,
      stride |-> IF stride = 0 THEN dimension ELSE stride]]

CanSetElements(buffer) == buffer.kind = "element" /\ buffer.id
set_element_array(array, buffer) == [array EXCEPT !.elements = buffer.type]

(* A default does not disable an array that is enabled at the location.    *)
set_default(gl, location, value) == [gl EXCEPT !.generic[location] = value]

Attribute(gl, array, location) ==
  IF array.arrays[location] # None THEN array.arrays[location] ELSE gl.generic[location]

-----------------------------------------------------------------------------
(* Program::draw()                                                         *)
CanDraw(buffer, array, instanced, want_blend) ==
  /\ instanced => array.elements = None
  /\ want_blend => ~Integral(buffer.color)
Draw(gl, buffer) == Within(gl, buffer.id, <<buffer.width, buffer.height>>)

(* shapes.cpp: vertices at location 0, colors at location 1 or none.       *)
Shape(colored, elements) ==
  LET positions == set_vertex_attribute(NewVertexArray, 0, "vertices", 3, 0, 0)
  IN  [(IF colored THEN set_vertex_attribute(positions, 1, "colors", 3, 0, 0)
        ELSE positions) EXCEPT !.elements = elements]
CoordinateFrame == [array |-> Shape(TRUE, None), vertices |-> 6]
Cone == [array |-> Shape(FALSE, "u8"), vertices |-> 22]
SquareCone == [array |-> Shape(FALSE, "u8"), vertices |-> 5]

=============================================================================
