------------------------------ MODULE Shaders ------------------------------
(***************************************************************************)
(* shaders/: one program for each way of drawing, compiled when it is      *)
(* first used.  A call sets all uniforms the program reads, which are left *)
(* out, and draws.                                                         *)
(***************************************************************************)
EXTENDS Graphics

ensure_program_initted(gl, program) == [gl EXCEPT !.programs = @ \cup {program}]
DrawWith(gl, program, buffer) == Draw(ensure_program_initted(gl, program), buffer)

(* The defaults of the color and of alpha, whatever the caller has set.    *)
draw_colored_vertices(gl, buffer) ==
  DrawWith(set_default(set_default(gl, 1, <<"red">>), 2, <<"opaque">>),
           "colored_vertices", buffer)

draw_vertex_ids(gl, buffer) == DrawWith(gl, "vertex_ids", buffer)
draw_vertex_world_xyzs(gl, buffer) == DrawWith(gl, "vertex_world_xyzs", buffer)
draw_material_mesh(gl, buffer) == DrawWith(gl, "material_mesh", buffer)

(* One instance for each line: the divisors of the array are set as well.  *)
draw_line_instances(gl, buffer) == DrawWith(gl, "lines", buffer)
PerLine(array) == [array EXCEPT !.divisor = [l \in Location |-> 1]]

(* These draw a rectangle of their own, filled from a texture.             *)
draw_texture(gl, buffer) == DrawWith(gl, "texture", buffer)
draw_cmapped_texture(gl, buffer) == DrawWith(gl, "cmapped_texture", buffer)
draw_debug_vertex_ids(gl, buffer) == DrawWith(gl, "debug_vertex_ids", buffer)

=============================================================================
