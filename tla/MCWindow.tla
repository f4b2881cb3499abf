------------------------------ MODULE MCWindow ------------------------------
(* Window.tla with three blocks, drivers of the oldest version that GLFW may *)
(* give and of a newer one, and a shader limit of three reads instead of   *)
(* 1280.                                                                   *)
EXTENDS Window

CONSTANTS b1, b2, b3

MCBlocks == {b1, b2, b3}

MCDrivers ==
  [build : {"Debug", "Release"}, version : {<<3, 2>>, <<4, 6>>},
   exts : SUBSET {"GL_ARB_buffer_storage", "GL_ARB_debug_output", "GL_KHR_debug", "other"}]

MCWidths == {16, 20}
MCSourceSizes == {0, 3, 4, 9, 16, 21, 24}
=============================================================================
