----------------------------- MODULE GladRelease ----------------------------
(***************************************************************************)
(* The OpenGL loader of the Release and RelWithDebInfo builds              *)
(* (render/glad_release): which function pointers it fills in.  Each table *)
(* holds the functions of a version of OpenGL that the program or the      *)
(* loader itself calls; 1.2, 1.4, 2.1 and 3.1 have none.                   *)
(***************************************************************************)
EXTENDS Integers

GL_1_0 == {"glTexParameteri", "glTexImage2D", "glClear", "glClearColor", "glEnable",
           "glGetError", "glGetIntegerv", "glGetString", "glViewport"}
GL_1_1 == {"glDrawArrays", "glTexSubImage2D", "glBindTexture", "glDeleteTextures",
           "glGenTextures"}
GL_1_3 == {"glActiveTexture"}
GL_1_5 == {"glBindBuffer", "glDeleteBuffers", "glGenBuffers", "glBufferData"}
GL_2_0 == {"glAttachShader", "glBindAttribLocation", "glCompileShader", "glCreateProgram",
           "glCreateShader", "glDeleteProgram", "glDeleteShader",
           "glDisableVertexAttribArray", "glEnableVertexAttribArray", "glGetProgramiv",
           "glGetProgramInfoLog", "glGetShaderiv", "glGetShaderInfoLog",
           "glGetUniformLocation", "glIsProgram", "glIsShader", "glLinkProgram",
           "glShaderSource", "glUseProgram", "glUniform1f", "glVertexAttribPointer"}
GL_3_0 == {"glGetStringi", "glMapBufferRange", "glBindVertexArray",
           "glDeleteVertexArrays", "glGenVertexArrays"}
GL_3_2 == {"glFenceSync", "glDeleteSync", "glClientWaitSync"}
GL_ARB_buffer_storage == {"glBufferStorage"}
GL_ARB_debug_output == {}                            \* all its functions end in ARB
GL_KHR_debug == {"glDebugMessageCallback", "glDebugMessageControl"}

(* The pointers, variables of the file, are null when the program starts.  *)
Unset == {}

(* find_coreGL sets a flag for every version up to the driver's, and each  *)
(* load function looks at its flag.                                        *)
AtLeast(version, v) == version[1] > v[1] \/ (version[1] = v[1] /\ version[2] >= v[2])
If(flag, functions) == IF flag THEN functions ELSE {}

LoadCore(version) ==
  UNION {If(AtLeast(version, <<1, 0>>), GL_1_0), If(AtLeast(version, <<1, 1>>), GL_1_1),
         If(AtLeast(version, <<1, 3>>), GL_1_3), If(AtLeast(version, <<1, 5>>), GL_1_5),
         If(AtLeast(version, <<2, 0>>), GL_2_0), If(AtLeast(version, <<3, 0>>), GL_3_0),
         If(AtLeast(version, <<3, 2>>), GL_3_2)}

LoadExtensions(exts) ==
  UNION {If("GL_ARB_buffer_storage" \in exts, GL_ARB_buffer_storage),
         If("GL_ARB_debug_output" \in exts, GL_ARB_debug_output),
         If("GL_KHR_debug" \in exts, GL_KHR_debug)}

(* get_exts, and with it gladLoadGLLoader, fails with a driver that names  *)
(* no extension at all.                                                    *)
HasExts(exts) == exts # {}

Loaded(version, exts) == LoadCore(version) \cup LoadExtensions(exts)

(* What the loader itself calls.                                           *)
LoaderCalls == {"glGetString", "glGetIntegerv", "glGetStringi"}
=============================================================================
