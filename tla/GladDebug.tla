------------------------------ MODULE GladDebug -----------------------------
(***************************************************************************)
(* The OpenGL loader of the Debug build (render/glad_debug).  It knows two *)
(* extensions only, and the program calls each function through a wrapper  *)
(* that asks for the error afterwards.  The tables hold the functions that *)
(* the program, the wrappers or the loader itself call.                    *)
(***************************************************************************)
EXTENDS Integers

GL_1_0 == {"glTexParameteri", "glTexImage2D", "glClear", "glClearColor", "glEnable",
           "glGetError", "glGetIntegerv", "glGetString", "glViewport"}
GL_1_1 == {"glDrawArrays", "glTexSubImage2D", "glBindTexture", "glDeleteTextures",
           "glGenTextures"}
GL_1_3 == {"glActiveTexture"}
GL_1_5 == {"glBindBuffer", "glDeleteBuffers", "glGenBuffers", "glBufferData"}
GL_2_0 == {"glAttachShader", "glBindAttribLocation", "glCompileShader", "glCreateProgram",
           "glCreateShader", "glDeleteProgram", "glDeleteShader",
           "glDisableVertexAttribArray", "glEnableVertexAttribArray", "glGetProgramiv",
           "glGetProgramInfoLog", "glGetShaderiv", "glGetShaderInfoLog",
           "glGetUniformLocation", "glIsProgram", "glIsShader", "glLinkProgram",
           "glShaderSource", "glUseProgram", "glUniform1f", "glVertexAttribPointer"}
GL_3_0_Mutant == {"glGetStringi", "glBindVertexArray", "glDeleteVertexArrays",
                  "glGenVertexArrays"}               \* a function is missing
GL_3_0 == {"glGetStringi", "glMapBufferRange", "glBindVertexArray",
           "glDeleteVertexArrays", "glGenVertexArrays"}
GL_3_2 == {"glFenceSync", "glDeleteSync", "glClientWaitSync"}
GL_ARB_buffer_storage == {"glBufferStorage"}
GL_KHR_debug == {"glDebugMessageCallback", "glDebugMessageControl"}

(* The pointers, next to the wrappers, are null when the program starts.   *)
Unset == {}

(* find_coreGL sets a flag for every version up to the driver's, and each  *)
(* load function looks at its flag.                                        *)
AtLeast(version, v) == version[1] > v[1] \/ (version[1] = v[1] /\ version[2] >= v[2])
If(flag, functions) == IF flag THEN functions ELSE {}

LoadCore(version) ==
  UNION {If(AtLeast(version, <<1, 0>>), GL_1_0), If(AtLeast(version, <<1, 1>>), GL_1_1),
         If(AtLeast(version, <<1, 3>>), GL_1_3), If(AtLeast(version, <<1, 5>>), GL_1_5),
         If(AtLeast(version, <<2, 0>>), GL_2_0), If(AtLeast(version, <<3, 0>>), GL_3_0),
         If(AtLeast(version, <<3, 2>>), GL_3_2)}

LoadExtensions(exts) ==
  If("GL_ARB_buffer_storage" \in exts, GL_ARB_buffer_storage)
    \cup If("GL_KHR_debug" \in exts, GL_KHR_debug)

(* get_exts, and with it gladLoadGLLoader, fails with a driver that names  *)
(* no extension at all.                                                    *)
HasExts(exts) == exts # {}

Loaded(version, exts) == LoadCore(version) \cup LoadExtensions(exts)

(* What _post_call_callback_default calls.                                 *)
PostCall == {"glGetError"}

(* What a call through a wrapper calls: the function and then the callback. *)
Wrapped(functions) == functions \cup If(functions # {}, PostCall)

(* gladLoadGLLoader takes glGetString past its wrapper.                    *)
LoaderCalls == {"glGetString"} \cup Wrapped({"glGetIntegerv", "glGetStringi"})
=============================================================================
