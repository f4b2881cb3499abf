------------------------------- MODULE Window -------------------------------
(***************************************************************************)
(* The window from ogl_render_create to ogl_render_destroy: GLFW, the      *)
(* OpenGL loader of the build, the pixel buffer, the screen quad with its  *)
(* two shaders, the loop of RenderLoop.tla, and the end.  A call of an     *)
(* OpenGL function whose pointer the loader did not fill in crashes.       *)
(***************************************************************************)
EXTENDS RenderLoop

CONSTANTS Drivers,       \* [build, version, exts]: the build and what GLFW finds
          Widths, Height,\* the sizes of the surface
          BUFSIZ,        \* bytes of a read of a shader's source
          SourceMax,     \* bytes after which file_read_shader_source stops growing
          SourceSizes    \* bound: the sizes of the shaders' files

ASSUME WindowAssumption ==
  /\ Drivers \subseteq [build : {"Debug", "Release"}, version : Nat \X Nat,
                        exts : SUBSET {"GL_ARB_buffer_storage", "GL_ARB_debug_output",
                                       "GL_KHR_debug", "other"}]
  /\ \A d \in Drivers :                    \* what glfwWindowHint asks for
       d.version[1] > 3 \/ (d.version[1] = 3 /\ d.version[2] >= 2)
  /\ Widths \subseteq Nat \ {0} /\ Height \in Nat \ {0}
  /\ BUFSIZ \in Nat \ {0} /\ SourceMax \in Nat /\ SourceSizes \subseteq Nat

VARIABLES stage,         \* where the main thread is outside the loop
          driver,        \* one of Drivers
          loaded,        \* the functions whose pointers are set
          context,       \* the OpenGL context: "none", "current", "destroyed"
          call,          \* the OpenGL functions that the last step called
          width,         \* the surface's width
          target,        \* rend->window_width and pbo->width; 0: no pixel buffer
          source,        \* the shader file that is being read
          shader,        \* "vs" or "fs": the shader whose turn it is
          sync           \* rend->sync is not null

setupVars == <<driver, loaded, context, width, target, source, shader>>
wvars == <<vars, stage, setupVars, call, sync>>

Release == INSTANCE GladRelease
Debug == INSTANCE GladDebug

DebugBuild == driver.build = "Debug"

PBO_SIZE_MULTIPLIER == 8
NoSource == [left |-> 0, got |-> 0, room |-> 0, eof |-> FALSE, bad |-> FALSE]

WInit ==
  /\ Init
  /\ stage = "start" /\ driver \in Drivers /\ context = "none" /\ call = {}
  /\ loaded = IF DebugBuild THEN Debug!Unset ELSE Release!Unset
  /\ width \in Widths /\ target = 0 /\ source = NoSource /\ shader = "vs" /\ sync = FALSE

-----------------------------------------------------------------------------
(* The functions a step calls, with the wrappers of a Debug build, lead to *)
(* the next stage if they all are there.                                   *)
Called(functions) == IF DebugBuild THEN Debug!Wrapped(functions) ELSE functions

Calling(functions, next) ==
  /\ call' = Called(functions)
  /\ stage' = IF Called(functions) \subseteq loaded THEN next ELSE "crashed"

Quiet(next) == call' = {} /\ stage' = next

Exit == Quiet("exited") /\ pc' = "closed" /\ UNCHANGED <<todo, view, data, gpu, fence, read, gpuVars>>

GlfwFails ==                     \* glfwInit, or no window with a context of 3.2
  /\ stage = "start"
  /\ Exit /\ UNCHANGED <<setupVars, sync>>

GlfwWindowMutant ==              \* without glfwMakeContextCurrent
  /\ stage = "start"
  /\ Quiet("window")
  /\ UNCHANGED <<vars, setupVars, sync>>

GlfwWindow ==
  /\ stage = "start"
  /\ context' = "current"
  /\ Quiet("window")
  /\ UNCHANGED <<vars, driver, loaded, width, target, source, shader, sync>>

HasExts == IF DebugBuild THEN Debug!HasExts(driver.exts) ELSE Release!HasExts(driver.exts)

GladLoads ==
  IF DebugBuild THEN Debug!Loaded(driver.version, driver.exts)
                ELSE Release!Loaded(driver.version, driver.exts)

LoadGL ==
  /\ stage = "window" /\ HasExts
  /\ loaded' = GladLoads
  /\ call' = IF DebugBuild THEN Debug!LoaderCalls ELSE Release!LoaderCalls
  /\ stage' = IF call' \subseteq loaded' THEN "loaded" ELSE "crashed"
  /\ UNCHANGED <<vars, driver, context, width, target, source, shader, sync>>

LoadFails ==                     \* gladLoadGLLoader is 0
  /\ stage = "window" /\ ~HasExts
  /\ Exit /\ UNCHANGED <<setupVars, sync>>

NoBufferStorage ==
  /\ stage = "loaded" /\ "GL_ARB_buffer_storage" \notin driver.exts
  /\ Exit /\ UNCHANGED <<setupVars, sync>>

(* #if !defined(NDEBUG) && defined(CONFIG_OGL_DEBUG_OUTPUT), both true of  *)
(* a Debug build.                                                          *)
DebugOutput == DebugBuild /\ "GL_ARB_debug_output" \in driver.exts

CreateEnd ==
  /\ stage = "loaded" /\ "GL_ARB_buffer_storage" \in driver.exts
  /\ Calling({"glGetString", "glEnable"}
               \cup IF DebugOutput THEN {"glDebugMessageCallback", "glDebugMessageControl"} ELSE {},
             "created")
  /\ UNCHANGED <<vars, setupVars, sync>>

TargetWidthMutant == width                           \* not cut
TargetWidth == width - (width % PBO_SIZE_MULTIPLIER)

InitRenderTarget ==
  /\ stage = "created"
  /\ target' = TargetWidth
  /\ Calling({"glGenBuffers", "glBindBuffer", "glBufferStorage", "glMapBufferRange",
              "glGenTextures", "glBindTexture", "glTexImage2D", "glTexParameteri"}, "target")
  /\ UNCHANGED <<vars, driver, loaded, context, width, source, shader, sync>>

InitScreen ==                    \* ogl_squad_create
  /\ stage = "target"
  /\ Calling({"glGenVertexArrays", "glBindVertexArray", "glGenBuffers", "glBindBuffer",
              "glBufferData"}, "open")
  /\ UNCHANGED <<vars, setupVars, sync>>

ShaderMissing ==
  /\ stage = "open"
  /\ Exit /\ UNCHANGED <<setupVars, sync>>

ShaderOpen ==
  /\ stage = "open"
  /\ \E n \in SourceSizes : source' = [NoSource EXCEPT !.left = n, !.room = BUFSIZ]
  /\ Quiet("read")
  /\ UNCHANGED <<vars, driver, loaded, context, width, target, shader, sync>>

Lesser(a, b) == IF a < b THEN a ELSE b

GrownMutant(s) == IF s.got > s.room THEN 2 * s.room ELSE s.room    \* without the next read
Grown(s) == IF s.got + BUFSIZ > s.room THEN 2 * s.room ELSE s.room

Full(s) == s.got + BUFSIZ > s.room /\ s.room > SourceMax

ShaderRead ==                    \* fread: as much as there is, or an error
  /\ stage = "read" /\ ~source.eof /\ ~Full(source)
  /\ \E bad \in BOOLEAN :
       LET n == IF bad THEN 0 ELSE Lesser(BUFSIZ, source.left)
       IN source' = [left |-> source.left - n, got |-> source.got + n,
                     room |-> Grown(source), eof |-> n < BUFSIZ, bad |-> bad]
  /\ Quiet("read")
  /\ UNCHANGED <<vars, driver, loaded, context, width, target, shader, sync>>

ShaderReadEnd ==
  /\ stage = "read" /\ (source.eof \/ Full(source))
  /\ source' = [source EXCEPT !.room = source.got + 1]
  /\ Quiet("compile")
  /\ UNCHANGED <<vars, driver, loaded, context, width, target, shader, sync>>

CompileCalls == {"glCreateShader", "glShaderSource", "glCompileShader", "glGetShaderiv",
                 "glIsShader", "glGetShaderInfoLog"}

Compiled ==
  /\ stage = "compile"
  /\ Calling(CompileCalls, IF shader = "vs" THEN "open" ELSE "link")
  /\ shader' = "fs" /\ source' = NoSource
  /\ UNCHANGED <<vars, driver, loaded, context, width, target, sync>>

NotCompiled ==
  /\ stage = "compile"
  /\ Calling(CompileCalls \cup {"glDeleteShader"}, "exited")
  /\ pc' = "closed" /\ source' = NoSource
  /\ UNCHANGED <<todo, view, data, gpu, fence, read, gpuVars, driver, loaded, context, width, target, shader, sync>>

LinkCalls == {"glCreateProgram", "glAttachShader", "glBindAttribLocation", "glLinkProgram",
              "glGetProgramiv"}

Linked ==
  /\ stage = "link"
  /\ Calling(LinkCalls \cup {"glGetUniformLocation"}, "loop")
  /\ UNCHANGED <<vars, setupVars, sync>>

NotLinked ==                     \* or without the uniform `exposure'
  /\ stage = "link"
  /\ Calling(LinkCalls \cup {"glIsShader", "glIsProgram", "glGetProgramInfoLog",
                             "glGetUniformLocation"}, "exited")
  /\ pc' = "closed"
  /\ UNCHANGED <<todo, view, data, gpu, fence, read, gpuVars, setupVars, sync>>

-----------------------------------------------------------------------------
(* ogl_squad_begin, ogl_squad_set_exposure and ogl_squad_end.              *)
QuadCalls == {"glUseProgram", "glUniform1f", "glBindVertexArray", "glEnableVertexAttribArray",
              "glBindBuffer", "glVertexAttribPointer", "glDrawArrays", "glDisableVertexAttribArray"}

(* What the steps of ogl_render_render_loop call.                          *)
LoopCalls ==
  CASE pc \in {"update", "wait"} -> IF sync THEN {"glClientWaitSync"} ELSE {}
    [] pc \in {"lock", "relock"} -> {"glFenceSync"} \cup IF sync THEN {"glDeleteSync"} ELSE {}
    [] pc = "bind" ->
         {"glViewport", "glClearColor", "glClear", "glActiveTexture", "glBindBuffer",
          "glBindTexture", "glTexSubImage2D"} \cup QuadCalls
    [] OTHER -> {}

WLoopStep ==
  /\ stage = "loop" /\ LoopStep
  /\ Calling(LoopCalls, "loop")
  /\ sync' = (sync \/ pc = "lock")
  /\ UNCHANGED setupVars

WUser ==                         \* keys and the close button
  /\ stage = "loop" /\ (PollKey \/ PollClose)
  /\ Quiet("loop") /\ UNCHANGED <<setupVars, sync>>

WGpuStep ==
  /\ stage = "loop" /\ GpuStep
  /\ call' = {} /\ UNCHANGED <<stage, setupVars, sync>>

FrameFails ==                    \* rsched_host_yield fails in render_update
  /\ stage = "loop" /\ pc = "draw"
  /\ Exit /\ UNCHANGED <<setupVars, sync>>

(* openglCallbackFunction, called by the driver inside any function, ends  *)
(* the program when a message's severity is high.                          *)
DebugAbort ==
  /\ DebugOutput /\ context = "current" /\ pc # "closed"
  /\ stage \in {"created", "target", "open", "link", "loop"}
  /\ Quiet("aborted") /\ pc' = "closed"
  /\ UNCHANGED <<todo, view, data, gpu, fence, read, gpuVars, setupVars, sync>>

DestroyWindow ==
  /\ stage = "loop" /\ pc = "closed"
  /\ context' = "destroyed"
  /\ Quiet("teardown")
  /\ UNCHANGED <<vars, driver, loaded, width, target, source, shader, sync>>

PboDestroy ==
  /\ stage = "teardown"
  /\ Calling({"glDeleteBuffers", "glDeleteTextures"}, "no buffer")
  /\ UNCHANGED <<vars, setupVars, sync>>

SquadDestroy ==
  /\ stage = "no buffer"
  /\ Calling({"glDeleteProgram", "glDeleteVertexArrays"}, "over")
  /\ UNCHANGED <<vars, setupVars, sync>>

Over == stage \in {"exited", "aborted", "crashed", "over"} /\ UNCHANGED wvars

Setup ==
  \/ GlfwFails \/ GlfwWindow \/ LoadGL \/ LoadFails \/ NoBufferStorage \/ CreateEnd
  \/ InitRenderTarget \/ InitScreen
  \/ ShaderMissing \/ ShaderOpen \/ ShaderRead \/ ShaderReadEnd \/ Compiled \/ NotCompiled
  \/ Linked \/ NotLinked

Teardown == DestroyWindow \/ PboDestroy \/ SquadDestroy

WNext ==
  \/ Setup \/ WLoopStep \/ WUser \/ WGpuStep \/ FrameFails \/ DebugAbort \/ Teardown \/ Over

WSpec == WInit /\ [][WNext]_wvars

(* As in RenderLoop.tla: the loop runs and the driver makes progress.      *)
WLiveSpec == WSpec /\ WF_wvars(WLoopStep) /\ WF_wvars(WGpuStep)

-----------------------------------------------------------------------------
(* A crash through a pointer that the loader left null happens with one    *)
(* kind of driver only, in a Debug build: the code looks for               *)
(* GL_ARB_debug_output and then calls functions of GL_KHR_debug.           *)
CallsLoaded ==
  stage = "crashed" =>
    /\ driver.build = "Debug"
    /\ "GL_ARB_debug_output" \in driver.exts /\ "GL_KHR_debug" \notin driver.exts

(* OpenGL is called while the context is current, from its creation to the *)
(* end of the loop; what ogl_render_destroy deletes it deletes without.    *)
CallsHaveContext ==
  call # {} => (context = "current" \/ stage \in {"no buffer", "over"})

(* The kernels draw a surface of width times Height into the pixel buffer: *)
(* it fits, and a pixel is uploaded to the texel of its own coordinates,   *)
(* exactly when no column was cut off.                                     *)
BufferFits ==
  stage = "loop" =>
    LET Fits == width * Height <= target * Height
        Straight == \A x \in 0 .. target - 1, y \in 0 .. Height - 1 : y * target + x = y * width + x
    IN (Fits /\ Straight) <=> width % PBO_SIZE_MULTIPLIER = 0

(* file_read_shader_source reads into memory it has, its terminator        *)
(* included, and cuts no file of up to SourceMax bytes.                    *)
ShaderWhole ==
  /\ stage = "read" => source.got <= source.room
  /\ stage = "compile" =>
       /\ source.got < source.room
       /\ ~source.bad /\ source.left > 0 => source.got > SourceMax
=============================================================================
