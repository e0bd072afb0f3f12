------------------------------ MODULE Window ------------------------------
(***************************************************************************)
(* window_start (src/hc/examples/openGl/ix/window.c): load EGL, try X11,   *)
(* fall back to the bare display, create the surface, load GL, start the   *)
(* game, run, and on a failure undo all of it through the cleanup labels.  *)
(* When the game ends by itself the process exits and the kernel cleans    *)
(* up.  game_init is here too: shaders, vertex arrays and buffers.         *)
(***************************************************************************)
EXTENDS X11Window, GbmWindow

VARIABLE platform

vars == <<eglVars, x11Vars, gbmVars, platform>>

Init ==
  /\ pc = "start" /\ held = {} /\ badRelease = FALSE
  /\ X11Init /\ GbmInit
  /\ platform = "none"

\* The steps below change nothing of either platform.
Plain == UNCHANGED <<x11Vars, gbmVars>>

vertexArrays_deinit == <<"buffers", "arrays">>
shaders_deinit == <<"shaders">>
game_deinit == vertexArrays_deinit \o shaders_deinit

\* Every function of GL is found, or the window gives up.
gl_init(next, failed) == Attempt("gl", {}, next, <<>>, failed)

\* The program is compiled and linked, or deleted.
shaders_init(next, failed) == Attempt("game_shaders", {"shaders"}, next, <<>>, failed)

\* The arrays, the buffers, and what is put into them, each followed by a look at GL's
\* error; undone is what the caller does for a failure.
vertexArrays_init(next, undone, failed) ==
  \/ Attempt("game_arrays", {"arrays"}, "game_buffers", undone, failed)
  \/ Attempt("game_buffers", {"buffers"}, "game_vertices", <<"arrays">> \o undone, failed)
  \/ Attempt("game_vertices", {}, next, vertexArrays_deinit \o undone, failed)

\* game_init: the shaders, the arrays, and no GL error in the end.
game_init(next, failed) ==
  \/ shaders_init("game_arrays", failed)
  \/ vertexArrays_init("game_check", shaders_deinit, failed)
  \/ Attempt("game_check", {}, next, game_deinit, failed)

\* Labels with the platform before the surface: not in the code.
CleanupPlatformFirst ==
  \/ GivesBack("cleanup_game", game_deinit, "cleanup_eglSurface")
  \/ GivesBack("cleanup_eglSurface",
               IF platform = "X11" THEN window_x11_deinit ELSE window_gbm_deinit,
               "cleanup_platform")
  \/ GivesBack("cleanup_platform", egl_destroySurface, "cleanup_egl")
  \/ GivesBack("cleanup_egl", egl_deinit, "failed")

\* The labels, in the order they fall through.
Cleanup ==
  \/ GivesBack("cleanup_game", game_deinit, "cleanup_eglSurface")
  \/ GivesBack("cleanup_eglSurface", egl_destroySurface, "cleanup_platform")
  \/ GivesBack("cleanup_platform",
               IF platform = "X11" THEN window_x11_deinit ELSE window_gbm_deinit,
               "cleanup_egl")
  \/ GivesBack("cleanup_egl", egl_deinit, "failed")

\* The platform whose init returned 0 is the one that counts from then on.
SurfaceStep ==
  /\ egl_createSurface("surface", "gl", "cleanup_platform")
  /\ platform' = IF "card" \in held THEN "GBM" ELSE "X11"
  /\ Plain

Started ==
  /\ Gets("run", {}, IF platform = "X11" THEN "x11_run" ELSE "gbm_run")
  /\ Plain /\ UNCHANGED platform

window_start ==
  \/ egl_init("start", "x11_display", "failed") /\ Plain /\ UNCHANGED platform
  \/ window_x11_init /\ UNCHANGED <<gbmVars, platform>>
  \/ window_gbm_init /\ UNCHANGED <<x11Vars, platform>>
  \/ SurfaceStep
  \/ gl_init("game_shaders", "cleanup_eglSurface") /\ Plain /\ UNCHANGED platform
  \/ game_init("run", "cleanup_eglSurface") /\ Plain /\ UNCHANGED platform
  \/ Started
  \/ window_x11_run /\ UNCHANGED <<gbmVars, platform>>
  \/ window_gbm_run /\ UNCHANGED <<x11Vars, platform>>
  \/ Cleanup /\ Plain /\ UNCHANGED platform

Server == (ServerStep \/ Input) /\ UNCHANGED <<gbmVars, platform>>

Ended == pc \in {"done", "failed"} /\ UNCHANGED vars

Next == window_start \/ Server \/ Ended

Spec == Init /\ [][Next]_vars

(***************************************************************************)
(* A start that fails, wherever it fails, gives everything back, each      *)
(* thing once and before what it depends on; only the keyboard map of an   *)
(* X11 set up that broke off after the tenth reply stays mapped: the       *)
(* labels of window_x11_init do not know of it (window_x11.c:205, :311).   *)
(***************************************************************************)
OnlyKeyboardMapLost ==
  /\ ~badRelease
  /\ pc = "failed" => held \subseteq {"keyboardMap"}
  /\ pc = "failed" /\ held # {} => platform # "X11" /\ nextSequenceNumber >= KEYBOARD
=============================================================================
