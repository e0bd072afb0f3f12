----------------------------- MODULE GbmWindow -----------------------------
(***************************************************************************)
(* The window on the bare display: drm.c, gbm.c and window_gbm.c.  Without *)
(* an X server the program opens the graphics card, picks the connector's  *)
(* best mode, renders into the buffer objects of a GBM surface and shows   *)
(* them with page flips.  A buffer is locked while the program needs it;   *)
(* the driver renders into buffers that are not locked, and the display    *)
(* controller reads the one scanned out until the flip has completed.      *)
(***************************************************************************)
EXTENDS Egl

CONSTANT ModeLists   \* the lists of modes a connector may offer

\* drm_init passes over a connector without modes.
ASSUME ModesAssumption == ModeLists \subseteq Seq([w : Nat, h : Nat, hz : Nat]) \ {<<>>}

VARIABLES
  modes, drmModeIndex,
  front,             \* rendered and not yet locked
  locked,            \* the buffer objects the program holds
  bo, nextBo,
  scanout, flipping, \* what is shown, what is about to be
  flipEvent          \* a completed flip that was not read yet

gbmVars == <<modes, drmModeIndex, front, locked, bo, nextBo, scanout, flipping, flipEvent>>

NoBo == "none"
Bos == {"bo1", "bo2", "bo3"}
FrameBuffer(b) == CASE b = "bo1" -> "fb1" [] b = "bo2" -> "fb2" [] b = "bo3" -> "fb3"
FrameBuffers == {FrameBuffer(b) : b \in Bos}

GbmInit ==
  /\ modes = <<>> /\ drmModeIndex = 0
  /\ front = NoBo /\ locked = {} /\ bo = NoBo /\ nextBo = NoBo
  /\ scanout = NoBo /\ flipping = NoBo /\ flipEvent = FALSE

-----------------------------------------------------------------------------
(* drm.c and gbm.c                                                         *)

\* The scan of drm_bestModeIndex over modes of [w, h, hz].
BetterMode(m, best) ==
  \/ m.w > best.w
  \/ m.w = best.w /\ m.h > best.h
  \/ m.w = best.w /\ m.h = best.h /\ m.hz > best.hz

drm_bestModeIndex(list) ==
  LET scan[k \in 0 .. Len(list)] ==
        IF k = 0 THEN [at |-> 1, mode |-> [w |-> 0, h |-> 0, hz |-> 0]]
        ELSE IF BetterMode(list[k], scan[k - 1].mode) THEN [at |-> k, mode |-> list[k]]
        ELSE scan[k - 1]
  IN scan[Len(list)].at

drm_deinit == <<"card">>
gbm_deinit == <<"gbmDevice", "gbmLibrary">>

\* Open the card, ask for its connectors and a connected one's modes.
drm_init(next, failed) ==
  \/ Attempt("gbm_card", {"card"}, "gbm_connector", <<>>, failed) /\ UNCHANGED gbmVars
  \/ GivesBack("gbm_connector", drm_deinit, failed) /\ UNCHANGED gbmVars
  \/ /\ Gets("gbm_connector", {}, next)
     /\ modes' \in ModeLists
     /\ drmModeIndex' = drm_bestModeIndex(modes')
     /\ UNCHANGED <<front, locked, bo, nextBo, scanout, flipping, flipEvent>>

gbm_init(next, failed) ==
  /\ \/ Attempt("gbm_library", {"gbmLibrary"}, "gbm_device", drm_deinit, failed)
     \/ Attempt("gbm_device", {"gbmDevice"}, next, <<"gbmLibrary">> \o drm_deinit, failed)
  /\ UNCHANGED gbmVars

\* Destroying the surface destroys its buffer objects, and each of those its
\* frame buffer on the card (window_gbm_destroyFb).
gbm_surfaceDestroy ==
  LET Made(fb) == IF fb \in held THEN <<fb>> ELSE <<>>
  IN Made("fb1") \o Made("fb2") \o Made("fb3") \o <<"gbmSurface">>

window_gbm_init ==
  \/ drm_init("gbm_library", "cleanup_egl")
  \/ gbm_init("gbm_display", "cleanup_egl")
  \/ /\ egl_createContext("gbm_display", "gbm_context", "gbm_surface",
                          gbm_deinit \o drm_deinit, "cleanup_egl")
     /\ UNCHANGED gbmVars
  \/ /\ Attempt("gbm_surface", {"gbmSurface"}, "surface",
                egl_destroyContext \o gbm_deinit \o drm_deinit, "cleanup_egl")
     /\ UNCHANGED gbmVars

window_gbm_deinit == gbm_surfaceDestroy \o egl_destroyContext \o gbm_deinit \o drm_deinit

-----------------------------------------------------------------------------
(* window_gbm_run                                                          *)

GbmFails(here) == GivesBack(here, <<>>, "cleanup_game") /\ UNCHANGED gbmVars

\* egl_swapBuffers: what was rendered, into a buffer that is not locked,
\* becomes the front buffer.  A failing swap stops the first frame only.
Swap(here, next) ==
  /\ Gets(here, {}, next)
  /\ front' \in Bos \ locked
  /\ UNCHANGED <<modes, drmModeIndex, locked, bo, nextBo, scanout, flipping, flipEvent>>

\* gbm_surfaceLockFrontBuffer.
LockFirst ==
  /\ Gets("gbm_lockFirst", {}, "gbm_fbFirst")
  /\ bo' = front /\ locked' = locked \cup {front} /\ front' = NoBo
  /\ UNCHANGED <<modes, drmModeIndex, nextBo, scanout, flipping, flipEvent>>

LockNext ==
  /\ Gets("gbm_lock", {}, "gbm_fb")
  /\ nextBo' = front /\ locked' = locked \cup {front} /\ front' = NoBo
  /\ UNCHANGED <<modes, drmModeIndex, bo, scanout, flipping, flipEvent>>

\* window_gbm_getFbId: the frame buffer of a buffer object is made once.
getFbId(here, b, next) == Gets(here, {FrameBuffer(b)}, next) /\ UNCHANGED gbmVars

setCrtc ==
  /\ Gets("gbm_crtc", {}, "gbm_draw")
  /\ scanout' = bo
  /\ UNCHANGED <<modes, drmModeIndex, front, locked, bo, nextBo, flipping, flipEvent>>

drm_pageFlip ==
  /\ Gets("gbm_flip", {}, "gbm_await")
  /\ flipping' = nextBo
  /\ UNCHANGED <<modes, drmModeIndex, front, locked, bo, nextBo, scanout, flipEvent>>

\* External: the controller shows the next buffer.
FlipDone ==
  /\ flipping # NoBo
  /\ scanout' = flipping /\ flipping' = NoBo /\ flipEvent' = TRUE
  /\ UNCHANGED <<modes, drmModeIndex, front, locked, bo, nextBo, eglVars>>

\* Giving the old buffer back before its flip is done: not in the code.
awaitPageFlipEventLater ==
  /\ Gets("gbm_await", {}, "gbm_release")
  /\ flipEvent' = FALSE
  /\ UNCHANGED <<modes, drmModeIndex, front, locked, bo, nextBo, scanout, flipping>>

\* Reads events until a completed flip is among them.
drm_awaitPageFlipEvent ==
  /\ Gets("gbm_await", {}, "gbm_release")
  /\ flipEvent /\ flipEvent' = FALSE
  /\ UNCHANGED <<modes, drmModeIndex, front, locked, bo, nextBo, scanout, flipping>>

ReleaseBuffer ==
  /\ Gets("gbm_release", {}, "gbm_draw")
  /\ locked' = locked \ {bo} /\ bo' = nextBo /\ nextBo' = NoBo
  /\ UNCHANGED <<modes, drmModeIndex, front, scanout, flipping, flipEvent>>

window_gbm_run ==
  \/ Swap("gbm_run", "gbm_lockFirst") \/ LockFirst
  \/ getFbId("gbm_fbFirst", bo, "gbm_crtc") \/ setCrtc
  \/ Swap("gbm_draw", "gbm_lock") \/ LockNext
  \/ getFbId("gbm_fb", nextBo, "gbm_flip")
  \/ drm_pageFlip \/ FlipDone \/ drm_awaitPageFlipEvent \/ ReleaseBuffer
  \/ \E here \in {"gbm_run", "gbm_lockFirst", "gbm_fbFirst", "gbm_crtc", "gbm_lock", "gbm_fb",
                  "gbm_flip", "gbm_await"} : GbmFails(here)

-----------------------------------------------------------------------------
(* Properties.                                                             *)

(***************************************************************************)
(* What is on the screen, and what a flip is about to put there, is locked *)
(* and has its frame buffer: the driver never renders into it, and there   *)
(* is always a buffer left to render into.  The mode is the widest, then   *)
(* the highest, then the fastest, and the first of those.                  *)
(***************************************************************************)
ScanoutLocked ==
  pc \in {"gbm_draw", "gbm_lock", "gbm_fb", "gbm_flip", "gbm_await", "gbm_release"} =>
    /\ {scanout, flipping} \ {NoBo} \subseteq locked
    /\ FrameBuffer(scanout) \in held
    /\ front \notin {scanout, flipping} \ {NoBo}
    /\ pc = "gbm_draw" => Bos \ locked # {}
    /\ LET best == modes[drmModeIndex]
           AtLeast(m) == \/ best.w > m.w
                         \/ best.w = m.w /\ best.h > m.h
                         \/ best.w = m.w /\ best.h = m.h /\ best.hz >= m.hz
       IN /\ \A k \in DOMAIN modes : AtLeast(modes[k])
          /\ \A k \in 1 .. drmModeIndex - 1 : modes[k] # best
=============================================================================
