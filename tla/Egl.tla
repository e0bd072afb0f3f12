-------------------------------- MODULE Egl --------------------------------
(***************************************************************************)
(* The start of a window (src/hc/examples/openGl/ix) is one long chain of  *)
(* acquisitions with goto labels that undo them.  This module holds what   *)
(* the platforms share: where the program is, what it holds, what depends  *)
(* on what, and the EGL binding (src/hc/core/hc/ix/egl.c).                 *)
(***************************************************************************)
EXTENDS Integers, Sequences

VARIABLES
  pc,          \* the call or label the program is at
  held,        \* the resources acquired and not given back
  badRelease   \* something was given back that was not held, or still in use

eglVars == <<pc, held, badRelease>>

\* What must be there for as long as the resource is: the GL objects live in
\* the current context and surface, the surface on its native window, ...
Needs(r) ==
  CASE r = "display" -> {"eglLibrary"}
    [] r = "context" -> {"display"}
    [] r = "surface" -> {"context", "display"}
    [] r \in {"shaders", "arrays", "buffers"} -> {"context", "surface"}
    [] r = "gbmDevice" -> {"gbmLibrary", "card"}
    [] r = "gbmSurface" -> {"gbmDevice"}
    [] r \in {"fb1", "fb2", "fb3"} -> {"card", "gbmSurface"}
    [] OTHER -> {}

\* An EGL display on a GBM device needs it, a surface its native window.
NativeNeeds(r, holding) ==
  CASE r = "display" -> {"gbmDevice"} \cap holding
    [] r = "surface" -> {"gbmSurface", "socket"} \cap holding
    [] OTHER -> {}

InUse(r, holding) == \E s \in holding : r \in Needs(s) \cup NativeNeeds(s, holding)

\* Giving back one after the other, in the order of the code, when holding is held: one of
\* them is not there any more, or something that needs it is.
Listed(resources) == {resources[i] : i \in DOMAIN resources}
Misplaced(resources, holding) ==
  \E i \in DOMAIN resources :
    LET left == holding \ {resources[j] : j \in 1 .. i - 1}
    IN resources[i] \notin left \/ InUse(resources[i], left)

\* A call that succeeds, with what it acquired.
Gets(here, resources, next) ==
  /\ pc = here /\ pc' = next
  /\ held' = held \cup resources
  /\ UNCHANGED badRelease

\* A call that fails, or a label: give back and go on elsewhere.
GivesBack(here, resources, next) ==
  /\ pc = here /\ pc' = next
  /\ held' = held \ Listed(resources)
  /\ badRelease' = (badRelease \/ Misplaced(resources, held))

\* A call that acquires `resources`, or fails and undoes `undone`.
Attempt(here, resources, next, undone, failed) ==
  Gets(here, resources, next) \/ GivesBack(here, undone, failed)

\* The library: dlopen, then every symbol, or dlclose.
egl_init(here, next, failed) == Attempt(here, {"eglLibrary"}, next, <<>>, failed)
egl_deinit == <<"eglLibrary">>

\* The display is initialised first; a failure after that terminates it.
egl_createContext(display, context, next, undone, failed) ==
  \/ Attempt(display, {"display"}, context, undone, failed)
  \/ Attempt(context, {"context"}, next, <<"display">> \o undone, failed)
egl_destroyContext == <<"context", "display">>

\* The surface and the context are made current, or the surface is destroyed.  What is
\* current is let go by the eglMakeCurrent without a surface that egl_destroyContext starts
\* with, before it destroys the context: a surface that is destroyed while it is current
\* stays with the library until then, which is not modelled.
egl_createSurface(here, next, failed) == Attempt(here, {"surface"}, next, <<>>, failed)
egl_destroySurface == <<"surface">>
=============================================================================
