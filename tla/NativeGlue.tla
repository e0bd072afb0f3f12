----------------------------- MODULE NativeGlue -----------------------------
(***************************************************************************)
(* The Android glue and the application behind it.  Android calls the      *)
(* activity on its UI thread; the application has a thread of its own.     *)
(* nativeGlue.c turns every callback into a command: clear the word        *)
(* appDoneFutex, write the command into a pipe, and wait for the word to   *)
(* become 1.  The application (libopenGl.so.c) polls the pipe and its      *)
(* input queue, draws between events, and signals after each command.      *)
(*                                                                         *)
(* The command carries pointers into the UI thread's stack and handles     *)
(* Android frees as soon as the callback returns, so all depends on the    *)
(* callback not returning early, and on the application having let go.     *)
(***************************************************************************)
EXTENDS Integers, Sequences

CONSTANTS
  Windows, Queues,  \* the handles Android hands out
  None,             \* NULL
  HasFocus,         \* the argument of a focus change that gains the focus
  PipeCapacity,     \* commands the pipe holds (a packet each, O_DIRECT)
  MaxEvents         \* bound: events arriving on one input queue

ASSUME GlueAssumption ==
  /\ None \notin Windows \cup Queues
  /\ PipeCapacity \in Nat \ {0} /\ MaxEvents \in Nat

VARIABLES
  ui,            \* where the UI thread is
  cmd,           \* the command of the callback it is in
  requestPointerCapture,  \* the out argument on its stack
  captured,      \* pointer captures requested of the view: the last callback's
  stage,         \* the activity's life cycle, as Android sees it
  liveWindow, liveQueue,  \* the window and the input queue that exist
  appDoneFutex,
  pipe,          \* the commands written and not read
  app,           \* where the application thread is
  appCmd,        \* the command it has read
  window, inputQueue, running, egl,   \* struct app
  pipeReady, queueReady,  \* what the looper's last wait found and has not reported: the
                          \* pipe, and an attached input queue
  events,        \* events waiting on the input queue
  arrivals,      \* events still to arrive there
  aborted        \* "no", or why the process is gone

uiVars == <<ui, cmd, requestPointerCapture, captured, stage, liveWindow, liveQueue>>
appVars == <<app, appCmd, window, inputQueue, running, egl>>
looper == <<pipeReady, queueReady>>
vars == <<uiVars, appDoneFutex, pipe, appVars, looper, events, arrivals, aborted>>

Quiet == {"START", "RESUME", "SAVE_INSTANCE_STATE", "PAUSE", "NATIVE_WINDOW_REDRAW_NEEDED",
          "CONTENT_RECT_CHANGED", "CONFIGURATION_CHANGED", "LOW_MEMORY"}

Command(tag, arg) == [tag |-> tag, arg |-> arg]
NO_CMD == Command("NO_CMD", None)

Commands ==
  [tag : Quiet \cup {"STOP", "DESTROY"}, arg : {None}]
    \cup [tag : {"WINDOW_FOCUS_CHANGED"}, arg : {None, HasFocus}]
    \cup [tag : {"NATIVE_WINDOW_CREATED", "NATIVE_WINDOW_DESTROYED"}, arg : Windows]
    \cup [tag : {"INPUT_QUEUE_CREATED", "INPUT_QUEUE_DESTROYED"}, arg : Queues]

Init ==
  /\ ui = "gone" /\ cmd = NO_CMD /\ requestPointerCapture = FALSE /\ captured = FALSE
  /\ stage = "created" /\ liveWindow = None /\ liveQueue = None
  /\ appDoneFutex = 0 /\ pipe = <<>>
  /\ app = "none" /\ appCmd = NO_CMD
  /\ window = None /\ inputQueue = None /\ running = FALSE /\ egl = "none"
  /\ pipeReady = FALSE /\ queueReady = None
  /\ events = 0 /\ arrivals = 0
  /\ aborted = "no"

-----------------------------------------------------------------------------
(* The UI thread.                                                          *)

\* util_abort, or a crash: nothing runs any more.
Abort(why) ==
  /\ aborted' = why
  /\ UNCHANGED <<uiVars, appDoneFutex, pipe, appVars, looper, events, arrivals>>

\* ANativeActivity_onCreate, nativeGlue_init: make the pipe, start the thread.
Create ==
  /\ aborted = "no" /\ ui = "gone"
  /\ \/ /\ ui' = "idle" /\ app' = "init" /\ pipe' = <<>> /\ stage' = "created"
        /\ UNCHANGED <<cmd, requestPointerCapture, captured, liveWindow, liveQueue,
                       appDoneFutex, appCmd, window, inputQueue, running, egl, looper,
                       events, arrivals, aborted>>
     \/ Abort("fault")

\* External: when Android makes which callback.
Expected(c) ==
  CASE c.tag = "START" -> stage \in {"created", "stopped"}
    [] c.tag = "RESUME" -> stage \in {"started", "paused"}
    [] c.tag = "PAUSE" -> stage = "resumed"
    [] c.tag = "STOP" -> stage \in {"started", "paused"}
    [] c.tag = "SAVE_INSTANCE_STATE" -> stage \in {"paused", "stopped"}
    [] c.tag = "DESTROY" -> /\ stage \in {"created", "stopped"}
                            /\ liveWindow = None /\ liveQueue = None
    [] c.tag = "NATIVE_WINDOW_CREATED" -> liveWindow = None
    [] c.tag = "NATIVE_WINDOW_REDRAW_NEEDED" -> liveWindow # None
    [] c.tag = "NATIVE_WINDOW_DESTROYED" -> liveWindow = c.arg
    [] c.tag = "INPUT_QUEUE_CREATED" -> liveQueue = None
    [] c.tag = "INPUT_QUEUE_DESTROYED" -> liveQueue = c.arg
    [] OTHER -> TRUE

StageAfter(c) ==
  CASE c.tag = "START" -> "started"
    [] c.tag = "RESUME" -> "resumed"
    [] c.tag = "PAUSE" -> "paused"
    [] c.tag = "STOP" -> "stopped"
    [] OTHER -> stage

\* A callback that leaves the word as the last command set it: not in the code.
CallbackKeepsWord(c) ==
  /\ aborted = "no" /\ ui = "idle" /\ Expected(c)
  /\ cmd' = c
  /\ requestPointerCapture' = FALSE
  /\ stage' = StageAfter(c)
  /\ liveWindow' = IF c.tag = "NATIVE_WINDOW_CREATED" THEN c.arg ELSE liveWindow
  /\ liveQueue' = IF c.tag = "INPUT_QUEUE_CREATED" THEN c.arg ELSE liveQueue
  /\ arrivals' = IF c.tag = "INPUT_QUEUE_CREATED" THEN MaxEvents ELSE arrivals
  /\ ui' = "write"
  /\ UNCHANGED <<captured, appDoneFutex, pipe, appVars, looper, events, aborted>>

\* _nativeGlue_on...: fill in the command and clear the word.
Callback(c) ==
  /\ aborted = "no" /\ ui = "idle" /\ Expected(c)
  /\ cmd' = c
  /\ requestPointerCapture' = FALSE
  /\ stage' = StageAfter(c)
  /\ liveWindow' = IF c.tag = "NATIVE_WINDOW_CREATED" THEN c.arg ELSE liveWindow
  /\ liveQueue' = IF c.tag = "INPUT_QUEUE_CREATED" THEN c.arg ELSE liveQueue
  /\ arrivals' = IF c.tag = "INPUT_QUEUE_CREATED" THEN MaxEvents ELSE arrivals
  /\ appDoneFutex' = 0
  /\ ui' = "write"
  /\ UNCHANGED <<captured, pipe, appVars, looper, events, aborted>>

\* A full pipe would abort.
Write ==
  /\ aborted = "no" /\ ui = "write"
  /\ IF Len(pipe) < PipeCapacity
       THEN /\ pipe' = Append(pipe, cmd)
            /\ ui' = "check"
            /\ UNCHANGED <<cmd, requestPointerCapture, captured, stage, liveWindow,
                           liveQueue, appDoneFutex, appVars, looper, events, arrivals, aborted>>
       ELSE Abort("pipe")

\* _nativeGlue_waitAppDone: look at the word, sleep if it is still 0.
Check ==
  /\ aborted = "no" /\ ui = "check"
  /\ ui' = IF appDoneFutex = 1 THEN "return" ELSE "wait"
  /\ UNCHANGED <<cmd, requestPointerCapture, captured, stage, liveWindow, liveQueue,
                 appDoneFutex, pipe, appVars, looper, events, arrivals, aborted>>

FutexWait ==
  /\ aborted = "no" /\ ui = "wait"
  /\ ui' = IF appDoneFutex = 0 THEN "asleep" ELSE "check"
  /\ UNCHANGED <<cmd, requestPointerCapture, captured, stage, liveWindow, liveQueue,
                 appDoneFutex, pipe, appVars, looper, events, arrivals, aborted>>

\* The callback returns: Android frees what it took back, and a focused view
\* asks for the pointer, through calls into Java that abort when they fail.
\* After DESTROY the glue goes on to close the pipe.
Return ==
  /\ aborted = "no" /\ ui = "return"
  /\ captured' = IF cmd.tag = "WINDOW_FOCUS_CHANGED" THEN requestPointerCapture ELSE captured
  /\ liveWindow' = IF cmd.tag = "NATIVE_WINDOW_DESTROYED" THEN None ELSE liveWindow
  /\ liveQueue' = IF cmd.tag = "INPUT_QUEUE_DESTROYED" THEN None ELSE liveQueue
  /\ events' = IF cmd.tag = "INPUT_QUEUE_DESTROYED" THEN 0 ELSE events
  /\ arrivals' = IF cmd.tag = "INPUT_QUEUE_DESTROYED" THEN 0 ELSE arrivals
  /\ ui' = IF cmd.tag = "DESTROY" THEN "close" ELSE "idle"
  /\ cmd' = NO_CMD
  /\ UNCHANGED <<requestPointerCapture, stage, appDoneFutex, pipe, appVars, looper, aborted>>

CaptureFails ==
  /\ aborted = "no" /\ ui = "return"
  /\ cmd.tag = "WINDOW_FOCUS_CHANGED" /\ requestPointerCapture
  /\ Abort("fault")

\* _nativeGlue_onDestroy: close both ends, then join the thread.
Close ==
  /\ aborted = "no" /\ ui = "close"
  /\ pipe' = <<>>
  /\ ui' = "join"
  /\ UNCHANGED <<cmd, requestPointerCapture, captured, stage, liveWindow, liveQueue,
                 appDoneFutex, appVars, looper, events, arrivals, aborted>>

Join ==
  /\ aborted = "no" /\ ui = "join" /\ app = "exited"
  /\ ui' = "gone" /\ app' = "none"
  /\ UNCHANGED <<cmd, requestPointerCapture, captured, stage, liveWindow, liveQueue,
                 appDoneFutex, pipe, appCmd, window, inputQueue, running, egl, looper,
                 events, arrivals, aborted>>

\* External: an event arrives on a live queue.
Arrive ==
  /\ aborted = "no" /\ liveQueue # None /\ arrivals > 0
  /\ events' = events + 1 /\ arrivals' = arrivals - 1
  /\ UNCHANGED <<uiVars, appDoneFutex, pipe, appVars, looper, aborted>>

-----------------------------------------------------------------------------
(* The application thread.                                                 *)

ElseStays == UNCHANGED <<uiVars, appDoneFutex, pipe, events, arrivals, aborted>>
AppStays == ElseStays /\ UNCHANGED looper

\* _nativeGlue_appThread to app_init: a looper, reset struct app, load EGL.
AppInit ==
  /\ aborted = "no" /\ app = "init"
  /\ \/ /\ window' = None /\ inputQueue' = None /\ running' = FALSE /\ egl' = "library"
        /\ pipeReady' = FALSE /\ queueReady' = None
        /\ app' = "poll"
        /\ UNCHANGED appCmd
        /\ ElseStays
     \/ Abort("fault")

\* What a wait of the looper would find: the pipe, and the queue that is attached.
QueueFound == IF events > 0 THEN inputQueue ELSE None

\* ALooper_pollAll with nothing left to report waits, and finds everything that is ready.
\* External: the looper reports what it found one call after the other, in any order,
\* before it waits again, and what was detached meanwhile is reported too.
Poll ==
  /\ aborted = "no" /\ app = "poll" /\ ~pipeReady /\ queueReady = None
  /\ \/ /\ pipe # <<>> \/ QueueFound # None
        /\ pipeReady' = (pipe # <<>>) /\ queueReady' = QueueFound
        /\ UNCHANGED appVars /\ ElseStays
     \/ Abort("fault")

\* The pipe is reported; the command is read at once, or the thread fails.
ReadCommand ==
  /\ aborted = "no" /\ app = "poll" /\ pipeReady
  /\ \/ /\ appCmd' = Head(pipe) /\ pipe' = Tail(pipe)
        /\ pipeReady' = FALSE
        /\ app' = "handle"
        /\ UNCHANGED <<uiVars, appDoneFutex, window, inputQueue, running, egl, queueReady,
                       events, arrivals, aborted>>
     \/ Abort("fault")

Handling(tags) == aborted = "no" /\ app = "handle" /\ appCmd.tag \in tags

\* The commands the application takes note of by answering.
HandleQuiet ==
  /\ Handling(Quiet)
  /\ app' = "signal"
  /\ UNCHANGED <<appCmd, window, inputQueue, running, egl>> /\ AppStays

\* The focus: the answer goes through the pointer into the UI thread's stack.
HandleFocus ==
  /\ Handling({"WINDOW_FOCUS_CHANGED"})
  /\ requestPointerCapture' = IF appCmd.arg = HasFocus THEN TRUE ELSE requestPointerCapture
  /\ app' = "signal"
  /\ UNCHANGED <<ui, cmd, captured, stage, liveWindow, liveQueue, appDoneFutex, pipe,
                 appCmd, window, inputQueue, running, egl, looper, events, arrivals,
                 aborted>>

\* A new window: app_initEgl and game_init, or the process aborts.
HandleWindowCreated ==
  /\ Handling({"NATIVE_WINDOW_CREATED"})
  /\ \/ /\ window' = appCmd.arg /\ egl' = "surface" /\ running' = TRUE
        /\ app' = "signal"
        /\ UNCHANGED <<appCmd, inputQueue>> /\ AppStays
     \/ Abort("fault")

\* A stop that keeps the game running: not in the code.
HandleStopKeepsRunning ==
  /\ Handling({"STOP", "NATIVE_WINDOW_DESTROYED"})
  /\ IF appCmd.tag = "NATIVE_WINDOW_DESTROYED"
       THEN egl' = "library" /\ window' = None
       ELSE UNCHANGED <<egl, window>>
  /\ app' = "signal"
  /\ UNCHANGED <<appCmd, inputQueue, running>> /\ AppStays

\* STOP ends the game; the end of the window also gives back EGL's context.
HandleStop ==
  /\ Handling({"STOP", "NATIVE_WINDOW_DESTROYED"})
  /\ running' = FALSE
  /\ IF appCmd.tag = "NATIVE_WINDOW_DESTROYED"
       THEN egl' = "library" /\ window' = None
       ELSE UNCHANGED <<egl, window>>
  /\ app' = "signal"
  /\ UNCHANGED <<appCmd, inputQueue>> /\ AppStays

HandleQueue ==
  /\ Handling({"INPUT_QUEUE_CREATED", "INPUT_QUEUE_DESTROYED"})
  /\ inputQueue' = IF appCmd.tag = "INPUT_QUEUE_CREATED" THEN appCmd.arg ELSE None
  /\ app' = "signal"
  /\ UNCHANGED <<appCmd, window, running, egl>> /\ AppStays

\* DESTROY: unload EGL, return 0, take the pipe off the looper.
HandleDestroy ==
  /\ Handling({"DESTROY"})
  /\ egl' = "none"
  /\ app' = "lastSignal"
  /\ UNCHANGED <<appCmd, window, inputQueue, running>> /\ AppStays

Handle ==
  \/ HandleQuiet \/ HandleFocus \/ HandleWindowCreated \/ HandleStop \/ HandleQueue
  \/ HandleDestroy

\* nativeGlue_signalAppDone: store 1, then wake the UI thread if it sleeps.
SignalStore ==
  /\ aborted = "no" /\ app \in {"signal", "lastSignal"}
  /\ appDoneFutex' = 1
  /\ appCmd' = NO_CMD
  /\ app' = IF app = "signal" THEN "wake" ELSE "lastWake"
  /\ UNCHANGED <<uiVars, pipe, window, inputQueue, running, egl, looper, events, arrivals,
                 aborted>>

SignalWake ==
  /\ aborted = "no" /\ app \in {"wake", "lastWake"}
  /\ ui' = IF ui = "asleep" THEN "check" ELSE ui
  /\ app' = IF app = "wake" THEN "poll" ELSE "exited"
  /\ UNCHANGED <<cmd, requestPointerCapture, captured, stage, liveWindow, liveQueue,
                 appDoneFutex, pipe, appCmd, window, inputQueue, running, egl, looper,
                 events, arrivals, aborted>>

\* A signal that wakes first and stores afterwards: not in the code.
SignalWakeFirst ==
  \/ /\ aborted = "no" /\ app \in {"signal", "lastSignal"}
     /\ ui' = IF ui = "asleep" THEN "check" ELSE ui
     /\ app' = IF app = "signal" THEN "wake" ELSE "lastWake"
     /\ UNCHANGED <<cmd, requestPointerCapture, captured, stage, liveWindow, liveQueue,
                    appDoneFutex, pipe, appCmd, window, inputQueue, running, egl, looper,
                    events, arrivals, aborted>>
  \/ /\ aborted = "no" /\ app \in {"wake", "lastWake"}
     /\ appDoneFutex' = 1
     /\ appCmd' = NO_CMD
     /\ app' = IF app = "wake" THEN "poll" ELSE "exited"
     /\ UNCHANGED <<uiVars, pipe, window, inputQueue, running, egl, looper, events, arrivals,
                    aborted>>

nativeGlue_signalAppDone == SignalStore \/ SignalWake

\* The input queue is reported: take events until none is left.  Nothing looks at
\* app.inputQueue first, and AInputQueue_getEvent of NULL crashes.
PollInput ==
  /\ aborted = "no" /\ app = "poll" /\ queueReady # None
  /\ IF inputQueue # None
       THEN /\ app' = "input" /\ queueReady' = None
            /\ UNCHANGED <<appCmd, window, inputQueue, running, egl, pipeReady>> /\ ElseStays
       ELSE Abort("null")

InputEvent ==
  /\ aborted = "no" /\ app = "input"
  /\ IF events > 0 THEN events' = events - 1 /\ UNCHANGED app
                   ELSE app' = "poll" /\ UNCHANGED events
  /\ UNCHANGED <<uiVars, appDoneFutex, pipe, appCmd, window, inputQueue, running, egl,
                 looper, arrivals, aborted>>

\* Nothing to report while the game runs: the wait times out and a frame is
\* drawn, on the window's surface.
PollTimeout ==
  /\ aborted = "no" /\ app = "poll" /\ running /\ ~pipeReady /\ queueReady = None
  /\ pipe = <<>> /\ QueueFound = None
  /\ app' = "draw"
  /\ UNCHANGED <<appCmd, window, inputQueue, running, egl>> /\ AppStays

Draw ==
  /\ aborted = "no" /\ app = "draw"
  /\ app' = "poll"
  /\ UNCHANGED <<appCmd, window, inputQueue, running, egl>> /\ AppStays

-----------------------------------------------------------------------------
UiThread == Write \/ Check \/ FutexWait \/ Return \/ CaptureFails \/ Close \/ Join
AppThread ==
  \/ AppInit \/ Poll \/ ReadCommand \/ Handle \/ nativeGlue_signalAppDone
  \/ PollInput \/ InputEvent \/ PollTimeout \/ Draw

\* An aborted process does nothing more.
Gone == aborted # "no" /\ UNCHANGED vars

Next ==
  \/ Create \/ (\E c \in Commands : Callback(c)) \/ UiThread
  \/ Arrive \/ AppThread \/ Gone

Spec == Init /\ [][Next]_vars

\* Both threads run.
GlueFairness == WF_vars(UiThread) /\ WF_vars(AppThread)

-----------------------------------------------------------------------------
(* Properties.                                                             *)

TypeOK ==
  /\ ui \in {"gone", "idle", "write", "check", "wait", "asleep", "return", "close", "join"}
  /\ cmd \in Commands \cup {NO_CMD} /\ appCmd \in Commands \cup {NO_CMD}
  /\ requestPointerCapture \in BOOLEAN /\ captured \in BOOLEAN
  /\ stage \in {"created", "started", "resumed", "paused", "stopped"}
  /\ liveWindow \in Windows \cup {None} /\ liveQueue \in Queues \cup {None}
  /\ appDoneFutex \in {0, 1}
  /\ pipe \in Seq(Commands)
  /\ app \in {"none", "init", "poll", "handle", "signal", "wake", "input", "draw",
              "lastSignal", "lastWake", "exited"}
  /\ window \in Windows \cup {None} /\ inputQueue \in Queues \cup {None}
  /\ running \in BOOLEAN /\ egl \in {"none", "library", "surface"}
  /\ pipeReady \in BOOLEAN /\ queueReady \in Queues \cup {None}
  /\ events \in Nat /\ arrivals \in Nat
  /\ aborted \in {"no", "fault", "pipe", "null"}

(***************************************************************************)
(* The application never uses what Android has freed: while it draws its   *)
(* window is the live one and has a surface, while it takes events its     *)
(* queue is the live one, and when no thread is left it holds nothing.     *)
(* The debug_ASSERTs on app.window and app.inputQueue hold too, and no     *)
(* command ever finds the pipe full, which would abort the process.        *)
(*                                                                         *)
(* What it may use is NULL: the looper finds events on the queue together  *)
(* with the command that ends it, and reports the command first.  That is  *)
(* the only way: a report is of the queue the application holds or of the  *)
(* one it just gave up, never of an earlier one, and no further command is *)
(* read in between.                                                        *)
(***************************************************************************)
HandlesAlive ==
  /\ app = "draw" => window # None /\ window = liveWindow /\ egl = "surface"
  /\ app = "input" => inputQueue # None /\ inputQueue = liveQueue
  /\ app = "handle" =>
       /\ appCmd.tag = "NATIVE_WINDOW_CREATED" => window = None
       /\ appCmd.tag = "NATIVE_WINDOW_DESTROYED" => window = liveWindow /\ window # None
       /\ appCmd.tag = "INPUT_QUEUE_CREATED" => inputQueue = None
       /\ appCmd.tag = "INPUT_QUEUE_DESTROYED" => inputQueue = appCmd.arg
       /\ appCmd.tag = "WINDOW_FOCUS_CHANGED" => cmd = appCmd
  /\ app \in {"none", "exited"} => window = None /\ inputQueue = None /\ egl = "none"
  /\ queueReady # None =>
       /\ inputQueue \in {queueReady, None}
       /\ inputQueue = None => ~pipeReady /\ app \in {"signal", "wake", "poll"}
  /\ aborted = "null" => queueReady # None /\ inputQueue = None
  /\ aborted # "pipe"

\* The application is done with the command and has let go of the pipe.
Answered == cmd # NO_CMD /\ ui # "write" /\ pipe = <<>> /\ app # "handle"

Calls == INSTANCE ActivityCalls WITH call <- cmd, answered <- Answered

(***************************************************************************)
(* A callback is a synchronous call: seen from Android, the command is     *)
(* carried out exactly once and before the callback returns, though a wake *)
(* up of the command before may arrive in the middle of it.                *)
(***************************************************************************)
CallsAreSynchronous == Calls!Spec

(***************************************************************************)
(* No callback hangs: neither a lost wake up nor a drawing or event loop   *)
(* that never looks at the pipe keeps the UI thread waiting.  The loop     *)
(* that takes events ends when the queue is empty, so this is for a queue  *)
(* on which no more than MaxEvents arrive.                                 *)
(***************************************************************************)
CallbacksReturn == (cmd # NO_CMD) ~> (cmd = NO_CMD \/ aborted # "no")
=============================================================================
