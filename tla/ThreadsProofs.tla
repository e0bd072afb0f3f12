---------------------------- MODULE ThreadsProofs ----------------------------
(***************************************************************************)
(* What the two programs whose threads meet in a futex promise.            *)
(*                                                                         *)
(* The Android glue implements synchronous calls, and the application      *)
(* never touches a freed window or queue, for any set of handles.  The     *)
(* inductive invariant says where a command can be: on its way into the    *)
(* pipe, in it, or in the application's hands, and in each case the word   *)
(* is 0 and the UI thread has not left the callback.  Once the word is 1   *)
(* the command is nowhere.  From that follows what the application holds   *)
(* compared with what exists.                                              *)
(*                                                                         *)
(* The counter of FutexLock is exact for every number of iterations.  The  *)
(* argument: the threads inside the lock are at most one, so a value that  *)
(* was loaded is still the counter's when it is stored, so the counter is  *)
(* the sum of the three loop variables; and a child whose word is cleared, *)
(* like a parent that joins, has its loop behind it.                       *)
(***************************************************************************)
EXTENDS NativeGlue, FutexLock, TLAPS

InCall == {"write", "check", "wait", "asleep", "return"}
Waiting == {"check", "wait", "asleep"}
Busy == {"handle", "signal", "lastSignal"}

\* One command at a time, in one place.
Phases ==
  /\ cmd = NO_CMD <=> ui \notin InCall
  /\ ui = "write" => pipe = <<>> /\ appDoneFutex = 0
  /\ app \in Busy => appCmd = cmd /\ ui \in Waiting /\ appDoneFutex = 0 /\ pipe = <<>>
  /\ app \notin Busy => appCmd = NO_CMD
  /\ pipe # <<>> => pipe = <<cmd>> /\ ui \in Waiting /\ appDoneFutex = 0
  /\ ui = "return" => appDoneFutex = 1

\* The thread ends with DESTROY and with no other command.
Ending ==
  /\ app = "signal" => cmd.tag # "DESTROY"
  /\ app = "lastSignal" => cmd.tag = "DESTROY"
  /\ app \in {"lastWake", "exited"} =>
       \/ ui \in {"close", "join"}
       \/ ui \in InCall \ {"write"} /\ cmd.tag = "DESTROY" /\ appDoneFutex = 1
  /\ (ui \in InCall \ {"write"} /\ cmd.tag = "DESTROY" /\ appDoneFutex = 1)
       => app \in {"lastWake", "exited"}
  /\ ui \in {"close", "join"} => app \in {"lastWake", "exited"}
  /\ ui = "gone" <=> app = "none"

\* What the application holds is what exists, but for a handle on its way.
Handles ==
  /\ window = IF \/ cmd.tag = "NATIVE_WINDOW_CREATED" /\ ~Answered
                 \/ cmd.tag = "NATIVE_WINDOW_DESTROYED" /\ Answered
                THEN None ELSE liveWindow
  /\ inputQueue = IF \/ cmd.tag = "INPUT_QUEUE_CREATED" /\ ~Answered
                     \/ cmd.tag = "INPUT_QUEUE_DESTROYED" /\ Answered
                    THEN None ELSE liveQueue
  /\ cmd.tag \in {"NATIVE_WINDOW_CREATED", "NATIVE_WINDOW_DESTROYED"} => liveWindow = cmd.arg
  /\ cmd.tag \in {"INPUT_QUEUE_CREATED", "INPUT_QUEUE_DESTROYED"} => liveQueue = cmd.arg
  /\ cmd.tag = "DESTROY" \/ ui \in {"gone", "close", "join"}
       => liveWindow = None /\ liveQueue = None

\* The application's own bookkeeping.
Holdings ==
  /\ app \in {"none", "init", "lastSignal", "lastWake", "exited"}
       => window = None /\ inputQueue = None /\ egl = "none" /\ ~running
  /\ app \in {"poll", "handle", "signal", "wake", "input", "draw"}
       => egl = IF window = None THEN "library" ELSE "surface"
  /\ running => window # None
  /\ app = "draw" => running
  /\ app = "input" => inputQueue # None
  /\ aborted # "pipe"

\* What the looper has found: a command, or the queue the application holds or has just
\* given up.
Reports ==
  /\ pipeReady => pipe # <<>> /\ app \in {"poll", "input"}
  /\ queueReady # None =>
       /\ app \in {"poll", "handle", "signal", "wake"}
       /\ inputQueue \in {queueReady, None}
       /\ inputQueue = None => ~pipeReady /\ app # "handle"
  /\ aborted = "null" => queueReady # None /\ inputQueue = None

Inv == TypeOK /\ Phases /\ Ending /\ Handles /\ Holdings /\ Reports

\* The empty command is none of the commands; tags and arguments of those.
LEMMA CommandFacts ==
  /\ NO_CMD \notin Commands /\ NO_CMD.tag = "NO_CMD"
  /\ \A c \in Commands :
       /\ c.tag \in Quiet \cup {"STOP", "DESTROY", "WINDOW_FOCUS_CHANGED",
             "NATIVE_WINDOW_CREATED", "NATIVE_WINDOW_DESTROYED", "INPUT_QUEUE_CREATED",
             "INPUT_QUEUE_DESTROYED"}
       /\ c.tag \in {"NATIVE_WINDOW_CREATED", "NATIVE_WINDOW_DESTROYED"} => c.arg \in Windows
       /\ c.tag \in {"INPUT_QUEUE_CREATED", "INPUT_QUEUE_DESTROYED"} => c.arg \in Queues
BY DEF NO_CMD, Command, Commands, Quiet

\* The state before the activity is created.
LEMMA InitInv == Init => Inv
<1> SUFFICES ASSUME Init PROVE Inv
  OBVIOUS
<1> USE CommandFacts, GlueAssumption DEF Init
<1>1. TypeOK
  <2>1. requestPointerCapture \in BOOLEAN /\ captured \in BOOLEAN /\ running \in BOOLEAN
    OBVIOUS
  <2>2. pipe \in Seq(Commands) /\ events \in Nat /\ arrivals \in Nat
    OBVIOUS
  <2>3. pipeReady \in BOOLEAN /\ queueReady = None
    OBVIOUS
  <2> QED BY <2>1, <2>2, <2>3 DEF TypeOK
<1>2. Phases /\ Ending BY DEF Phases, Ending, InCall, Waiting, Busy
<1>3. Handles /\ Holdings /\ Reports BY DEF Handles, Holdings, Reports
<1> QED BY <1>1, <1>2, <1>3 DEF Inv

\* The ways the process ends: a failed call, or a report of a queue that was given up.
Ends == Abort("fault") \/ (Abort("null") /\ queueReady # None /\ inputQueue = None)

\* An abort changes nothing else the invariant speaks of.
LEMMA AbortInv == ASSUME Inv, Ends PROVE Inv'
BY DEF Inv, Ends, Abort, uiVars, appVars, looper, TypeOK, Phases, Ending, Handles, Holdings,
   Reports, Answered

\* The UI thread's steps up to the wait.
LEMMA CallInv == ASSUME Inv, NEW c \in Commands, Callback(c) PROVE Inv'
<1> USE CommandFacts, GlueAssumption DEF Callback, uiVars, appVars, looper
<1>1. TypeOK'
  <2>1. stage' \in {"created", "started", "resumed", "paused", "stopped"}
    BY DEF Inv, TypeOK, StageAfter
  <2>2. /\ liveWindow' \in Windows \cup {None} /\ liveQueue' \in Queues \cup {None}
        /\ arrivals' \in Nat
    BY DEF Inv, TypeOK, Expected
  <2>3. /\ ui' = "write" /\ cmd' = c /\ appDoneFutex' = 0 /\ requestPointerCapture' = FALSE
        /\ UNCHANGED <<captured, pipe, app, appCmd, window, inputQueue, running, egl, pipeReady,
                       queueReady, events, aborted>>
    OBVIOUS
  <2> HIDE DEF Callback
  <2>4. requestPointerCapture' \in BOOLEAN BY <2>3
  <2>5. captured' \in BOOLEAN BY <2>3 DEF Inv, TypeOK
  <2>6. running' \in BOOLEAN BY <2>3 DEF Inv, TypeOK
  <2>7. pipeReady' \in BOOLEAN BY <2>3 DEF Inv, TypeOK
  <2>8. pipe' \in Seq(Commands) BY <2>3 DEF Inv, TypeOK
  <2> QED BY <2>1, <2>2, <2>3, <2>4, <2>5, <2>6, <2>7, <2>8 DEF Inv, TypeOK
<1>2. Phases' /\ Ending'
  BY DEF Inv, TypeOK, Phases, Ending, InCall, Waiting, Busy
<1>3. Handles'
  <2>1. ~Answered /\ ~Answered' /\ cmd = NO_CMD
    BY DEF Inv, Phases, InCall, Answered
  <2>2. window = liveWindow /\ inputQueue = liveQueue
    BY <2>1 DEF Inv, Handles
  <2> QED BY <2>1, <2>2 DEF Expected, Handles, Inv, TypeOK, Quiet
<1>4. Holdings' /\ Reports' BY DEF Inv, Holdings, Reports
<1> QED BY <1>1, <1>2, <1>3, <1>4 DEF Inv

\* The command goes into an empty pipe.
LEMMA WriteInv == ASSUME Inv, Write PROVE Inv'
<1> USE CommandFacts, GlueAssumption DEF Write, appVars, looper
<1>1. pipe = <<>> /\ cmd \in Commands /\ Len(pipe) = 0
  BY DEF Inv, TypeOK, Phases, InCall
<1>2. pipe' = <<cmd>> /\ ui' = "check" /\ cmd' = cmd /\ appDoneFutex' = 0
      /\ UNCHANGED <<requestPointerCapture, captured, stage, liveWindow, liveQueue, app,
                     appCmd, window, inputQueue, running, egl, pipeReady, queueReady, events,
                     arrivals, aborted>>
  BY <1>1 DEF Inv, Phases
<1>3. TypeOK' BY <1>1, <1>2 DEF Inv, TypeOK
<1>4. Phases' /\ Ending' /\ Holdings'
  BY <1>1, <1>2 DEF Inv, TypeOK, Phases, Ending, Holdings, InCall, Waiting, Busy
<1>5. ~Answered /\ ~Answered' BY <1>2 DEF Answered
<1>6. Handles' BY <1>1, <1>2, <1>5 DEF Inv, Handles
<1>7. Reports' BY <1>1, <1>2 DEF Inv, Reports
<1> QED BY <1>3, <1>4, <1>6, <1>7 DEF Inv

\* Looking at the word and falling asleep.
LEMMA WaitInv == ASSUME Inv, Check \/ FutexWait PROVE Inv'
<1> USE CommandFacts DEF Check, FutexWait, appVars, looper
<1>1. TypeOK' BY DEF Inv, TypeOK
<1>2. Phases' /\ Ending' /\ Holdings'
  BY DEF Inv, TypeOK, Phases, Ending, Holdings, InCall, Waiting, Busy
<1>3. Answered' = Answered BY DEF Answered
<1>4. Handles' /\ Reports' BY <1>3 DEF Inv, Handles, Reports
<1> QED BY <1>1, <1>2, <1>4 DEF Inv

\* The callback returns: the command has been answered.
LEMMA ReturnInv == ASSUME Inv, Return PROVE Inv'
<1> USE CommandFacts, GlueAssumption DEF Return, appVars, looper
<1>1. Answered /\ cmd \in Commands /\ pipe = <<>> /\ app \notin Busy
  BY DEF Inv, TypeOK, Phases, InCall, Waiting, Busy, Answered
<1>2. TypeOK' BY DEF Inv, TypeOK
<1>3. Phases' /\ Ending' /\ Holdings'
  BY <1>1 DEF Inv, TypeOK, Phases, Ending, Holdings, InCall, Waiting, Busy
<1>4. Handles'
  BY <1>1 DEF Inv, Handles, Answered, Phases, InCall, TypeOK
<1>5. Reports' BY DEF Inv, Reports
<1> QED BY <1>2, <1>3, <1>4, <1>5 DEF Inv

\* Creating and destroying the activity, and events that arrive.
LEMMA ActivityInv == ASSUME Inv, Create \/ Close \/ Join \/ Arrive PROVE Inv'
<1> USE CommandFacts, GlueAssumption DEF uiVars, appVars, looper
<1>1. CASE Create /\ aborted' = "no"
  BY <1>1 DEF Create, Abort, Inv, TypeOK, Phases, Ending, Handles, Holdings, Reports, InCall, Waiting,
     Busy, Answered
<1>2. CASE Create /\ aborted' # "no"
  BY <1>2, AbortInv DEF Create, Ends
<1>3. CASE Close
  BY <1>3 DEF Close, Inv, TypeOK, Phases, Ending, Handles, Holdings, Reports, InCall, Waiting,
     Busy, Answered
<1>4. CASE Join
  BY <1>4 DEF Join, Inv, TypeOK, Phases, Ending, Handles, Holdings, Reports, InCall, Waiting,
     Busy, Answered
<1>5. CASE Arrive
  BY <1>5 DEF Arrive, Inv, TypeOK, Phases, Ending, Handles, Holdings, Reports, InCall, Waiting,
     Busy, Answered
<1> QED BY <1>1, <1>2, <1>3, <1>4, <1>5

\* The looper finds what is ready.
LEMMA PollInv == ASSUME Inv, Poll, aborted' = "no" PROVE Inv' /\ Answered' = Answered
<1> USE CommandFacts, GlueAssumption DEF Poll, Abort, ElseStays, uiVars, appVars
<1>1. Answered' = Answered BY DEF Answered
<1>2. TypeOK'
  <2>1. pipeReady' \in BOOLEAN
    OBVIOUS
  <2>2. queueReady' \in Queues \cup {None}
    BY DEF Inv, TypeOK, QueueFound
  <2>3. UNCHANGED <<ui, cmd, requestPointerCapture, captured, stage, liveWindow, liveQueue,
                    appDoneFutex, pipe, app, appCmd, window, inputQueue, running, egl, events,
                    arrivals, aborted>>
    OBVIOUS
  <2> HIDE DEF Poll
  <2>4. requestPointerCapture' \in BOOLEAN BY <2>3 DEF Inv, TypeOK
  <2>5. captured' \in BOOLEAN BY <2>3 DEF Inv, TypeOK
  <2>6. running' \in BOOLEAN BY <2>3 DEF Inv, TypeOK
  <2>7. pipe' \in Seq(Commands) BY <2>3 DEF Inv, TypeOK
  <2> QED BY <2>1, <2>2, <2>3, <2>4, <2>5, <2>6, <2>7 DEF Inv, TypeOK
<1>3. Phases' /\ Ending' /\ Holdings'
  BY DEF Inv, TypeOK, Phases, Ending, Holdings, InCall, Waiting, Busy
<1>4. Handles' BY <1>1 DEF Inv, Handles
<1>5. Reports'
  <2>1. queueReady' \in {inputQueue, None} /\ inputQueue' = inputQueue /\ app' = "poll"
    BY DEF QueueFound
  <2>2. pipeReady' => pipe' # <<>>
    OBVIOUS
  <2> QED BY <2>1, <2>2 DEF Reports
<1> QED BY <1>1, <1>2, <1>3, <1>4, <1>5 DEF Inv

\* The application thread takes a command out of the pipe.
LEMMA ReadInv == ASSUME Inv, ReadCommand, aborted' = "no" PROVE Inv' /\ Answered' = Answered
<1> USE CommandFacts, GlueAssumption DEF ReadCommand, Abort, uiVars
<1>1. pipe = <<cmd>> /\ cmd \in Commands /\ ui \in Waiting /\ appDoneFutex = 0
  BY DEF Inv, TypeOK, Phases, Reports, InCall, Waiting
<1>2. Head(pipe) = cmd /\ Tail(pipe) = <<>>
  BY <1>1
<1>3. TypeOK'
  <2>1. pipeReady' \in BOOLEAN
    OBVIOUS
  <2> QED BY <1>1, <1>2, <2>1 DEF Inv, TypeOK
<1>4. Phases' /\ Ending' /\ Holdings'
  BY <1>1, <1>2 DEF Inv, TypeOK, Phases, Ending, Holdings, InCall, Waiting, Busy
<1>5. ~Answered /\ ~Answered' BY <1>1 DEF Answered
<1>6. Handles' BY <1>1, <1>5 DEF Inv, Handles
<1>7. Reports' BY <1>1 DEF Inv, Reports
<1>8. Answered' = Answered BY <1>5 DEF Answered
<1> QED BY <1>3, <1>4, <1>6, <1>7, <1>8 DEF Inv

\* A command is carried out: from then on it counts as answered.
LEMMA HandleInv == ASSUME Inv, Handle, aborted' = "no" PROVE Inv' /\ ~Answered /\ Answered'
<1> USE CommandFacts, GlueAssumption
    DEF Handle, HandleQuiet, HandleFocus, HandleWindowCreated, HandleStop, HandleQueue,
        HandleDestroy, Handling, Abort, AppStays, ElseStays, uiVars, appVars, looper
<1>1. /\ appCmd = cmd /\ cmd \in Commands /\ ui \in Waiting /\ appDoneFutex = 0
      /\ pipe = <<>> /\ app = "handle"
  BY DEF Inv, TypeOK, Phases, InCall, Waiting, Busy
<1>2. app' \in {"signal", "lastSignal"} /\ UNCHANGED <<ui, cmd, appCmd, pipe, appDoneFutex>>
  BY <1>1
<1>3. ~Answered /\ Answered'
  BY <1>1, <1>2 DEF Answered, Waiting
<1>4. TypeOK'
  <2>1. requestPointerCapture' \in BOOLEAN
    BY DEF Inv, TypeOK
  <2>2. running' \in BOOLEAN
    BY DEF Inv, TypeOK
  <2>3. window' \in Windows \cup {None} /\ inputQueue' \in Queues \cup {None}
    BY <1>1 DEF Inv, TypeOK
  <2>4. egl' \in {"none", "library", "surface"} /\ app' \in {"signal", "lastSignal"}
    BY <1>2 DEF Inv, TypeOK
  <2>5. UNCHANGED <<ui, cmd, captured, stage, liveWindow, liveQueue, appDoneFutex, pipe,
                    appCmd, pipeReady, queueReady, events, arrivals>>
    BY <1>1
  <2> QED BY <2>1, <2>2, <2>3, <2>4, <2>5 DEF Inv, TypeOK
<1>5. Phases' /\ Ending'
  BY <1>1, <1>2 DEF Inv, TypeOK, Phases, Ending, InCall, Waiting, Busy, Quiet
<1>6. Handles'
  BY <1>1, <1>2, <1>3 DEF Inv, Handles, TypeOK, Quiet
<1>7. Holdings'
  <2>1. CASE HandleQuiet \/ HandleFocus \/ HandleQueue
    <3>1. app' = "signal" /\ UNCHANGED <<window, egl, running>>
      BY <2>1
    <3> QED BY <1>1, <3>1 DEF Inv, Holdings
  <2>2. CASE HandleWindowCreated
    BY <1>1, <2>2 DEF Inv, Holdings
  <2>3. CASE HandleStop
    <3>1. app' = "signal" /\ ~running' /\ inputQueue' = inputQueue
      BY <2>3
    <3>2. egl' = IF window' = None THEN "library" ELSE "surface"
      BY <1>1, <2>3 DEF Inv, Holdings
    <3> QED BY <3>1, <3>2 DEF Holdings
  <2>4. CASE HandleDestroy
    <3>1. window = None /\ inputQueue = None /\ cmd.tag = "DESTROY"
      BY <1>1, <2>4 DEF Inv, Handles
    <3> QED BY <1>1, <2>4, <3>1 DEF Inv, Holdings
  <2> QED BY <2>1, <2>2, <2>3, <2>4
<1>8. Reports'
  <2>1. ~pipeReady /\ UNCHANGED <<pipeReady, queueReady>>
    BY <1>1 DEF Inv, Reports
  <2>2. CASE queueReady = None
    BY <2>1, <2>2 DEF Reports
  <2>3. CASE queueReady # None
    <3>1. inputQueue = queueReady /\ inputQueue # None
      BY <1>1, <2>3 DEF Inv, Reports
    <3>2. cmd.tag # "INPUT_QUEUE_CREATED" /\ cmd.tag # "DESTROY"
      BY <1>1, <1>3, <3>1 DEF Inv, Handles
    <3>3. inputQueue' \in {queueReady, None} /\ app' = "signal"
      BY <1>1, <3>1, <3>2
    <3> QED BY <2>1, <3>3 DEF Reports
  <2> QED BY <2>2, <2>3
<1> QED BY <1>3, <1>4, <1>5, <1>6, <1>7, <1>8 DEF Inv

\* The signal, the input queue and the drawing.
LEMMA AppInv ==
  ASSUME Inv,
         nativeGlue_signalAppDone \/ PollInput \/ InputEvent \/ PollTimeout \/ Draw,
         aborted' = "no"
  PROVE  Inv' /\ Answered' = Answered
<1> USE CommandFacts, GlueAssumption DEF Abort, AppStays, ElseStays, uiVars, appVars, looper
<1>1. CASE SignalStore
  <2>1. Answered' = Answered BY <1>1 DEF SignalStore, Answered
  <2>2. TypeOK' BY <1>1 DEF SignalStore, Inv, TypeOK
  <2>3. Phases' /\ Ending' /\ Holdings'
    BY <1>1 DEF SignalStore, Inv, TypeOK, Phases, Ending, Holdings, InCall, Waiting, Busy
  <2>4. Handles' BY <1>1, <2>1 DEF SignalStore, Inv, Handles
  <2>5. Reports' BY <1>1 DEF SignalStore, Inv, Reports
  <2> QED BY <2>1, <2>2, <2>3, <2>4, <2>5 DEF Inv
<1>2. CASE SignalWake
  <2>1. Answered' = Answered BY <1>2 DEF SignalWake, Answered
  <2>2. TypeOK' BY <1>2 DEF SignalWake, Inv, TypeOK
  <2>3. Phases' /\ Ending' /\ Holdings'
    BY <1>2 DEF SignalWake, Inv, TypeOK, Phases, Ending, Holdings, InCall, Waiting, Busy
  <2>4. Handles' BY <1>2, <2>1 DEF SignalWake, Inv, Handles
  <2>5. Reports' BY <1>2 DEF SignalWake, Inv, Reports
  <2> QED BY <2>1, <2>2, <2>3, <2>4, <2>5 DEF Inv
<1>3. CASE PollInput \/ InputEvent \/ PollTimeout \/ Draw
  <2> USE DEF PollInput, InputEvent, PollTimeout, Draw
  <2>1. Answered' = Answered BY <1>3 DEF Answered
  <2>2. TypeOK' BY <1>3 DEF Inv, TypeOK
  <2>3. Phases' /\ Ending' /\ Holdings'
    BY <1>3 DEF Inv, TypeOK, Phases, Ending, Holdings, InCall, Waiting, Busy
  <2>4. Handles' BY <1>3, <2>1 DEF Inv, Handles
  <2>5. Reports' BY <1>3 DEF Inv, Reports
  <2> QED BY <2>1, <2>2, <2>3, <2>4, <2>5 DEF Inv
<1> QED BY <1>1, <1>2, <1>3 DEF nativeGlue_signalAppDone

\* The application thread starts with nothing in its hands.
LEMMA AppInitInv == ASSUME Inv, AppInit, aborted' = "no" PROVE Inv'
<1> USE CommandFacts, GlueAssumption DEF AppInit, Abort, ElseStays, uiVars, appVars
<1>1. Answered' = Answered BY DEF Answered
<1>2. TypeOK' BY ZenonT(60) DEF Inv, TypeOK
<1>3. Phases' /\ Ending' /\ Holdings'
  BY DEF Inv, TypeOK, Phases, Ending, Holdings, InCall, Waiting, Busy
<1>4. Handles' BY <1>1 DEF Inv, Handles, Holdings
<1>5. Reports' BY DEF Reports
<1> QED BY <1>2, <1>3, <1>4, <1>5 DEF Inv

\* A step that aborts is one of the ways the process ends: the pipe is empty
\* when a command is written.
LEMMA AbortSteps ==
  ASSUME Inv, [Next]_vars, aborted = "no", aborted' # "no"
  PROVE  Ends
<1>1. ~Write
  <2>1. ui = "write" => Len(pipe) < PipeCapacity
    BY GlueAssumption DEF Inv, Phases
  <2> QED BY <2>1 DEF Write
<1> QED BY <1>1 DEF Next, Create, Callback, UiThread, Write, Check, FutexWait, Return, CaptureFails,
   Close, Join, Arrive, AppThread, AppInit, Poll, ReadCommand, Handle, HandleQuiet, HandleFocus, HandleWindowCreated,
   HandleStop, HandleQueue, HandleDestroy, nativeGlue_signalAppDone, SignalStore, SignalWake,
   PollInput, InputEvent, PollTimeout, Draw, AppStays, ElseStays, Gone, vars, Ends

\* Every step keeps the invariant.
LEMMA NextInv == Inv /\ [Next]_vars => Inv'
<1> SUFFICES ASSUME Inv, [Next]_vars PROVE Inv'
  OBVIOUS
<1>1. CASE aborted = "no" /\ aborted' # "no"
  BY <1>1, AbortSteps, AbortInv
<1>2. CASE UNCHANGED vars
  BY <1>2 DEF vars, uiVars, appVars, looper, Inv, TypeOK, Phases, Ending, Handles, Holdings,
     Reports, Answered
<1>3. CASE aborted # "no"
  BY <1>2, <1>3
     DEF Next, Create, Callback, UiThread, Write, Check, FutexWait, Return, CaptureFails,
         Close, Join, Arrive, AppThread, AppInit, Poll, ReadCommand, Handle, HandleQuiet, HandleFocus,
         HandleWindowCreated, HandleStop, HandleQueue, HandleDestroy, Handling,
         nativeGlue_signalAppDone, SignalStore, SignalWake, PollInput, InputEvent,
         PollTimeout, Draw, Gone
<1>4. CASE Next /\ aborted = "no" /\ aborted' = "no"
  BY <1>4, CallInv, WriteInv, WaitInv, ReturnInv, ActivityInv, PollInv, ReadInv, HandleInv,
     AppInv, AppInitInv DEF Next, UiThread, CaptureFails, Abort, AppThread, Gone
<1> QED BY <1>1, <1>2, <1>3, <1>4

\* The invariant gives the property.
LEMMA InvHandles == Inv => HandlesAlive
BY CommandFacts, GlueAssumption
   DEF Inv, TypeOK, Phases, Ending, Handles, Holdings, Reports, HandlesAlive, Answered,
       InCall, Waiting, Busy, Quiet

\* For every set of handles the application never uses a window or a queue
\* that Android has freed, its assertions hold, and NULL is used only for a
\* report of the queue it has just given up (libopenGl.so.c:112-224).
THEOREM NothingFreedIsUsed == Spec => []HandlesAlive
<1> QED BY InitInv, NextInv, InvHandles, PTL DEF Spec

\* Every step of the glue is a step of a synchronous call, or none.
LEMMA StepRefines ==
  ASSUME Inv, [Next]_vars
  PROVE  [Calls!Next]_<<cmd, Answered, window, inputQueue>>
<1> USE CommandFacts, GlueAssumption
<1>1. CASE UNCHANGED <<cmd, Answered, window, inputQueue>>
  BY <1>1
<1>2. CASE aborted' # "no" /\ aborted = "no"
  <2>1. UNCHANGED <<ui, cmd, pipe, app, window, inputQueue>>
    BY <1>2, AbortSteps DEF Ends, Abort, uiVars, appVars
  <2> QED BY <2>1 DEF Answered
<1>3. CASE UNCHANGED vars
  BY <1>3 DEF vars, uiVars, appVars, Answered
<1>4. CASE aborted # "no"
  BY <1>3, <1>4
     DEF Next, Create, Callback, UiThread, Write, Check, FutexWait, Return, CaptureFails,
         Close, Join, Arrive, AppThread, AppInit, Poll, ReadCommand, Handle, HandleQuiet, HandleFocus,
         HandleWindowCreated, HandleStop, HandleQueue, HandleDestroy, Handling,
         nativeGlue_signalAppDone, SignalStore, SignalWake, PollInput, InputEvent,
         PollTimeout, Draw, Gone
<1>5. ASSUME NEW c \in Commands, Callback(c) PROVE Calls!Call(c)
  BY <1>5 DEF Inv, Phases, InCall, Callback, appVars, Calls!Call, Answered
<1>6. ASSUME Return PROVE Calls!Return
  <2>1. Answered
    BY <1>6 DEF Return, Inv, TypeOK, Phases, InCall, Waiting, Busy, Answered
  <2> QED BY <1>6, <2>1 DEF Return, appVars, Calls!Return, Answered
<1>7. ASSUME Handle, aborted' = "no" PROVE Calls!Answer
  <2>1. ~Answered /\ Answered' BY <1>7, HandleInv
  <2>2. appCmd = cmd /\ cmd \in Commands
    BY <1>7 DEF Inv, TypeOK, Phases, InCall, Waiting, Busy, Handle, HandleQuiet, HandleFocus,
       HandleWindowCreated, HandleStop, HandleQueue, HandleDestroy, Handling
  <2>3. UNCHANGED cmd /\ Calls!Held(cmd)
    BY <1>7, <2>2 DEF Handle, HandleQuiet, HandleFocus, HandleWindowCreated, HandleStop,
       HandleQueue, HandleDestroy, Handling, Abort, AppStays, ElseStays, uiVars, appVars, Calls!Held,
       Quiet
  <2> QED BY <2>1, <2>2, <2>3 DEF Calls!Answer
<1>8. ASSUME Create \/ Close \/ Join \/ Arrive, aborted' = "no"
      PROVE  UNCHANGED <<cmd, Answered, window, inputQueue>>
  BY <1>8 DEF Inv, Phases, InCall, Create, Close, Join, Arrive, Abort, uiVars, appVars, Answered
<1>9. ASSUME Write PROVE UNCHANGED <<cmd, Answered, window, inputQueue>>
  <2>1. pipe = <<>> /\ Len(pipe) = 0 BY <1>9 DEF Inv, Phases, Write
  <2> QED BY <1>9, <2>1 DEF Write, appVars, Answered
<1>10. ASSUME Check \/ FutexWait PROVE UNCHANGED <<cmd, Answered, window, inputQueue>>
  BY <1>10 DEF Check, FutexWait, appVars, Answered
<1>11. ASSUME Poll \/ ReadCommand, aborted' = "no"
       PROVE  UNCHANGED <<cmd, Answered, window, inputQueue>>
  <2>1. Answered' = Answered BY <1>11, PollInv, ReadInv
  <2> QED BY <1>11, <2>1 DEF Poll, ReadCommand, Abort, ElseStays, uiVars, appVars
<1>12. ASSUME nativeGlue_signalAppDone \/ PollInput \/ InputEvent \/ PollTimeout \/ Draw,
              aborted' = "no"
       PROVE  UNCHANGED <<cmd, Answered, window, inputQueue>>
  <2>1. Answered' = Answered BY <1>12, AppInv
  <2> QED BY <1>12, <2>1 DEF nativeGlue_signalAppDone, SignalStore, SignalWake, PollInput,
      InputEvent, PollTimeout, Draw, Abort, AppStays, ElseStays, uiVars, appVars
<1>13. ASSUME AppInit, aborted' = "no" PROVE UNCHANGED <<cmd, Answered, window, inputQueue>>
  BY <1>13 DEF AppInit, Abort, ElseStays, uiVars, appVars, Inv, Holdings, Answered
<1>14. CASE Next /\ aborted = "no" /\ aborted' = "no"
  BY <1>3, <1>5, <1>6, <1>7, <1>8, <1>9, <1>10, <1>11, <1>12, <1>13, <1>14
     DEF Next, UiThread, CaptureFails, Abort, AppThread, Gone, Calls!Next
<1> QED BY <1>2, <1>3, <1>4, <1>14

\* The glue implements synchronous calls: for every set of handles a callback
\* is carried out exactly once, before it returns (nativeGlue.c:80-103).
THEOREM GlueIsSynchronous == Spec => CallsAreSynchronous
<1>1. Init => Calls!Init
  BY CommandFacts DEF Init, Calls!Init, Answered
<1>2. Inv /\ [Next]_vars => [Calls!Next]_<<cmd, Answered, window, inputQueue>>
  BY StepRefines
<1> QED BY InitInv, NextInv, <1>1, <1>2, PTL DEF Spec, CallsAreSynchronous, Calls!Spec

-----------------------------------------------------------------------------
(***************************************************************************)
(* The lock of the threading example.                                      *)
(***************************************************************************)

\* One thread at most is inside, and then the word says so.
MutualExclusion ==
  /\ \A t \in Holders : lock = LOCKED
  /\ \A s, t \in Holders : s = t

\* What a thread has loaded is what it will add one to.
LoadedIsCurrent ==
  \A t \in Threads : pc[t] = "loaded" => register[t] = counter /\ i[t] < ITERATIONS

CounterIsSum == counter = i["parent"] + i["child1"] + i["child2"]

LoopDone == {"lastRelease", "lastWake", "exit", "join", "joinWait", "joinAsleep", "print"}

LoopsDone ==
  /\ \A t \in Threads : pc[t] \in LoopDone => i[t] = ITERATIONS
  /\ \A c \in Children : childDone[c] = 0 => i[c] = ITERATIONS

JoinOrder ==
  /\ awaited = "child2" => childDone["child1"] = 0
  /\ pc["parent"] = "print" => awaited = "child2" /\ childDone["child2"] = 0

LockInv ==
  /\ LockTypeOK /\ MutualExclusion /\ LoadedIsCurrent /\ CounterIsSum
  /\ LoopsDone /\ JoinOrder /\ EveryIncrementCounted

\* The constant sets of threads, spelled out for the provers.
LEMMA ThreadNames ==
  /\ Threads = {"parent", "child1", "child2"}
  /\ Children = {"child1", "child2"} /\ Parent = "parent"
BY DEF Threads, Children, Parent

\* The invariant holds when `start` begins.
LEMMA InitLockInv == LockInit => LockInv
BY LockAssumption, ThreadNames
   DEF LockInit, LockInv, LockTypeOK, MutualExclusion, Holders, LoadedIsCurrent, CounterIsSum,
       LoopsDone, LoopDone, JoinOrder, EveryIncrementCounted, Labels, LOCKED, UNLOCKED

\* A step that moves one thread t between labels outside the lock's section,
\* and leaves the data alone, keeps the invariant.
LEMMA MoveOutside ==
  ASSUME LockInv, UNCHANGED data,
         pc' \in [Threads -> Labels],
         \A t \in Threads :
           \/ pc'[t] = pc[t]
           \/ pc'[t] \in Labels \ (LoopDone \cup {"locked", "loaded", "release"})
           \/ pc'[t] \in LoopDone \ {"print", "lastRelease"} /\ i[t] = ITERATIONS
  PROVE  LockInv'
BY ThreadNames
   DEF LockInv, data, LockTypeOK, MutualExclusion, Holders, LoadedIsCurrent, CounterIsSum,
       LoopsDone, LoopDone, JoinOrder, EveryIncrementCounted, Labels

\* Taking the lock: the exchange of one thread keeps the invariant.
LEMMA ExchangeLockInv == ASSUME LockInv, NEW t \in Threads, Exchange(t) PROVE LockInv'
<1> USE ThreadNames, LockAssumption DEF LOCKED, UNLOCKED
<1>1. LockTypeOK' /\ CounterIsSum' /\ JoinOrder' /\ EveryIncrementCounted'
  BY DEF LockInv, Exchange, Goto, Contended, LockTypeOK, Labels, CounterIsSum, JoinOrder,
         EveryIncrementCounted
<1>2. MutualExclusion'
  BY DEF LockInv, Exchange, Goto, Contended, LockTypeOK, MutualExclusion, Holders
<1>3. LoadedIsCurrent' /\ LoopsDone'
  BY DEF LockInv, Exchange, Goto, Contended, LockTypeOK, LoadedIsCurrent, LoopsDone, LoopDone
<1> QED BY <1>1, <1>2, <1>3 DEF LockInv

\* The critical section keeps the invariant: the loaded value stays current
\* because no second thread is between its load and its store.
LEMMA SectionLockInv ==
  ASSUME LockInv, NEW t \in Threads, Load(t) \/ Store(t) \/ PrintDone(t) PROVE LockInv'
<1> USE ThreadNames, LockAssumption DEF LOCKED, UNLOCKED
<1>1. CASE Load(t)
  BY <1>1 DEF LockInv, Load, Goto, LockTypeOK, Labels, CounterIsSum, JoinOrder,
     EveryIncrementCounted, MutualExclusion, Holders, LoadedIsCurrent, LoopsDone, LoopDone
<1>2. CASE Store(t)
  <2>1. register[t] = counter /\ i[t] < ITERATIONS /\ i[t] \in 0 .. ITERATIONS
    BY <1>2 DEF LockInv, Store, LoadedIsCurrent, LockTypeOK
  <2>2. LockTypeOK'
    BY <1>2, <2>1 DEF LockInv, Store, Goto, LockTypeOK, Labels
  <2>3. CounterIsSum'
    BY <1>2, <2>1 DEF LockInv, Store, LockTypeOK, CounterIsSum
  <2>4. MutualExclusion'
    BY <1>2 DEF LockInv, Store, Goto, LockTypeOK, MutualExclusion, Holders
  <2>5. LoadedIsCurrent'
    BY <1>2 DEF LockInv, Store, Goto, LockTypeOK, MutualExclusion, Holders, LoadedIsCurrent
  <2>6. LoopsDone' /\ JoinOrder' /\ EveryIncrementCounted'
    BY <1>2, <2>1
       DEF LockInv, Store, Goto, LockTypeOK, LoopsDone, LoopDone, JoinOrder, EveryIncrementCounted
  <2> QED BY <2>2, <2>3, <2>4, <2>5, <2>6 DEF LockInv
<1>3. CASE PrintDone(t)
  BY <1>3 DEF LockInv, PrintDone, data, Goto, LockTypeOK, Labels, CounterIsSum, JoinOrder,
     EveryIncrementCounted, MutualExclusion, Holders, LoadedIsCurrent, LoopsDone, LoopDone
<1> QED BY <1>1, <1>2, <1>3

\* Releasing the lock keeps the invariant: the one holder leaves.
LEMMA ReleaseLockInv == ASSUME LockInv, NEW t \in Threads, releaseLock(t) PROVE LockInv'
<1> USE ThreadNames, LockAssumption DEF LOCKED, UNLOCKED
<1>1. CASE ReleaseStore(t)
  <2>1. LockTypeOK' /\ CounterIsSum' /\ JoinOrder' /\ EveryIncrementCounted'
    BY <1>1 DEF LockInv, ReleaseStore, Goto, Released, LockTypeOK, Labels, CounterIsSum,
       JoinOrder, EveryIncrementCounted
  <2>2. MutualExclusion'
    BY <1>1 DEF LockInv, ReleaseStore, Goto, Released, LockTypeOK, MutualExclusion, Holders
  <2>3. LoadedIsCurrent' /\ LoopsDone'
    BY <1>1 DEF LockInv, ReleaseStore, Goto, Released, LockTypeOK, LoadedIsCurrent, LoopsDone,
       LoopDone
  <2> QED BY <2>1, <2>2, <2>3 DEF LockInv
<1>2. CASE Wake(t)
  <2>1. pc' \in [Threads -> Labels] /\ UNCHANGED data
    BY <1>2 DEF LockInv, Wake, Goto, Released, LockTypeOK, Labels
  <2>2. \A s \in Threads :
           \/ pc'[s] = pc[s]
           \/ pc'[s] \in Labels \ (LoopDone \cup {"locked", "loaded", "release"})
           \/ pc'[s] \in LoopDone \ {"print", "lastRelease"} /\ i[s] = ITERATIONS
    BY <1>2 DEF LockInv, Wake, Goto, Released, LockTypeOK, Labels, LoopsDone, LoopDone
  <2> QED BY <2>1, <2>2, MoveOutside
<1> QED BY <1>1, <1>2 DEF releaseLock

\* Every step keeps the invariant.
LEMMA NextLockInv == LockInv /\ [LockNext]_lockVars => LockInv'
<1> SUFFICES ASSUME LockInv, [LockNext]_lockVars PROVE LockInv'
  OBVIOUS
<1> USE ThreadNames, LockAssumption
<1>1. CASE Clone
  BY <1>1, MoveOutside DEF Clone, LockInv, LockTypeOK, Labels, LoopDone
<1>2. CASE CloneFails
  BY <1>2, MoveOutside DEF CloneFails, LockInv, LockTypeOK, Labels, LoopDone
<1>3. ASSUME NEW t \in Threads, Thread(t) \/ WakesForNothing(t) PROVE LockInv'
  <2>1. CASE Exchange(t) BY <2>1, ExchangeLockInv
  <2>2. CASE SpinOnce(t) \/ LockWait(t) \/ WakesForNothing(t)
    BY <2>2, MoveOutside
       DEF SpinOnce, LockWait, WakesForNothing, Goto, LockInv, LockTypeOK, Labels, LoopDone
  <2>3. CASE Load(t) \/ Store(t) \/ PrintDone(t) BY <2>3, SectionLockInv
  <2>4. CASE releaseLock(t) BY <2>4, ReleaseLockInv
  <2> QED BY <1>3, <2>1, <2>2, <2>3, <2>4 DEF Thread, takeLock
<1>4. ASSUME NEW c \in Children, Exit(c) PROVE LockInv'
  <2>1. i[c] = ITERATIONS
    BY <1>4 DEF Exit, LockInv, LoopsDone, LoopDone
  <2>2. LockTypeOK' /\ MutualExclusion' /\ LoadedIsCurrent' /\ CounterIsSum'
    BY <1>4 DEF Exit, LockInv, LockTypeOK, Labels, MutualExclusion, Holders, LoadedIsCurrent,
       CounterIsSum
  <2>3. LoopsDone' /\ JoinOrder' /\ EveryIncrementCounted'
    BY <1>4, <2>1 DEF Exit, LockInv, LockTypeOK, LoopsDone, LoopDone, JoinOrder,
       EveryIncrementCounted
  <2> QED BY <2>2, <2>3 DEF LockInv
<1>5. CASE JoinLoad
  <2>1. LockTypeOK' /\ MutualExclusion' /\ LoadedIsCurrent' /\ CounterIsSum'
    BY <1>5 DEF JoinLoad, Goto, LockInv, LockTypeOK, Labels, MutualExclusion, Holders,
       LoadedIsCurrent, CounterIsSum
  <2>2. LoopsDone' /\ JoinOrder' /\ EveryIncrementCounted'
    BY <1>5 DEF JoinLoad, Goto, LockInv, LockTypeOK, LoopsDone, LoopDone, JoinOrder,
       EveryIncrementCounted
  <2> QED BY <2>1, <2>2 DEF LockInv
<1>6. CASE JoinWait
  BY <1>6, MoveOutside DEF JoinWait, Goto, LockInv, LockTypeOK, Labels, LoopsDone, LoopDone
<1>7. CASE PrintCounter
  <2>1. counter = 3 * ITERATIONS
    BY <1>7 DEF PrintCounter, LockInv, LockTypeOK, CounterIsSum, LoopsDone, LoopDone, JoinOrder
  <2> QED
    BY <1>7, <2>1 DEF PrintCounter, Goto, LockInv, LockTypeOK, Labels, MutualExclusion, Holders,
       LoadedIsCurrent, CounterIsSum, LoopsDone, LoopDone, JoinOrder, EveryIncrementCounted
<1>8. CASE UNCHANGED lockVars
  BY <1>8, MoveOutside DEF lockVars, data, LockInv, LockTypeOK
<1> QED
  BY <1>1, <1>2, <1>3, <1>4, <1>5, <1>6, <1>7, <1>8 DEF LockNext, waitChild, Ended

\* Two threads are never inside the lock together, whatever ITERATIONS is and
\* whether they spin or sleep (takeLock and releaseLock, threading.c:34-47).
THEOREM LockExcludes == LockSpec => []MutualExclusion
<1>1. LockInv => MutualExclusion BY DEF LockInv
<1> QED BY InitLockInv, NextLockInv, <1>1, PTL DEF LockSpec

\* For every number of iterations the parent prints the sum of all increments
\* (the loops at threading.c:50 and :86 and waitChild, :62-67).
THEOREM CounterExact == LockSpec => []EveryIncrementCounted
<1>1. LockInv => EveryIncrementCounted BY DEF LockInv
<1> QED BY InitLockInv, NextLockInv, <1>1, PTL DEF LockSpec
=============================================================================
