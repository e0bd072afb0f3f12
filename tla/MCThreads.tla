----------------------------- MODULE MCThreads ------------------------------
(***************************************************************************)
(* The two programs of the repository whose threads meet in a futex, the   *)
(* lock of the threading example and the Android glue.  A behaviour is one *)
(* of either program; the other one has ended before it starts.            *)
(***************************************************************************)
EXTENDS NativeGlue, FutexLock

CONSTANTS w1, w2, q1, q2

LockEnded ==
  /\ spin = FALSE /\ lock = UNLOCKED /\ counter = 0
  /\ pc = [t \in Threads |-> "killed"] /\ i = [t \in Threads |-> 0]
  /\ register = [t \in Threads |-> 0] /\ awaited = "child1"
  /\ childDone = [c \in Children |-> 1] /\ printed = -1

GlueEnded ==
  /\ ui = "gone" /\ cmd = NO_CMD /\ requestPointerCapture = FALSE /\ captured = FALSE
  /\ stage = "created" /\ liveWindow = None /\ liveQueue = None
  /\ appDoneFutex = 0 /\ pipe = <<>> /\ app = "none" /\ appCmd = NO_CMD
  /\ window = None /\ inputQueue = None /\ running = FALSE /\ egl = "none"
  /\ pipeReady = FALSE /\ queueReady = None
  /\ events = 0 /\ arrivals = 0 /\ aborted = "fault"

ThreadsInit == (Init /\ LockEnded) \/ (LockInit /\ GlueEnded)

ThreadsNext == (Next /\ UNCHANGED lockVars) \/ (LockNext /\ UNCHANGED vars)

ThreadsSpec ==
  ThreadsInit /\ [][ThreadsNext]_<<vars, lockVars>> /\ GlueFairness /\ LockFairness
=============================================================================
