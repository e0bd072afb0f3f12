--------------------------- MODULE ActivityCalls ---------------------------
(***************************************************************************)
(* What the Android glue promises the activity: a callback is a call into  *)
(* the application that is carried out once, before it returns.  The       *)
(* window and the input queue the application holds change only while the  *)
(* call that hands them over, or takes them back, is being carried out.    *)
(***************************************************************************)
CONSTANTS Windows, Queues, None, Commands, NO_CMD

VARIABLES
  call,        \* the callback being executed, or NO_CMD
  answered,    \* has the application carried it out?
  window,      \* the window the application holds
  inputQueue   \* the input queue it holds

Init ==
  /\ call = NO_CMD /\ answered = FALSE
  /\ window = None /\ inputQueue = None

Call(c) ==
  /\ call = NO_CMD
  /\ call' = c /\ answered' = FALSE
  /\ UNCHANGED <<window, inputQueue>>

\* What a command does to what the application holds.
Held(c) ==
  /\ window' = CASE c.tag = "NATIVE_WINDOW_CREATED" -> c.arg
                 [] c.tag = "NATIVE_WINDOW_DESTROYED" -> None
                 [] OTHER -> window
  /\ inputQueue' = CASE c.tag = "INPUT_QUEUE_CREATED" -> c.arg
                     [] c.tag = "INPUT_QUEUE_DESTROYED" -> None
                     [] OTHER -> inputQueue

Answer ==
  /\ call # NO_CMD /\ ~answered
  /\ answered' = TRUE
  /\ Held(call)
  /\ UNCHANGED call

Return ==
  /\ call # NO_CMD /\ answered
  /\ call' = NO_CMD /\ answered' = FALSE
  /\ UNCHANGED <<window, inputQueue>>

Next == (\E c \in Commands : Call(c)) \/ Answer \/ Return

Spec == Init /\ [][Next]_<<call, answered, window, inputQueue>>
=============================================================================
