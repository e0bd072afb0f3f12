SPECIFICATION ThreadsSpec
CONSTANTS
  w1 = w1
  w2 = w2
  q1 = q1
  q2 = q2
  Windows = {w1, w2}
  Queues = {q1, q2}
  None = None
  HasFocus = HasFocus
  PipeCapacity = 1
  MaxEvents = 2
  ITERATIONS = 2
  Spin = {TRUE, FALSE}
  Spurious = TRUE
INVARIANTS HandlesAlive EveryIncrementCounted
PROPERTIES CallsAreSynchronous CallbacksReturn ThreadsFinish
