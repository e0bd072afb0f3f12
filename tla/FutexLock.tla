----------------------------- MODULE FutexLock -----------------------------
(***************************************************************************)
(* Three threads count under a lock that is one word of memory             *)
(* (src/hc/examples/threading): the parent starts two children, all three  *)
(* increment `counter` ITERATIONS times, and the parent waits for each     *)
(* child to exit before it prints the counter.                             *)
(*                                                                         *)
(* The increment is a load and a store: nothing but the lock keeps two of  *)
(* them apart.  A thread that finds the lock taken either spins on it or   *)
(* sleeps in the kernel, which compares the word once more before it puts  *)
(* the thread to sleep.  WaitOnAddress and WakeByAddressSingle of the      *)
(* Windows program have the same contract, and may also wake for nothing.  *)
(***************************************************************************)
EXTENDS Integers

CONSTANTS
  ITERATIONS,   \* increments of each thread
  Spin,         \* the values of `spin` (--spin): a set of BOOLEANs
  Spurious      \* may a sleeper wake without being woken?

ASSUME LockAssumption ==
  /\ ITERATIONS \in Nat
  /\ Spin \subseteq BOOLEAN /\ Spurious \in BOOLEAN

Parent == "parent"
Children == {"child1", "child2"}
Threads == {Parent} \cup Children

UNLOCKED == 0
LOCKED == 1

VARIABLES
  spin,       \* the program was started with --spin
  lock,       \* the lock word
  counter,    \* the shared counter
  pc,         \* where each thread is
  i,          \* the loop variable of each thread
  register,   \* the value of counter a thread has loaded
  awaited,    \* the child the parent waits for in waitChild
  childDone,  \* the word the kernel clears when a child has exited
  printed     \* what the parent printed, or -1

lockVars == <<spin, lock, counter, pc, i, register, awaited, childDone, printed>>
data == <<spin, lock, counter, i, register, awaited, childDone, printed>>

-----------------------------------------------------------------------------
LockInit ==
  /\ spin \in Spin
  /\ lock = UNLOCKED
  /\ counter = 0
  /\ pc = [t \in Threads |-> IF t = Parent THEN "clone1" ELSE "unborn"]
  /\ i = [t \in Threads |-> 0]
  /\ register = [t \in Threads |-> 0]
  /\ awaited = "child1"
  /\ childDone = [c \in Children |-> 1]
  /\ printed = -1

Goto(t, label) == pc' = [pc EXCEPT ![t] = label]

\* The parent clones child1, then child2, and then counts like them.
Clone ==
  \/ /\ pc[Parent] = "clone1"
     /\ pc' = [pc EXCEPT !["child1"] = "take", ![Parent] = "clone2"]
     /\ UNCHANGED data
  \/ /\ pc[Parent] = "clone2"
     /\ pc' = [pc EXCEPT !["child2"] = "take", ![Parent] = "take"]
     /\ UNCHANGED data

\* Cloning fails: `start` returns 1 and the process ends with every thread.
CloneFails ==
  /\ pc[Parent] \in {"clone1", "clone2"}
  /\ pc' = [t \in Threads |-> "killed"]
  /\ UNCHANGED data

\* takeLock: exchange; UNLOCKED means the lock is ours.
Contended == IF spin THEN "spin" ELSE "wait"

Exchange(t) ==
  /\ pc[t] = "take"
  /\ lock' = LOCKED
  /\ Goto(t, IF lock = UNLOCKED THEN "locked" ELSE Contended)
  /\ UNCHANGED <<spin, counter, i, register, awaited, childDone, printed>>

\* takeLock, --spin: read the word until it is no longer LOCKED.
SpinOnce(t) ==
  /\ pc[t] = "spin" /\ lock # LOCKED
  /\ Goto(t, "take")
  /\ UNCHANGED data

\* FUTEX_WAIT: sleep if the word is still LOCKED, else EAGAIN.
LockWait(t) ==
  /\ pc[t] = "wait"
  /\ Goto(t, IF lock = LOCKED THEN "asleep" ELSE "take")
  /\ UNCHANGED data

\* A sleeper returns from the kernel although nobody woke it.
WakesForNothing(t) ==
  /\ Spurious /\ pc[t] = "asleep"
  /\ Goto(t, "take")
  /\ UNCHANGED data

\* A lock that is looked at first and taken afterwards: not in the code.
ExchangeInTwoSteps(t) ==
  \/ /\ pc[t] = "take"
     /\ Goto(t, IF lock = UNLOCKED THEN "free" ELSE Contended)
     /\ UNCHANGED data
  \/ /\ pc[t] = "free"
     /\ lock' = LOCKED
     /\ Goto(t, "locked")
     /\ UNCHANGED <<spin, counter, i, register, awaited, childDone, printed>>

takeLockInTwoSteps(t) == ExchangeInTwoSteps(t) \/ SpinOnce(t) \/ LockWait(t)
takeLock(t) == Exchange(t) \/ SpinOnce(t) \/ LockWait(t)

\* The critical section: ++counter, or the line "done!" after the last round.
Load(t) ==
  /\ pc[t] = "locked" /\ i[t] < ITERATIONS
  /\ register' = [register EXCEPT ![t] = counter]
  /\ Goto(t, "loaded")
  /\ UNCHANGED <<spin, lock, counter, i, awaited, childDone, printed>>

Store(t) ==
  /\ pc[t] = "loaded"
  /\ counter' = register[t] + 1
  /\ i' = [i EXCEPT ![t] = @ + 1]
  /\ Goto(t, "release")
  /\ UNCHANGED <<spin, lock, register, awaited, childDone, printed>>

PrintDone(t) ==
  /\ pc[t] = "locked" /\ i[t] = ITERATIONS
  /\ Goto(t, "lastRelease")
  /\ UNCHANGED data

\* Where a thread goes on after releaseLock.
Released(t) == IF pc[t] \in {"release", "wake"} THEN "take"
               ELSE IF t = Parent THEN "join" ELSE "exit"

\* releaseLock: store UNLOCKED; then, unless spinning, wake one sleeper.
ReleaseStore(t) ==
  /\ pc[t] \in {"release", "lastRelease"}
  /\ lock' = UNLOCKED
  /\ Goto(t, IF spin THEN Released(t)
             ELSE IF pc[t] = "release" THEN "wake" ELSE "lastWake")
  /\ UNCHANGED <<spin, counter, i, register, awaited, childDone, printed>>

Wake(t) ==
  /\ pc[t] \in {"wake", "lastWake"}
  /\ \/ /\ \A s \in Threads : pc[s] # "asleep"
        /\ Goto(t, Released(t))
     \/ \E s \in Threads \ {t} :
          /\ pc[s] = "asleep"
          /\ pc' = [pc EXCEPT ![t] = Released(t), ![s] = "take"]
  /\ UNCHANGED data

\* A release that wakes only between rounds, not after the last: not in the code.
releaseLockSilently(t) ==
  \/ ReleaseStore(t) /\ pc[t] = "release"
  \/ Wake(t)
  \/ /\ pc[t] = "lastRelease"
     /\ lock' = UNLOCKED
     /\ Goto(t, Released(t))
     /\ UNCHANGED <<spin, counter, i, register, awaited, childDone, printed>>

releaseLock(t) == ReleaseStore(t) \/ Wake(t)

Thread(t) == takeLock(t) \/ Load(t) \/ Store(t) \/ PrintDone(t) \/ releaseLock(t)

\* sys_exit of a child: the kernel clears its word and wakes the one waiting.
Exit(c) ==
  /\ pc[c] = "exit"
  /\ childDone' = [childDone EXCEPT ![c] = 0]
  /\ pc' = [pc EXCEPT ![c] = "exited",
                      ![Parent] = IF @ = "joinAsleep" /\ awaited = c THEN "join" ELSE @]
  /\ UNCHANGED <<spin, lock, counter, i, register, awaited, printed>>

\* waitChild: child1, then child2; a cleared word ends the loop.
JoinLoad ==
  /\ pc[Parent] = "join"
  /\ IF childDone[awaited] # 0
       THEN Goto(Parent, "joinWait") /\ UNCHANGED awaited
       ELSE /\ Goto(Parent, IF awaited = "child1" THEN "join" ELSE "print")
            /\ awaited' = "child2"
  /\ UNCHANGED <<spin, lock, counter, i, register, childDone, printed>>

JoinWait ==
  /\ pc[Parent] = "joinWait"
  /\ Goto(Parent, IF childDone[awaited] = 1 THEN "joinAsleep" ELSE "join")
  /\ UNCHANGED data

waitChild == JoinLoad \/ JoinWait

PrintCounter ==
  /\ pc[Parent] = "print"
  /\ printed' = counter
  /\ Goto(Parent, "exited")
  /\ UNCHANGED <<spin, lock, counter, i, register, awaited, childDone>>

Ended == (\A t \in Threads : pc[t] \in {"exited", "killed"}) /\ UNCHANGED lockVars

LockNext ==
  \/ Clone \/ CloneFails
  \/ \E t \in Threads : Thread(t) \/ WakesForNothing(t)
  \/ \E c \in Children : Exit(c)
  \/ waitChild \/ PrintCounter
  \/ Ended

LockSpec == LockInit /\ [][LockNext]_lockVars

\* The scheduler runs every thread that is ready; no sleeper may count on
\* waking for nothing.
LockFairness ==
  /\ \A t \in Threads : WF_lockVars(Thread(t))
  /\ \A c \in Children : WF_lockVars(Exit(c))
  /\ WF_lockVars(Clone \/ CloneFails \/ waitChild \/ PrintCounter)

-----------------------------------------------------------------------------
\* The threads between takeLock's exchange and releaseLock's store.
Holders == {t \in Threads : pc[t] \in {"locked", "loaded", "release", "lastRelease"}}

Labels == {"clone1", "clone2", "unborn", "killed", "take", "spin", "wait", "asleep",
           "locked", "loaded", "release", "lastRelease", "wake", "lastWake", "exit",
           "exited", "join", "joinWait", "joinAsleep", "print"}

LockTypeOK ==
  /\ spin \in BOOLEAN
  /\ lock \in {UNLOCKED, LOCKED}
  /\ counter \in Int
  /\ pc \in [Threads -> Labels]
  /\ i \in [Threads -> 0 .. ITERATIONS]
  /\ register \in [Threads -> Int]
  /\ awaited \in Children
  /\ childDone \in [Children -> {0, 1}]
  /\ printed \in Int

(***************************************************************************)
(* No increment is lost: the parent prints three times ITERATIONS, though  *)
(* it has waited for the children only and never takes the lock again.     *)
(***************************************************************************)
EveryIncrementCounted == printed \in {-1, 3 * ITERATIONS}

(***************************************************************************)
(* No wake up is lost: every thread that runs comes to its end, whoever    *)
(* sleeps when the lock is released, and whichever thread takes it first.  *)
(***************************************************************************)
ThreadsFinish == <>(\A t \in Threads : pc[t] \in {"exited", "killed"})
=============================================================================
