--------------------------- MODULE CountDownLatch ---------------------------
(***************************************************************************)
(* tools/base/CountDownLatch: a counter guarded by a mutex, on which        *)
(* threads wait until it reaches zero.  Each method body is one critical    *)
(* section of m_mutex, except that wait() releases the mutex while it       *)
(* sleeps on m_cond: one action per critical section.  The module has no    *)
(* behaviour of its own; ThreadPool instantiates its actions.               *)
(***************************************************************************)
EXTENDS Integers

CONSTANTS Waiters,   \* the threads that may call wait()
          Count      \* the argument of the constructor

VARIABLES count,     \* m_count
          waitPc     \* where each waiter is in wait()

latchVars == <<count, waitPc>>

WaitPcs == {"outside", "test", "asleep", "passed"}

LatchInit == /\ count = Count
             /\ waitPc = [t \in Waiters |-> "outside"]

\* t calls wait() and is about to read m_count.
WaitBegin(t) == /\ waitPc[t] = "outside"
                /\ waitPc' = [waitPc EXCEPT ![t] = "test"]
                /\ UNCHANGED count

\* while(m_count > 0) m_cond.wait(ul): return, or release m_mutex and sleep.
WaitTest(t) == /\ waitPc[t] = "test"
               /\ waitPc' = [waitPc EXCEPT ![t] =
                               IF count > 0 THEN "asleep" ELSE "passed"]
               /\ UNCHANGED count

\* A condition variable may wake its sleeper for no reason.
WaitSpurious(t) == /\ waitPc[t] = "asleep"
                   /\ waitPc' = [waitPc EXCEPT ![t] = "test"]
                   /\ UNCHANGED count

NotifiesLate == count = 0
NotifiesAtZero == count = 1

\* The counter reaches zero exactly once on the way down: that call wakes all.
CountDown == /\ count' = count - 1
             /\ waitPc' = [t \in Waiters |->
                             IF waitPc[t] = "asleep" /\ NotifiesAtZero
                             THEN "test" ELSE waitPc[t]]

\* No waiter sleeps on a counter that is already down: the notification of
\* count_down() cannot fall between the test and the sleep of wait().
NoSleeperAtZero == count <= 0 => \A t \in Waiters : waitPc[t] # "asleep"
=============================================================================
