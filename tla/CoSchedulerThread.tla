-------------------------- MODULE CoSchedulerThread --------------------------
(***************************************************************************)
(* tools/coroutine/CoSchedulerThread: an owner starts a thread whose stack  *)
(* holds a CoScheduler, waits on a condition variable until the thread has  *)
(* published its address, uses it, and in the destructor calls quit() and   *)
(* joins.  tools/timer/TimerSchedulerThread has the same code around a      *)
(* TimerScheduler.                                                          *)
(*                                                                         *)
(* The scheduler's thread may also create coroutines before start(): the    *)
(* wrapper never does, a program that holds a CoScheduler itself does.      *)
(***************************************************************************)
EXTENDS CoScheduler

VARIABLES scheduler,   \* TRUE: m_scheduler is not null
          ownerPc

ownerVars == <<scheduler, ownerPc>>
vars == <<coVars, ownerVars>>

TypeOK == /\ CoTypeOK
          /\ scheduler \in BOOLEAN
          /\ ownerPc \in {"begin", "test", "asleep", "using", "joining", "done"}

Init == CoInit /\ scheduler = FALSE /\ ownerPc = "begin"

Goto(from, to) == loopPc = from /\ loopPc' = to

OnlyLoopPc == UNCHANGED <<coStore, coNum, curCo, pos, pendingTasks, quit,
                          created, finished, served>>
-----------------------------------------------------------------------------
(* The owner *)

OwnerStart == /\ ownerPc = "begin"
              /\ ownerPc' = "test"
              /\ Goto("unborn", "built")
              /\ OnlyLoopPc /\ UNCHANGED scheduler

\* while(m_scheduler == nullptr) m_cond.wait(ul)
OwnerTest == /\ ownerPc = "test"
             /\ ownerPc' = IF scheduler THEN "using" ELSE "asleep"
             /\ UNCHANGED <<coVars, scheduler>>

OwnerSpurious == /\ ownerPc = "asleep"
                 /\ ownerPc' = "test"
                 /\ UNCHANGED <<coVars, scheduler>>

OwnerCreate == /\ ownerPc = "using" /\ loopPc # "ended"
               /\ \E t \in Tasks : Queue(t)
               /\ UNCHANGED ownerVars

\* ~CoSchedulerThread: quit(), then join.
OwnerQuit == /\ ownerPc = "using"
             /\ ownerPc' = "joining"
             /\ QuitLoop
             /\ UNCHANGED scheduler

OwnerJoin == /\ ownerPc = "joining" /\ loopPc = "ended"
             /\ ownerPc' = "done"
             /\ UNCHANGED <<coVars, scheduler>>
-----------------------------------------------------------------------------
(* thread_func *)

Publish == /\ Goto("built", "notify")
           /\ scheduler' = TRUE
           /\ OnlyLoopPc /\ UNCHANGED ownerPc

Notify == /\ Goto("notify", "idle")
          /\ ownerPc' = IF ownerPc = "asleep" THEN "test" ELSE ownerPc
          /\ OnlyLoopPc /\ UNCHANGED scheduler

SetUp == \E t \in Tasks : CreateDirect(t)

InThread(A) == A /\ UNCHANGED ownerVars

Next == \/ OwnerStart \/ OwnerTest \/ OwnerSpurious \/ OwnerCreate \/ OwnerQuit \/ OwnerJoin
        \/ Publish \/ Notify
        \/ InThread(SetUp) \/ InThread(StartLoop) \/ InThread(LoopStep)
        \/ InThread(SwitchBack) \/ InThread(CoCreate) \/ InThread(CoQuit)

Spec == Init /\ [][Next]_vars

Loops == (StartLoop \/ LoopStep \/ SwitchBack) /\ UNCHANGED ownerVars

\* Both threads keep running and a coroutine yields or returns in the end;
\* nobody has to create, quit or wake up spuriously.
FairSpec == /\ Spec
            /\ WF_vars(OwnerTest) /\ WF_vars(OwnerJoin)
            /\ WF_vars(Publish \/ Notify) /\ WF_vars(Loops)
-----------------------------------------------------------------------------
(* Liveness, under FairSpec *)

\* A queued task becomes a coroutine and runs, unless the loop is told to quit.
QueuedRuns == \A t \in Tasks :
    t \in TasksPending ~> t \in TasksIn({"RUNNING"}) \/ quit

\* A coroutine that has yielded gets the thread again, unless the loop is told
\* to quit.
YieldedResumes == \A t \in Tasks :
    t \in TasksIn({"SUSPENDED"}) ~> t \in TasksIn({"RUNNING"}) \/ quit

\* The destructor returns once its quit() meets a loop that has begun.
RunningLoopIsJoined ==
    ownerPc = "joining" /\ quit /\ loopPc # "idle" /\ loopPc # "notify" ~> ownerPc = "done"

\* The destructor returns.
DestructorReturns == ownerPc = "joining" ~> ownerPc = "done"
=============================================================================
