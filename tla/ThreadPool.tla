----------------------------- MODULE ThreadPool -----------------------------
(***************************************************************************)
(* tools/threadpool/ThreadPool: a fixed set of worker threads that serve a  *)
(* queue of tasks, one mutex and one condition variable.                    *)
(*                                                                         *)
(* Processes: the workers (thread_func), the threads that submit tasks      *)
(* (call), the thread that runs start() and the thread that runs stop()     *)
(* (the destructor calls it too; a second call returns at line 46).  stop() *)
(* is called once start() has left its loop over pthread_create: earlier    *)
(* the two would race on the vector m_threads.                              *)
(*                                                                         *)
(* m_stop is atomic but is written and broadcast WITHOUT m_mutex, so the    *)
(* worker loop is cut at every point where it can observe it.               *)
(***************************************************************************)
EXTENDS Integers, Sequences, FiniteSets

CONSTANTS Workers,            \* the threads start() creates
          Clients,            \* threads inside call()
          Tasks,              \* one element per submission: the bound on call()
          Starter,            \* the thread inside start()
          NoTask, NoThread,   \* no task held; mutex free, or a null pthread_t
          NullJoinOutcomes    \* what pthread_join does with a null handle

ASSUME PoolAssumption ==
    /\ IsFiniteSet(Workers) /\ IsFiniteSet(Clients)
    /\ NoThread \notin Workers
    /\ NoTask \notin Tasks
    /\ NullJoinOutcomes \subseteq {"crash", "error"}

VARIABLES pc,          \* where each worker is in thread_func
          task,        \* the task a worker has moved out of the queue
          mutex,       \* the worker that holds m_mutex across steps
          waitSet,     \* the workers asleep on m_cond
          taskQue, stop, runningNum, threads,
          count, waitPc,          \* m_latch
          startPc, stopPc, joined,  \* joined: handles stop() is through with
          callPc,
          submitted, finished,    \* history: tasks pushed, tasks run to the end
          crashed                 \* the process died in undefined behaviour

workerVars == <<pc, task, mutex, waitSet, taskQue, runningNum>>
latchVars == <<count, waitPc>>
ctlVars == <<stop, threads, startPc, stopPc, joined>>
callVars == <<callPc, submitted>>
vars == <<workerVars, latchVars, ctlVars, callVars, finished, crashed>>

ThreadNum == Cardinality(Workers)

Latch == INSTANCE CountDownLatch WITH Waiters <- {Starter}, Count <- ThreadNum

WorkerPcs == {"unborn", "lock", "test", "latch", "countDown", "sleep", "waiting",
              "decide", "pop", "taken", "running", "exited"}

TypeOK == /\ pc \in [Workers -> WorkerPcs]
          /\ task \in [Workers -> Tasks \union {NoTask}]
          /\ mutex \in Workers \union {NoThread}
          /\ waitSet \subseteq Workers
          /\ taskQue \in Seq(Tasks)
          /\ stop \in BOOLEAN
          /\ runningNum \in 0 .. ThreadNum
          /\ threads \in Seq(Workers \union {NoThread})
          /\ count \in 0 .. ThreadNum
          /\ waitPc \in [{Starter} -> Latch!WaitPcs]
          /\ startPc \in {"idle", "create", "latch", "up"}
          /\ stopPc \in {"idle", "broadcast", "join", "done"}
          /\ joined \in Nat
          /\ callPc \in [Clients -> {"idle", "signal", "check"}]
          /\ submitted \subseteq Tasks
          /\ finished \subseteq Tasks
          /\ crashed \in BOOLEAN

NullHandles == [i \in 1 .. ThreadNum |-> NoThread]

\* m_threads(numThreads) makes a vector that already holds numThreads null
\* handles; start() appends the real ones after them.
Init == /\ pc = [w \in Workers |-> "unborn"]
        /\ task = [w \in Workers |-> NoTask]
        /\ mutex = NoThread
        /\ waitSet = {}
        /\ taskQue = <<>>
        /\ stop = FALSE
        /\ runningNum = 0
        /\ threads = NullHandles
        /\ Latch!LatchInit
        /\ startPc = "idle" /\ stopPc = "idle" /\ joined = 0
        /\ callPc = [c \in Clients |-> "idle"]
        /\ submitted = {} /\ finished = {}
        /\ crashed = FALSE

\* What the two wake-ups of a condition variable leave of its sleepers.
WakesNone == {waitSet}
WakesAll == {{}}
WakesOne == IF waitSet = {} THEN {{}} ELSE {waitSet \ {w} : w \in waitSet}
AfterSignal == WakesOne
AfterBroadcast == WakesAll

Goto(w, from, to) == pc[w] = from /\ pc' = [pc EXCEPT ![w] = to]
-----------------------------------------------------------------------------
(* thread_func *)

\* pthread_mutex_lock at the head of the loop.
Lock(w) == /\ Goto(w, "lock", "test")
           /\ mutex = NoThread
           /\ mutex' = w
           /\ UNCHANGED <<task, waitSet, taskQue, runningNum>>
           /\ UNCHANGED <<latchVars, ctlVars, callVars, finished, crashed>>

\* while(!m_stop && m_taskQue.empty())
TestStay(w) == /\ ~stop /\ taskQue = <<>>
               /\ Goto(w, "test", "latch")

TestLeave(w) == /\ stop \/ taskQue # <<>>
                /\ Goto(w, "test", "decide")

Test(w) == /\ TestStay(w) \/ TestLeave(w)
           /\ UNCHANGED <<task, mutex, waitSet, taskQue, runningNum>>
           /\ UNCHANGED <<latchVars, ctlVars, callVars, finished, crashed>>

AlwaysPending == TRUE
LatchPending == count # 0

\* if(m_latch.get_count() != 0): the latch has a mutex of its own, so this and
\* the decrement are two critical sections of it.
GetCount(w) == /\ Goto(w, "latch", IF LatchPending THEN "countDown" ELSE "sleep")
               /\ UNCHANGED <<task, mutex, waitSet, taskQue, runningNum>>
               /\ UNCHANGED <<latchVars, ctlVars, callVars, finished, crashed>>

CountDown(w) == /\ Goto(w, "countDown", "sleep")
                /\ Latch!CountDown
                /\ UNCHANGED <<task, mutex, waitSet, taskQue, runningNum>>
                /\ UNCHANGED <<ctlVars, callVars, finished, crashed>>

\* pthread_cond_wait gives up the mutex and goes to sleep in one step.
Sleep(w) == /\ Goto(w, "sleep", "waiting")
            /\ mutex' = NoThread
            /\ waitSet' = waitSet \union {w}
            /\ UNCHANGED <<task, taskQue, runningNum>>
            /\ UNCHANGED <<latchVars, ctlVars, callVars, finished, crashed>>

SpuriousWake(w) == /\ w \in waitSet
                   /\ waitSet' = waitSet \ {w}
                   /\ UNCHANGED <<pc, task, mutex, taskQue, runningNum>>
                   /\ UNCHANGED <<latchVars, ctlVars, callVars, finished, crashed>>

\* A woken worker takes the mutex again inside pthread_cond_wait, then retests.
Wake(w) == /\ Goto(w, "waiting", "test")
           /\ w \notin waitSet
           /\ mutex = NoThread
           /\ mutex' = w
           /\ UNCHANGED <<task, waitSet, taskQue, runningNum>>
           /\ UNCHANGED <<latchVars, ctlVars, callVars, finished, crashed>>

\* if(m_stop): m_stop is read again after the loop.
DecideExit(w) == /\ stop
                 /\ Goto(w, "decide", "exited")
                 /\ mutex' = NoThread

DecidePop(w) == /\ ~stop
                /\ Goto(w, "decide", "pop")
                /\ UNCHANGED mutex

Decide(w) == /\ DecideExit(w) \/ DecidePop(w)
             /\ UNCHANGED <<task, waitSet, taskQue, runningNum>>
             /\ UNCHANGED <<latchVars, ctlVars, callVars, finished, crashed>>

TakeNewest(w) == /\ task' = [task EXCEPT ![w] = taskQue[Len(taskQue)]]
                 /\ taskQue' = SubSeq(taskQue, 1, Len(taskQue) - 1)
TakeOldest(w) == /\ task' = [task EXCEPT ![w] = Head(taskQue)]
                 /\ taskQue' = Tail(taskQue)

\* front(), pop() and the unlock.  Both are undefined on an empty queue, which
\* PopHasTask excludes.
Pop(w) == /\ Goto(w, "pop", "taken")
          /\ mutex' = NoThread
          /\ taskQue # <<>>
          /\ TakeOldest(w)
          /\ UNCHANGED <<waitSet, runningNum>>
          /\ UNCHANGED <<latchVars, ctlVars, callVars, finished, crashed>>

Begin(w) == /\ Goto(w, "taken", "running")
            /\ runningNum' = runningNum + 1
            /\ UNCHANGED <<task, mutex, waitSet, taskQue>>
            /\ UNCHANGED <<latchVars, ctlVars, callVars, finished, crashed>>

OneLessBusy == runningNum - 1

\* task() returns and the worker goes round its loop.
Finish(w) == /\ Goto(w, "running", "lock")
             /\ runningNum' = OneLessBusy
             /\ finished' = finished \union {task[w]}
             /\ task' = [task EXCEPT ![w] = NoTask]
             /\ UNCHANGED <<mutex, waitSet, taskQue>>
             /\ UNCHANGED <<latchVars, ctlVars, callVars, crashed>>

Acquire(w) == Lock(w) \/ Wake(w)

Proceed(w) == \/ Test(w) \/ GetCount(w) \/ CountDown(w) \/ Sleep(w)
              \/ Decide(w) \/ Pop(w) \/ Begin(w) \/ Finish(w)

WorkerStep(w) == Acquire(w) \/ Proceed(w) \/ SpuriousWake(w)
-----------------------------------------------------------------------------
(* call(task), by a client thread *)

\* lock, push, unlock: nothing else can happen to the queue in between.
Push(c, t) == /\ callPc[c] = "idle"
              /\ mutex = NoThread
              /\ t \notin submitted
              /\ submitted' = submitted \union {t}
              /\ taskQue' = Append(taskQue, t)
              /\ callPc' = [callPc EXCEPT ![c] = "signal"]
              /\ UNCHANGED <<pc, task, mutex, waitSet, runningNum>>
              /\ UNCHANGED <<latchVars, ctlVars, finished, crashed>>

\* pthread_cond_signal, after the unlock: wakes one sleeper if there is one.
Signal(c) == /\ callPc[c] = "signal"
             /\ callPc' = [callPc EXCEPT ![c] = "check"]
             /\ waitSet' \in AfterSignal
             /\ UNCHANGED <<pc, task, mutex, taskQue, runningNum>>
             /\ UNCHANGED <<latchVars, ctlVars, submitted, finished, crashed>>

\* Reads m_runningNum to decide whether to log that every thread is busy.
Check(c) == /\ callPc[c] = "check"
            /\ callPc' = [callPc EXCEPT ![c] = "idle"]
            /\ UNCHANGED <<workerVars, latchVars, ctlVars>>
            /\ UNCHANGED <<submitted, finished, crashed>>

ClientStep(c) == Signal(c) \/ Check(c) \/ \E t \in Tasks : Push(c, t)
-----------------------------------------------------------------------------
(* start() and stop() *)

StartBegin == /\ startPc = "idle"
              /\ startPc' = "create"
              /\ UNCHANGED <<workerVars, latchVars, callVars, finished, crashed>>
              /\ UNCHANGED <<stop, threads, stopPc, joined>>

Unrecorded(w) == threads
Recorded(w) == Append(threads, w)

\* pthread_create and push_back; the worker may run at once.
Create(w) == /\ startPc = "create"
             /\ Goto(w, "unborn", "lock")
             /\ threads' = Recorded(w)
             /\ UNCHANGED <<task, mutex, waitSet, taskQue, runningNum>>
             /\ UNCHANGED <<latchVars, callVars, finished, crashed>>
             /\ UNCHANGED <<stop, startPc, stopPc, joined>>

\* The loop is over: m_latch.wait().
StartWait == /\ startPc = "create"
             /\ \A w \in Workers : pc[w] # "unborn"
             /\ startPc' = "latch"
             /\ Latch!WaitBegin(Starter)
             /\ UNCHANGED <<workerVars, callVars, finished, crashed>>
             /\ UNCHANGED <<stop, threads, stopPc, joined>>

StartLatchTest == /\ Latch!WaitTest(Starter)
                  /\ UNCHANGED <<workerVars, ctlVars, callVars, finished, crashed>>

StartLatchSpurious == /\ Latch!WaitSpurious(Starter)
                      /\ UNCHANGED <<workerVars, ctlVars, callVars, finished, crashed>>

StartReturn == /\ startPc = "latch"
               /\ waitPc[Starter] = "passed"
               /\ startPc' = "up"
               /\ UNCHANGED <<workerVars, latchVars, callVars, finished, crashed>>
               /\ UNCHANGED <<stop, threads, stopPc, joined>>

\* if(m_stop) return; m_stop = true;  without m_mutex.
StopSet == /\ startPc \in {"latch", "up"}
           /\ stopPc = "idle" /\ ~stop
           /\ stop' = TRUE
           /\ stopPc' = "broadcast"
           /\ UNCHANGED <<workerVars, latchVars, callVars, finished, crashed>>
           /\ UNCHANGED <<threads, startPc, joined>>

StopBroadcast == /\ stopPc = "broadcast"
                 /\ stopPc' = "join"
                 /\ waitSet' \in AfterBroadcast
                 /\ UNCHANGED <<pc, task, mutex, taskQue, runningNum>>
                 /\ UNCHANGED <<latchVars, callVars, finished, crashed>>
                 /\ UNCHANGED <<stop, threads, startPc, joined>>

\* pthread_join on the next handle.  A null one is undefined behaviour: the C
\* library reads through it and dies, or returns an error nobody looks at.
JoinThread == threads[joined + 1] # NoThread /\ pc[threads[joined + 1]] = "exited"

StopJoinNull == /\ threads[joined + 1] = NoThread
                /\ \/ "error" \in NullJoinOutcomes /\ joined' = joined + 1 /\ UNCHANGED crashed
                   \/ "crash" \in NullJoinOutcomes /\ crashed' = TRUE /\ UNCHANGED joined

StopJoin == /\ stopPc = "join"
            /\ joined < Len(threads)
            /\ \/ JoinThread /\ joined' = joined + 1 /\ UNCHANGED crashed
               \/ StopJoinNull
            /\ UNCHANGED <<workerVars, latchVars, callVars, finished>>
            /\ UNCHANGED <<stop, threads, startPc, stopPc>>

StopClear == /\ stopPc = "join"
             /\ joined = Len(threads)
             /\ threads' = <<>>
             /\ joined' = 0
             /\ stopPc' = "done"
             /\ UNCHANGED <<workerVars, latchVars, callVars, finished, crashed>>
             /\ UNCHANGED <<stop, startPc>>

CreateSome == \E w \in Workers : Create(w)
StartStep == \/ StartBegin \/ CreateSome \/ StartWait
             \/ StartLatchTest \/ StartLatchSpurious \/ StartReturn
StopStep == StopBroadcast \/ StopJoin \/ StopClear

Alive == ~crashed

Next == /\ Alive
        /\ \/ \E w \in Workers : WorkerStep(w)
           \/ \E c \in Clients : ClientStep(c)
           \/ StartStep \/ StopSet \/ StopStep

Spec == Init /\ [][Next]_vars

\* Threads keep running, m_mutex is starvation-free, tasks return.  Nothing
\* forces anyone to call start(), call() or stop(), or a spurious wake-up.
Fairness ==
    /\ \A w \in Workers : /\ WF_vars(Alive /\ Proceed(w))
                          /\ SF_vars(Alive /\ Acquire(w))
    /\ \A c \in Clients : WF_vars(Alive /\ (Signal(c) \/ Check(c)))
    /\ WF_vars(Alive /\ (CreateSome \/ StartWait \/ StartReturn))
    /\ WF_vars(Alive /\ StartLatchTest)
    /\ WF_vars(Alive /\ StopStep)

FairSpec == Spec /\ Fairness
-----------------------------------------------------------------------------
(* Safety *)

Signallers == {c \in Clients : callPc[c] = "signal"}
Available == {w \in Workers \ waitSet : pc[w] \notin {"taken", "running"}}

\* While a worker sleeps on m_cond, every queued task has a worker on its way
\* to the queue or a signal still to be sent: no task waits behind a busy
\* worker while another worker sleeps.
WorkConserving == ~stop /\ waitSet # {} =>
    Len(taskQue) <= Cardinality(Signallers) + Cardinality(Available)

\* A worker about to pop finds a task, however the wake-ups and m_stop raced.
PopHasTask == \A w \in Workers : pc[w] = "pop" => taskQue # <<>>

\* Once stop() has joined its handles no thread of the pool is left running.
NoThreadSurvivesStop == stopPc = "done" => \A w \in Workers : pc[w] = "exited"

\* start() never sleeps on a latch that is already at zero.
LatchWakeNotLost == Latch!NoSleeperAtZero

\* When call() sees m_runningNum == m_threadNum, and so logs that every thread
\* is busy, every thread is inside a task.
BusyMeansAllBusy == runningNum = ThreadNum => \A w \in Workers : pc[w] = "running"

\* The pool implements the abstract queue: first in first out, each task once,
\* and at most one task handed out after stop() has set m_stop.
Pool == INSTANCE TaskQueue WITH
    Servers <- Workers, todo <- taskQue, serving <- task, closed <- stop,
    late <- stop /\ \E w \in Workers : pc[w] = "pop"

ServesInOrder == Pool!Spec
-----------------------------------------------------------------------------
(* Liveness, under FairSpec *)

InQueue(t) == \E i \in DOMAIN taskQue : taskQue[i] = t

\* A task queued in a started pool is run, unless the pool is stopped.
TaskServed == \A t \in Tasks :
    InQueue(t) /\ startPc # "idle" ~> t \in finished \/ stop

\* start() returns, unless the pool is stopped under it.
StartReturns == startPc = "latch" ~> startPc = "up" \/ stop

\* stop() returns.
StopTerminates == stopPc = "broadcast" ~> stopPc = "done"

Dozing == {w \in Workers : pc[w] \in {"latch", "countDown", "sleep"}}

\* stop() returns if, at some moment before its broadcast, no worker is between
\* its test of m_stop and its sleep, and if joining null handles does not end
\* the process.
StopReturnsUnlessDozing ==
    stopPc = "broadcast" /\ Dozing = {} ~> stopPc = "done" \/ crashed
=============================================================================
