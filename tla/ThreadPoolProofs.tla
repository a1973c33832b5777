-------------------------- MODULE ThreadPoolProofs --------------------------
(***************************************************************************)
(* Proofs about ThreadPool, for any finite sets of workers and clients and  *)
(* any set of tasks.  Inv is the inductive invariant the rest builds on: it *)
(* says what each point of thread_func knows about the mutex, the queue and *)
(* the latch.                                                               *)
(***************************************************************************)
EXTENDS ThreadPool, FiniteSetTheorems, SequenceTheorems, TLAPS

\* The points of thread_func at which the worker holds m_mutex.
Critical == {"test", "latch", "countDown", "sleep", "decide", "pop"}

Types == /\ pc \in [Workers -> WorkerPcs]
         /\ task \in [Workers -> Tasks \union {NoTask}]
         /\ mutex \in Workers \union {NoThread}
         /\ waitSet \subseteq Workers
         /\ taskQue \in Seq(Tasks)
         /\ stop \in BOOLEAN
         /\ threads \in Seq(Workers \union {NoThread})
         /\ count \in Nat /\ count <= ThreadNum
         /\ waitPc \in [{Starter} -> Latch!WaitPcs]
         /\ startPc \in {"idle", "create", "latch", "up"}
         /\ stopPc \in {"idle", "broadcast", "join", "done"}
         /\ joined \in Nat
         /\ callPc \in [Clients -> {"idle", "signal", "check"}]
         /\ submitted \subseteq Tasks
         /\ finished \subseteq Tasks
         /\ crashed \in BOOLEAN

MutexInv == \A w \in Workers : pc[w] \in Critical <=> mutex = w
WaitInv == \A w \in waitSet : pc[w] = "waiting"
TaskInv == \A w \in Workers : pc[w] \in {"taken", "running"} <=> task[w] # NoTask
StopInv == stopPc = "idle" <=> ~stop

\* A worker on its way to sleep has seen an empty queue, and nobody could push.
DozeInv == \A w \in Workers :
    pc[w] \in {"latch", "countDown", "sleep"} => taskQue = <<>>

\* The latch test is still valid at the decrement: m_mutex protects both.
CountInv == \A w \in Workers : pc[w] = "countDown" => count # 0

DecideInv == \A w \in Workers : pc[w] = "decide" => stop \/ taskQue # <<>>

StarterInv == waitPc[Starter] = "outside" <=> startPc \in {"idle", "create"}

Inv == /\ Types /\ MutexInv /\ WaitInv /\ TaskInv /\ StopInv /\ DozeInv
       /\ CountInv /\ DecideInv /\ PopHasTask /\ StarterInv /\ LatchWakeNotLost

\* The pool has a natural number of workers.
LEMMA ThreadNumNat == ThreadNum \in Nat
  BY PoolAssumption, FS_CardinalityType DEF ThreadNum

\* The constructor establishes the invariant.
LEMMA InitInv == Init => Inv
  <1> SUFFICES ASSUME Init PROVE Inv
    OBVIOUS
  <1> USE PoolAssumption, ThreadNumNat DEF Init
  <1>1. Types
    <2>1. NullHandles \in Seq(Workers \union {NoThread})
      <3>1. NullHandles \in [1 .. ThreadNum -> Workers \union {NoThread}]
        BY DEF NullHandles
      <3>2. QED
        BY <3>1, ThreadNumNat, SeqDef
    <2>2. taskQue \in Seq(Tasks)
      BY EmptySeq
    <2>3. count \in Nat /\ count <= ThreadNum /\ waitPc \in [{Starter} -> Latch!WaitPcs]
      BY DEF Latch!LatchInit, Latch!WaitPcs
    <2>4. /\ pc \in [Workers -> WorkerPcs]
          /\ task \in [Workers -> Tasks \union {NoTask}]
          /\ callPc \in [Clients -> {"idle", "signal", "check"}]
      BY DEF WorkerPcs
    <2>5. QED
      BY <2>1, <2>2, <2>3, <2>4 DEF Types
  <1>2. MutexInv /\ WaitInv /\ TaskInv /\ StopInv /\ DozeInv /\ CountInv /\ DecideInv
    BY DEF MutexInv, Critical, WaitInv, TaskInv, StopInv, DozeInv, CountInv, DecideInv
  <1>3. PopHasTask /\ StarterInv /\ LatchWakeNotLost
    BY DEF PopHasTask, StarterInv, LatchWakeNotLost, Latch!NoSleeperAtZero, Latch!LatchInit
  <1> QED
    BY <1>1, <1>2, <1>3 DEF Inv

\* thread_func keeps it.
LEMMA WorkerStepInv ==
  ASSUME Inv, NEW w \in Workers, WorkerStep(w)
  PROVE  Inv'
  <1> USE PoolAssumption, ThreadNumNat DEF Inv, Goto, latchVars, ctlVars, callVars
  <1> USE DEF Types, WorkerPcs, MutexInv, Critical, WaitInv, TaskInv, StopInv, DozeInv,
              CountInv, DecideInv, PopHasTask, StarterInv, LatchWakeNotLost,
              Latch!NoSleeperAtZero, Latch!WaitPcs
  <1>1. CASE Lock(w)
    BY <1>1 DEF Lock
  <1>2. CASE Test(w)
    BY <1>2 DEF Test, TestStay, TestLeave
  <1>3. CASE GetCount(w)
    BY <1>3 DEF GetCount, LatchPending
  <1>4. CASE CountDown(w)
    BY <1>4 DEF CountDown, Latch!CountDown, Latch!NotifiesAtZero
  <1>5. CASE Sleep(w)
    BY <1>5 DEF Sleep
  <1>6. CASE SpuriousWake(w)
    BY <1>6 DEF SpuriousWake
  <1>7. CASE Wake(w)
    BY <1>7 DEF Wake
  <1>8. CASE Decide(w)
    BY <1>8 DEF Decide, DecideExit, DecidePop
  <1>9. CASE Pop(w)
    BY <1>9 DEF Pop, TakeOldest
  <1>10. CASE Begin(w)
    BY <1>10 DEF Begin
  <1>11. CASE Finish(w)
    BY <1>11 DEF Finish
  <1> QED
    BY <1>1, <1>2, <1>3, <1>4, <1>5, <1>6, <1>7, <1>8, <1>9, <1>10, <1>11
    DEF WorkerStep, Acquire, Proceed

\* call() keeps it.
LEMMA ClientStepInv ==
  ASSUME Inv, NEW c \in Clients, ClientStep(c)
  PROVE  Inv'
  <1> USE PoolAssumption, ThreadNumNat DEF Inv, latchVars, ctlVars, workerVars
  <1> USE DEF Types, WorkerPcs, MutexInv, Critical, WaitInv, TaskInv, StopInv, DozeInv,
              CountInv, DecideInv, PopHasTask, StarterInv, LatchWakeNotLost,
              Latch!NoSleeperAtZero, Latch!WaitPcs
  <1>1. CASE Signal(c)
    BY <1>1 DEF Signal, AfterSignal, WakesOne
  <1>2. CASE Check(c)
    BY <1>2 DEF Check
  <1>3. ASSUME NEW t \in Tasks, Push(c, t)
        PROVE  Inv'
    <2>1. taskQue' \in Seq(Tasks) /\ taskQue' # <<>>
      BY <1>3 DEF Push
    <2>2. \A w \in Workers : pc[w] \notin Critical
      BY <1>3 DEF Push
    <2>3. QED
      BY <1>3, <2>1, <2>2 DEF Push
  <1> QED
    BY <1>1, <1>2, <1>3 DEF ClientStep

\* start() keeps it.
LEMMA StartStepInv ==
  ASSUME Inv, StartStep
  PROVE  Inv'
  <1> USE PoolAssumption, ThreadNumNat
      DEF Inv, Goto, latchVars, ctlVars, callVars, workerVars
  <1> USE DEF Types, WorkerPcs, MutexInv, Critical, WaitInv, TaskInv, StopInv, DozeInv,
              CountInv, DecideInv, PopHasTask, StarterInv, LatchWakeNotLost,
              Latch!NoSleeperAtZero, Latch!WaitPcs
  <1>1. CASE StartBegin
    BY <1>1 DEF StartBegin
  <1>2. ASSUME NEW w \in Workers, Create(w)
        PROVE  Inv'
    BY <1>2 DEF Create, Recorded
  <1>3. CASE StartWait
    BY <1>3 DEF StartWait, Latch!WaitBegin
  <1>4. CASE StartLatchTest
    BY <1>4 DEF StartLatchTest, Latch!WaitTest
  <1>5. CASE StartLatchSpurious
    BY <1>5 DEF StartLatchSpurious, Latch!WaitSpurious
  <1>6. CASE StartReturn
    BY <1>6 DEF StartReturn
  <1> QED
    BY <1>1, <1>2, <1>3, <1>4, <1>5, <1>6 DEF StartStep, CreateSome

\* stop() keeps it.
LEMMA StopStepInv ==
  ASSUME Inv, StopSet \/ StopStep
  PROVE  Inv'
  <1> USE PoolAssumption, ThreadNumNat DEF Inv, latchVars, callVars, workerVars
  <1> USE DEF Types, WorkerPcs, MutexInv, Critical, WaitInv, TaskInv, StopInv, DozeInv,
              CountInv, DecideInv, PopHasTask, StarterInv, LatchWakeNotLost,
              Latch!NoSleeperAtZero, Latch!WaitPcs
  <1>1. CASE StopSet
    BY <1>1 DEF StopSet
  <1>2. CASE StopBroadcast
    BY <1>2 DEF StopBroadcast, AfterBroadcast, WakesAll
  <1>3. CASE StopJoin
    <2>1. CASE JoinThread /\ joined' = joined + 1 /\ UNCHANGED crashed
      BY <1>3, <2>1 DEF StopJoin
    <2>2. CASE StopJoinNull
      <3>1. CASE joined' = joined + 1 /\ UNCHANGED crashed
        BY <1>3, <3>1 DEF StopJoin
      <3>2. CASE crashed' = TRUE /\ UNCHANGED joined
        BY <1>3, <3>2 DEF StopJoin
      <3>3. QED
        BY <2>2, <3>1, <3>2 DEF StopJoinNull
    <2>3. QED
      BY <1>3, <2>1, <2>2 DEF StopJoin
  <1>4. CASE StopClear
    BY <1>4 DEF StopClear
  <1> QED
    BY <1>1, <1>2, <1>3, <1>4 DEF StopStep

\* A stuttering step keeps it.
LEMMA StutterInv == Inv /\ UNCHANGED vars => Inv'
  BY DEF Inv, vars, workerVars, latchVars, ctlVars, callVars, Types, MutexInv, WaitInv,
         TaskInv, StopInv, DozeInv, CountInv, DecideInv, PopHasTask, StarterInv,
         LatchWakeNotLost, Latch!NoSleeperAtZero

\* What every point of the pool's code may rely on.
THEOREM Invariance == Spec => []Inv
  <1>1. Inv /\ [Next]_vars => Inv'
    BY WorkerStepInv, ClientStepInv, StartStepInv, StopStepInv, StutterInv DEF Next
  <1> QED
    BY InitInv, <1>1, PTL DEF Spec

\* No worker pops an empty queue: the loop of thread_func re-tests m_taskQue
\* after every wake-up.
THEOREM PopAlwaysHasTask == Spec => []PopHasTask
  BY Invariance, PTL DEF Inv

\* start() never sleeps in CountDownLatch::wait with the count at zero.
THEOREM LatchAlwaysWakes == Spec => []LatchWakeNotLost
  BY Invariance, PTL DEF Inv
-----------------------------------------------------------------------------
(* m_runningNum counts the workers inside a task *)

Running == {w \in Workers : pc[w] = "running"}
RunningInv == runningNum = Cardinality(Running)

\* No more workers run than there are, and all of them when the numbers agree.
LEMMA RunningFinite ==
  /\ IsFiniteSet(Running) /\ Cardinality(Running) \in 0 .. ThreadNum
  /\ Cardinality(Running) = ThreadNum => Running = Workers
  <1>1. Running \in SUBSET Workers
    BY DEF Running
  <1>2. /\ IsFiniteSet(Running) /\ Cardinality(Running) <= Cardinality(Workers)
        /\ Cardinality(Workers) = Cardinality(Running) => Workers = Running
    BY <1>1, FS_Subset, PoolAssumption
  <1> QED
    BY <1>2, FS_CardinalityType, PoolAssumption, ThreadNumNat DEF ThreadNum

\* Every step keeps m_runningNum exact.
LEMMA RunningStep ==
  ASSUME Inv, RunningInv, [Next]_vars
  PROVE  RunningInv'
  <1> USE DEF Inv, Types, Goto, latchVars, ctlVars, callVars, workerVars
  <1>1. ASSUME NEW w \in Workers, Begin(w)
        PROVE  RunningInv'
    <2>1. Running' = Running \union {w} /\ w \notin Running
      BY <1>1 DEF Begin, Running
    <2>2. QED
      BY <1>1, <2>1, RunningFinite, FS_AddElement DEF Begin, RunningInv
  <1>2. ASSUME NEW w \in Workers, Finish(w)
        PROVE  RunningInv'
    <2>1. Running' = Running \ {w} /\ w \in Running
      BY <1>2 DEF Finish, Running
    <2>2. QED
      BY <1>2, <2>1, RunningFinite, FS_RemoveElement DEF Finish, OneLessBusy, RunningInv
  <1>3. ASSUME NEW w \in Workers,
               \/ Lock(w) \/ Test(w) \/ GetCount(w) \/ CountDown(w) \/ Sleep(w)
               \/ SpuriousWake(w) \/ Wake(w) \/ Decide(w) \/ Pop(w)
        PROVE  RunningInv'
    <2>1. Running' = Running /\ UNCHANGED runningNum
      BY <1>3 DEF Lock, Test, TestStay, TestLeave, GetCount, CountDown, Sleep, SpuriousWake,
                  Wake, Decide, DecideExit, DecidePop, Pop, Running
    <2>2. QED
      BY <2>1 DEF RunningInv
  <1>4. CASE UNCHANGED <<pc, runningNum>>
    BY <1>4 DEF RunningInv, Running
  <1>5. ASSUME NEW c \in Clients, ClientStep(c)
        PROVE  UNCHANGED <<pc, runningNum>>
    BY <1>5 DEF ClientStep, Signal, Check, Push
  <1>6. ASSUME NEW w \in Workers, Create(w)
        PROVE  RunningInv'
    <2>1. Running' = Running /\ UNCHANGED runningNum
      BY <1>6 DEF Create, Running
    <2>2. QED
      BY <2>1 DEF RunningInv
  <1>7. CASE StartBegin \/ StartWait \/ StartLatchTest \/ StartLatchSpurious \/ StartReturn
    BY <1>4, <1>7 DEF StartBegin, StartWait, StartLatchTest, StartLatchSpurious, StartReturn
  <1>8. CASE StopSet \/ StopStep
    BY <1>4, <1>8 DEF StopSet, StopStep, StopBroadcast, StopJoin, StopClear
  <1>9. CASE UNCHANGED vars
    BY <1>4, <1>9 DEF vars
  <1> QED
    BY <1>1, <1>2, <1>3, <1>4, <1>5, <1>6, <1>7, <1>8, <1>9
    DEF Next, WorkerStep, Acquire, Proceed, StartStep, CreateSome

\* m_runningNum counts the workers between their ++ and their -- of it.
THEOREM RunningExact == Spec => []RunningInv
  <1>1. Init => RunningInv
    <2>1. Init => Running = {}
      BY DEF Init, Running
    <2>2. QED
      BY <2>1, FS_EmptySet DEF Init, RunningInv
  <1> QED
    BY <1>1, RunningStep, Invariance, PTL DEF Spec

\* The variables keep their types, the latch never counts below zero and the
\* number of busy workers stays within the pool.
THEOREM TypeCorrect == Spec => []TypeOK
  <1>1. Inv /\ RunningInv => TypeOK
    BY RunningFinite, ThreadNumNat DEF Inv, Types, RunningInv, TypeOK
  <1> QED
    BY <1>1, Invariance, RunningExact, PTL

\* The warning of call() that every thread is busy is never false.
THEOREM BusyWarningTrue == Spec => []BusyMeansAllBusy
  <1>1. RunningInv => BusyMeansAllBusy
    BY RunningFinite DEF RunningInv, BusyMeansAllBusy, Running
  <1> QED
    BY <1>1, RunningExact, PTL
-----------------------------------------------------------------------------
(* No task waits behind a busy worker while another worker sleeps *)

\* Signallers and available workers are finite sets.
LEMMA WorkFinite ==
  /\ IsFiniteSet(Available) /\ Cardinality(Available) \in Nat
  /\ IsFiniteSet(Signallers) /\ Cardinality(Signallers) \in Nat
  <1>1. Available \in SUBSET Workers /\ Signallers \in SUBSET Clients
    BY DEF Available, Signallers
  <1> QED
    BY <1>1, FS_Subset, FS_CardinalityType, PoolAssumption

\* A step that leaves the queue alone and takes nobody away from it.
LEMMA WorkKept ==
  ASSUME Inv, Inv', WorkConserving, taskQue' = taskQue,
         stop => stop',
         waitSet' # {} => waitSet # {},
         Signallers \subseteq Signallers', Available \subseteq Available'
  PROVE  WorkConserving'
  <1>1. /\ IsFiniteSet(Available') /\ Cardinality(Available') \in Nat
        /\ IsFiniteSet(Signallers') /\ Cardinality(Signallers') \in Nat
    <2>1. Available' \in SUBSET Workers /\ Signallers' \in SUBSET Clients
      BY DEF Available, Signallers
    <2>2. QED
      BY <2>1, FS_Subset, FS_CardinalityType, PoolAssumption
  <1>2. /\ Cardinality(Available) <= Cardinality(Available')
        /\ Cardinality(Signallers) <= Cardinality(Signallers')
    BY <1>1, FS_Subset
  <1>3. Len(taskQue) \in Nat
    BY DEF Inv, Types
  <1> QED
    BY <1>1, <1>2, <1>3, WorkFinite DEF WorkConserving

\* Every step keeps the balance of tasks, signals and free workers.
LEMMA WorkStep ==
  ASSUME Inv, Inv', WorkConserving, [Next]_vars
  PROVE  WorkConserving'
  <1> USE DEF Inv, Types, Goto, latchVars, ctlVars, callVars, workerVars
  <1>1. ASSUME NEW w \in Workers,
               \/ Lock(w) \/ Test(w) \/ GetCount(w) \/ CountDown(w) \/ SpuriousWake(w)
               \/ Wake(w) \/ Decide(w) \/ Begin(w) \/ Finish(w)
        PROVE  WorkConserving'
    <2>1. taskQue' = taskQue /\ stop' = stop /\ waitSet' \subseteq waitSet /\ callPc' = callPc
      BY <1>1 DEF Lock, Test, GetCount, CountDown, SpuriousWake, Wake, Decide, Begin, Finish
    <2>2. Available \subseteq Available'
      BY <1>1, <2>1 DEF Lock, Test, TestStay, TestLeave, GetCount, CountDown, SpuriousWake,
                        Wake, Decide, DecideExit, DecidePop, Begin, Finish, Available
    <2>3. QED
      BY <2>1, <2>2, WorkKept DEF Signallers
  <1>2. ASSUME NEW w \in Workers, Sleep(w)
        PROVE  WorkConserving'
    <2>1. taskQue' = <<>>
      BY <1>2 DEF Sleep, DozeInv
    <2>2. Len(taskQue') = 0
      BY <2>1
    <2>3. Cardinality(Signallers') \in Nat /\ Cardinality(Available') \in Nat
      <3>1. Available' \in SUBSET Workers /\ Signallers' \in SUBSET Clients
        BY DEF Available, Signallers
      <3>2. QED
        BY <3>1, FS_Subset, FS_CardinalityType, PoolAssumption
    <2>4. QED
      BY <2>2, <2>3 DEF WorkConserving
  <1>3. ASSUME NEW w \in Workers, Pop(w)
        PROVE  WorkConserving'
    <2>1. Available' = Available \ {w} /\ w \in Available
      BY <1>3 DEF Pop, Available, WaitInv
    <2>2. Cardinality(Available') = Cardinality(Available) - 1
      BY <2>1, WorkFinite, FS_RemoveElement
    <2>3. Len(taskQue') = Len(taskQue) - 1 /\ Len(taskQue) \in Nat
      BY <1>3, HeadTailProperties DEF Pop, TakeOldest
    <2>4. UNCHANGED <<stop, waitSet, callPc>>
      BY <1>3 DEF Pop
    <2>5. Signallers' = Signallers
      BY <2>4 DEF Signallers
    <2>6. QED
      BY <2>2, <2>3, <2>4, <2>5, WorkFinite DEF WorkConserving
  <1>4. ASSUME NEW c \in Clients, NEW t \in Tasks, Push(c, t)
        PROVE  WorkConserving'
    <2>1. Signallers' = Signallers \union {c} /\ c \notin Signallers
      BY <1>4 DEF Push, Signallers
    <2>2. Cardinality(Signallers') = Cardinality(Signallers) + 1
      BY <2>1, WorkFinite, FS_AddElement
    <2>3. Len(taskQue') = Len(taskQue) + 1 /\ Len(taskQue) \in Nat
      BY <1>4, AppendProperties DEF Push
    <2>4. UNCHANGED <<stop, waitSet, pc>>
      BY <1>4 DEF Push
    <2>5. Available' = Available
      BY <2>4 DEF Available
    <2>6. QED
      BY <2>2, <2>3, <2>4, <2>5, WorkFinite DEF WorkConserving
  <1>5. ASSUME NEW c \in Clients, Signal(c)
        PROVE  WorkConserving'
    <2>1. CASE waitSet = {}
      BY <1>5, <2>1 DEF Signal, AfterSignal, WakesOne, WorkConserving
    <2>2. ASSUME NEW w \in waitSet, waitSet' = waitSet \ {w}
          PROVE  WorkConserving'
      <3>1. Signallers' = Signallers \ {c} /\ c \in Signallers
        BY <1>5 DEF Signal, Signallers
      <3>2. Available' = Available \union {w} /\ w \notin Available
        BY <1>5, <2>2 DEF Signal, Available, WaitInv
      <3>3. /\ Cardinality(Signallers') = Cardinality(Signallers) - 1
            /\ Cardinality(Available') = Cardinality(Available) + 1
        BY <3>1, <3>2, WorkFinite, FS_AddElement, FS_RemoveElement
      <3>4. UNCHANGED <<stop, taskQue>> /\ waitSet # {} /\ Len(taskQue) \in Nat
        BY <1>5, <2>2 DEF Signal
      <3>5. QED
        BY <3>3, <3>4, WorkFinite DEF WorkConserving
    <2>3. QED
      BY <1>5, <2>1, <2>2 DEF Signal, AfterSignal, WakesOne
  <1>6. ASSUME NEW c \in Clients, Check(c)
        PROVE  WorkConserving'
    <2>1. UNCHANGED <<taskQue, stop, waitSet, pc>> /\ Signallers \subseteq Signallers'
      BY <1>6 DEF Check, Signallers
    <2>2. QED
      BY <2>1, WorkKept DEF Available
  <1>7. CASE StartStep
    <2>1. UNCHANGED <<taskQue, stop, waitSet, callPc>>
      BY <1>7 DEF StartStep, StartBegin, CreateSome, Create, StartWait, StartLatchTest,
                  StartLatchSpurious, StartReturn
    <2>2. Available \subseteq Available'
      BY <1>7, <2>1 DEF StartStep, StartBegin, CreateSome, Create, StartWait, StartLatchTest,
                        StartLatchSpurious, StartReturn, Available
    <2>3. QED
      BY <2>1, <2>2, WorkKept DEF Signallers
  <1>8. CASE StopSet
    BY <1>8 DEF StopSet, WorkConserving
  <1>9. CASE StopBroadcast
    BY <1>9 DEF StopBroadcast, AfterBroadcast, WakesAll, WorkConserving
  <1>10. CASE StopJoin \/ StopClear \/ UNCHANGED vars
    <2>1. UNCHANGED <<taskQue, stop, waitSet, callPc, pc>>
      BY <1>10 DEF StopJoin, StopClear, vars
    <2>2. QED
      BY <2>1, WorkKept DEF Signallers, Available
  <1> QED
    BY <1>1, <1>2, <1>3, <1>4, <1>5, <1>6, <1>7, <1>8, <1>9, <1>10
    DEF Next, WorkerStep, Acquire, Proceed, ClientStep, StopStep

\* No task waits behind busy workers while another worker sleeps, whatever the
\* order of pushes, signals, spurious wake-ups and pops.
THEOREM WorkIsConserved == Spec => []WorkConserving
  <1>1. Init => WorkConserving
    BY DEF Init, WorkConserving
  <1> QED
    BY <1>1, WorkStep, Invariance, PTL DEF Spec
-----------------------------------------------------------------------------
(* stop() returns only when every thread of the pool has left thread_func *)

Position(w) == \E i \in 1 .. Len(threads) : threads[i] = w

JoinInv ==
    /\ stopPc # "idle" => startPc \in {"latch", "up"}
    /\ startPc \in {"latch", "up"} => \A w \in Workers : pc[w] # "unborn"
    /\ stopPc \in {"idle", "broadcast"} => joined = 0
    /\ joined <= Len(threads)
    /\ stopPc # "done" => \A w \in Workers : pc[w] # "unborn" => Position(w)
    /\ stopPc # "done" => \A i \in 1 .. joined :
                            threads[i] # NoThread => pc[threads[i]] = "exited"
    /\ NoThreadSurvivesStop

\* No handle is joined at first.
LEMMA JoinInit == Init => JoinInv
  <1> SUFFICES ASSUME Init PROVE JoinInv
    OBVIOUS
  <1>1. NullHandles \in Seq({NoThread}) /\ Len(NullHandles) = ThreadNum
    <2>1. NullHandles \in [1 .. ThreadNum -> {NoThread}]
      BY DEF NullHandles
    <2>2. QED
      BY <2>1, ThreadNumNat, SeqDef, LenProperties
  <1> QED
    BY <1>1, ThreadNumNat DEF Init, JoinInv, NoThreadSurvivesStop

\* A step that joins and creates nothing keeps what is known of the handles.
LEMMA JoinKept ==
  ASSUME Inv, JoinInv, UNCHANGED <<threads, stopPc, joined>>,
         \A v \in Workers : /\ pc[v] = "exited" => pc'[v] = "exited"
                            /\ pc[v] = "unborn" <=> pc'[v] = "unborn",
         stopPc # "idle" => startPc' \in {"latch", "up"},
         startPc' \in {"latch", "up"} =>
             startPc \in {"latch", "up"} \/ \A w \in Workers : pc[w] # "unborn"
  PROVE  JoinInv'
  <1>1. \A i \in 1 .. Len(threads) : threads[i] \in Workers \union {NoThread}
    BY ElementOfSeq DEF Inv, Types
  <1>2. stopPc # "done" => \A i \in 1 .. joined :
                              threads[i] # NoThread => pc'[threads[i]] = "exited"
    <2> SUFFICES ASSUME stopPc # "done", NEW i \in 1 .. joined, threads[i] # NoThread
                 PROVE  pc'[threads[i]] = "exited"
      OBVIOUS
    <2>1. threads[i] \in Workers
      BY <1>1, LenProperties DEF JoinInv, Inv, Types
    <2>2. QED
      BY <2>1 DEF JoinInv
  <1>3. stopPc # "done" => \A w \in Workers : pc'[w] # "unborn" => Position(w)
    BY DEF JoinInv
  <1>4. stopPc = "done" => \A w \in Workers : pc'[w] = "exited"
    BY DEF JoinInv, NoThreadSurvivesStop
  <1> QED
    BY <1>2, <1>3, <1>4 DEF JoinInv, Position, NoThreadSurvivesStop

\* Worker steps never leave "exited" and never enter or leave "unborn".
LEMMA JoinWorker ==
  ASSUME Inv, JoinInv, NEW w \in Workers, WorkerStep(w)
  PROVE  JoinInv'
  <1>1. /\ UNCHANGED <<threads, startPc, stopPc, joined>>
        /\ \A v \in Workers : /\ pc[v] = "exited" => pc'[v] = "exited"
                              /\ pc[v] = "unborn" <=> pc'[v] = "unborn"
    BY DEF WorkerStep, Acquire, Proceed, Lock, Test, TestStay, TestLeave, GetCount,
           CountDown, Sleep, SpuriousWake, Wake, Decide, DecideExit,
           DecidePop, Pop, Begin, Finish, Inv, Types, Goto, ctlVars
  <1>2. UNCHANGED <<threads, stopPc, joined>> /\ startPc' = startPc
    BY <1>1
  <1>3. stopPc # "idle" => startPc' \in {"latch", "up"}
    BY <1>2 DEF JoinInv
  <1>4. startPc' \in {"latch", "up"} =>
           startPc \in {"latch", "up"} \/ \A v \in Workers : pc[v] # "unborn"
    BY <1>2
  <1> QED
    BY <1>1, <1>2, <1>3, <1>4, JoinKept

\* start() records a handle for each thread it creates.
LEMMA JoinCreate ==
  ASSUME Inv, JoinInv, NEW w \in Workers, Create(w)
  PROVE  JoinInv'
  <1> USE DEF Inv, Types, Goto, Create, Recorded
  <1>1. stopPc = "idle" /\ joined = 0
    BY DEF JoinInv
  <1>2. /\ Len(threads') = Len(threads) + 1 /\ threads'[Len(threads) + 1] = w
        /\ \A i \in 1 .. Len(threads) : threads'[i] = threads[i]
    BY AppendProperties
  <1>3. ASSUME NEW v \in Workers, pc'[v] # "unborn"
        PROVE  Position(v)'
    <2>1. CASE v = w
      BY <1>2, <2>1, LenProperties DEF Position
    <2>2. CASE v # w
      BY <1>1, <1>2, <1>3, <2>2, LenProperties DEF Position, JoinInv
    <2>3. QED
      BY <2>1, <2>2
  <1>4. /\ startPc' = "create" /\ stopPc' = "idle" /\ joined' = 0
        /\ 0 <= Len(threads')
    BY <1>1, <1>2, LenProperties
  <1>5. \A i \in 1 .. joined' : FALSE
    BY <1>4
  <1> QED
    BY <1>3, <1>4, <1>5 DEF JoinInv, NoThreadSurvivesStop

\* stop() joins the handles in their order.
LEMMA JoinStop ==
  ASSUME Inv, JoinInv, StopSet \/ StopStep
  PROVE  JoinInv'
  <1> USE DEF Inv, Types, workerVars
  <1>1. CASE StopSet \/ StopBroadcast
    <2>1. /\ UNCHANGED <<pc, threads, startPc, joined>> /\ stopPc' \in {"broadcast", "join"}
          /\ startPc \in {"latch", "up"} /\ stopPc \in {"idle", "broadcast"}
      BY <1>1 DEF StopSet, StopBroadcast, JoinInv
    <2>2. joined' = 0
      BY <2>1 DEF JoinInv
    <2>3. QED
      BY <2>1, <2>2 DEF JoinInv, Position, NoThreadSurvivesStop
  <1>2. CASE StopJoin
    <2>1. /\ UNCHANGED <<pc, threads, startPc, stopPc>> /\ stopPc = "join"
          /\ joined < Len(threads)
      BY <1>2 DEF StopJoin
    <2>2. \/ joined' = joined
          \/ /\ joined' = joined + 1
             /\ threads[joined + 1] # NoThread => pc[threads[joined + 1]] = "exited"
      BY <1>2 DEF StopJoin, StopJoinNull, JoinThread
    <2>3. QED
      BY <2>1, <2>2, LenProperties DEF JoinInv, Position, NoThreadSurvivesStop
  <1>3. CASE StopClear
    <2>1. \A w \in Workers : pc[w] = "exited"
      <3> SUFFICES ASSUME NEW w \in Workers PROVE pc[w] = "exited"
        OBVIOUS
      <3>1. PICK i \in 1 .. Len(threads) : threads[i] = w
        BY <1>3 DEF StopClear, JoinInv, Position
      <3>2. QED
        BY <1>3, <3>1, PoolAssumption DEF StopClear, JoinInv
    <2>2. threads' = <<>> /\ joined' = 0 /\ stopPc' = "done" /\ UNCHANGED <<pc, startPc>>
      BY <1>3 DEF StopClear
    <2>3. Len(threads') = 0
      BY <2>2
    <2>4. startPc \in {"latch", "up"}
      BY <1>3 DEF StopClear, JoinInv
    <2>5. QED
      BY <2>1, <2>2, <2>3, <2>4 DEF JoinInv, NoThreadSurvivesStop
  <1> QED
    BY <1>1, <1>2, <1>3 DEF StopStep

\* Every step keeps joined handles those of exited threads.
LEMMA JoinStep ==
  ASSUME Inv, JoinInv, [Next]_vars
  PROVE  JoinInv'
  <1> USE DEF ctlVars, workerVars
  <1>1. ASSUME NEW c \in Clients, ClientStep(c)
        PROVE  UNCHANGED <<pc, ctlVars>>
    BY <1>1 DEF ClientStep, Signal, Check, Push
  <1>2. CASE StartLatchTest \/ StartLatchSpurious \/ UNCHANGED vars
    BY <1>2 DEF StartLatchTest, StartLatchSpurious, vars, JoinInv, Position,
                NoThreadSurvivesStop
  <1>3. CASE UNCHANGED <<pc, ctlVars>>
    BY <1>3 DEF JoinInv, Position, NoThreadSurvivesStop
  <1>4. CASE StartBegin \/ StartWait \/ StartReturn
    <2>1. UNCHANGED <<pc, threads, stopPc, joined>>
      BY <1>4 DEF StartBegin, StartWait, StartReturn
    <2>2. stopPc # "idle" => startPc' \in {"latch", "up"}
      BY <1>4 DEF StartBegin, StartWait, StartReturn, JoinInv
    <2>3. startPc' \in {"latch", "up"} =>
             startPc \in {"latch", "up"} \/ \A w \in Workers : pc[w] # "unborn"
      BY <1>4 DEF StartBegin, StartWait, StartReturn
    <2>4. QED
      BY <2>1, <2>2, <2>3, JoinKept
  <1> QED
    BY <1>1, <1>2, <1>3, <1>4, JoinWorker, JoinCreate, JoinStop
    DEF Next, StartStep, CreateSome

\* When stop() returns, every thread start() created has left thread_func.
THEOREM StopJoinsAll == Spec => []NoThreadSurvivesStop
  <1>1. JoinInv => NoThreadSurvivesStop
    BY DEF JoinInv
  <1> QED
    BY <1>1, JoinInit, JoinStep, Invariance, PTL DEF Spec
-----------------------------------------------------------------------------
(* The pool implements TaskQueue *)

\* Every step is one of the abstract queue, or changes nothing it sees.
LEMMA QueueStep ==
  ASSUME Inv, Inv', [Next]_vars
  PROVE  [Pool!Next]_Pool!queueVars
  <1> USE DEF Inv, Types, Goto, latchVars, ctlVars, callVars, workerVars
  <1> DEFINE late == stop /\ \E w \in Workers : pc[w] = "pop"
             kept == UNCHANGED <<taskQue, task, finished, submitted, stop>>
  <1>1. ASSUME kept, late' = late
        PROVE  UNCHANGED Pool!queueVars
    BY <1>1 DEF Pool!queueVars
  <1>2. ASSUME NEW w \in Workers,
               \/ Lock(w) \/ Test(w) \/ GetCount(w) \/ CountDown(w) \/ Sleep(w)
               \/ SpuriousWake(w) \/ Wake(w) \/ Decide(w) \/ Begin(w)
        PROVE  UNCHANGED Pool!queueVars
    <2>1. kept
      BY <1>2 DEF Lock, Test, GetCount, CountDown, Sleep, SpuriousWake, Wake, Decide, Begin
    <2>2. stop => \A v \in Workers : pc'[v] = "pop" <=> pc[v] = "pop"
      BY <1>2 DEF Lock, Test, TestStay, TestLeave, GetCount, CountDown, Sleep, SpuriousWake,
                  Wake, Decide, DecideExit, DecidePop, Begin
    <2>3. QED
      BY <1>1, <2>1, <2>2
  <1>3. ASSUME NEW w \in Workers, Pop(w)
        PROVE  Pool!Dispatch(w)
    <2>1. \A v \in Workers : pc'[v] # "pop"
      BY <1>3 DEF Pop, MutexInv, Critical
    <2>2. task[w] = NoTask
      BY <1>3 DEF Pop, TaskInv
    <2>3. QED
      BY <1>3, <2>1, <2>2 DEF Pop, TakeOldest, Pool!Dispatch
  <1>4. ASSUME NEW w \in Workers, Finish(w)
        PROVE  Pool!Finish(w)
    <2>1. \A v \in Workers : pc'[v] = "pop" <=> pc[v] = "pop"
      BY <1>4 DEF Finish
    <2>2. QED
      BY <1>4, <2>1 DEF Finish, TaskInv, Pool!Finish
  <1>5. ASSUME NEW c \in Clients, NEW t \in Tasks, Push(c, t)
        PROVE  Pool!Submit(t)
    BY <1>5 DEF Push, Pool!Submit
  <1>6. ASSUME NEW c \in Clients, Signal(c) \/ Check(c)
        PROVE  UNCHANGED Pool!queueVars
    BY <1>6 DEF Signal, Check, Pool!queueVars
  <1>7. CASE StartStep
    <2>1. kept /\ \A v \in Workers : pc'[v] = "pop" <=> pc[v] = "pop"
      BY <1>7 DEF StartStep, StartBegin, CreateSome, Create, StartWait, StartLatchTest,
                  StartLatchSpurious, StartReturn
    <2>2. QED
      BY <1>1, <2>1
  <1>8. CASE StopSet
    <2>1. late' \in BOOLEAN /\ UNCHANGED <<taskQue, task, finished, submitted>>
      BY <1>8 DEF StopSet
    <2>2. ~stop /\ stop' = TRUE
      BY <1>8 DEF StopSet
    <2>3. Pool!Close
      BY <2>1, <2>2 DEF Pool!Close
    <2>4. QED
      BY <2>3 DEF Pool!Next
  <1>9. CASE StopStep \/ UNCHANGED vars
    BY <1>9 DEF StopStep, StopBroadcast, StopJoin, StopClear, vars, Pool!queueVars
  <1> QED
    BY <1>2, <1>3, <1>4, <1>5, <1>6, <1>7, <1>8, <1>9
    DEF Next, WorkerStep, Acquire, Proceed, ClientStep, Pool!Next

\* The pool implements the abstract task queue: tasks are handed out in the
\* order of their submission, each once, and at most one after stop().
THEOREM PoolServesInOrder == Spec => ServesInOrder
  <1>1. Init => Pool!Init
    BY DEF Init, Pool!Init
  <1> QED
    BY <1>1, QueueStep, Invariance, PTL DEF Spec, ServesInOrder, Pool!Spec
=============================================================================
