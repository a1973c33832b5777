-------------------------- MODULE CoSchedulerProofs --------------------------
(***************************************************************************)
(* Theorems about CoSchedulerThread for any set of tasks.                   *)
(*                                                                         *)
(* IInv is inductive.  StatusInv says what the status of a coroutine tells  *)
(* of the scheduler's thread, PosInv what the iterator may point to, and    *)
(* ScanInv that the scan has switched to every coroutine it has passed.     *)
(* The last rests on After being the least number above another one, for    *)
(* which the numbers must be well-founded (AfterIsNext).                    *)
(***************************************************************************)
EXTENDS CoSchedulerThread, WellFoundedInduction, TLAPS

InCoroutine == loopPc = "coroutine"
Scanning == loopPc \in {"scan", "coroutine", "after"}
Alive == {"READY", "SUSPENDED", "RUNNING"}

StatusInv == \A n \in Numbers :
    /\ coStore[n].status = "RUNNING" <=> InCoroutine /\ n = pos
    /\ coStore[n].status = "FINISHED" <=> loopPc = "after" /\ n = pos /\ curCo = -1

PosInv == /\ InCoroutine => curCo = pos
          /\ loopPc = "after" => curCo \in {-1, pos}
          /\ loopPc \in {"coroutine", "after"} => pos \in Numbers \intersect served
          /\ loopPc = "scan" => pos \in Numbers \union {coNum}

ScanInv == Scanning => \A n \in Numbers : n < pos => n \in served

IInv == /\ TypeOK /\ StatusInv /\ PosInv
        /\ ScanInv /\ ScanServesAll /\ TasksConserved
-----------------------------------------------------------------------------
(* The iterator *)

LEMMA LessIsWellFounded == IsWellFoundedOn({ss \in Nat \X Nat : ss[1] < ss[2]}, Nat)
  BY NatLessThanWellFounded DEF OpToRel

\* A set of numbers that is not empty has a least one.
LEMMA LeastExists ==
  ASSUME NEW S \in SUBSET Nat, S # {}
  PROVE  \E k \in S : \A j \in S : k <= j
<1> DEFINE R == {ss \in Nat \X Nat : ss[1] < ss[2]}
<1>1. PICK k \in S : \A j \in S : <<j, k>> \notin R
  <2>1. IsWellFoundedOn(R, Nat)
    BY LessIsWellFounded
  <2> HIDE DEF R
  <2> QED BY <2>1, WFMin
<1>2. ASSUME NEW j \in S PROVE k <= j
  <2>1. <<j, k>> \notin R
    BY <1>1
  <2> QED BY <2>1
<1> QED BY <1>2

\* After(S, n) is the least number of S above n, or end().
LEMMA AfterIsNext ==
  ASSUME coNum \in Nat, NEW S \in SUBSET (0 .. coNum - 1), NEW n \in Int
  PROVE  /\ After(S, n) \in S \union {coNum}
         /\ \A k \in S : k > n => After(S, n) <= k
         /\ After(S, n) \in S => After(S, n) > n
<1> DEFINE larger == {k \in S : k > n}
<1>1. CASE larger = {}
  <2>1. After(S, n) = coNum
    BY <1>1 DEF After
  <2> QED BY <1>1, <2>1
<1>2. CASE larger # {}
  <2>1. After(S, n) = CHOOSE k \in larger : \A j \in larger : k <= j
    BY <1>2 DEF After
  <2>2. \E k \in larger : \A j \in larger : k <= j
    <3>1. larger \in SUBSET Nat
      <4>1. \A k \in 0 .. coNum - 1 : k \in Nat
        OBVIOUS
      <4> QED BY <4>1
    <3> HIDE DEF larger
    <3> QED BY <1>2, <3>1, LeastExists
  <2>3. After(S, n) \in larger /\ \A j \in larger : After(S, n) <= j
    <3> HIDE DEF larger
    <3> QED BY <2>1, <2>2
  <2> QED BY <2>3
<1> QED BY <1>1, <1>2
-----------------------------------------------------------------------------
(* Initial states *)

LEMMA InitImpliesInv == Init => IInv
<1> SUFFICES ASSUME Init PROVE IInv
  OBVIOUS
<1>1. /\ coNum = 0 /\ Numbers = {} /\ curCo = -1 /\ pos = 0 /\ pendingTasks = <<>>
      /\ quit = FALSE /\ loopPc = "unborn" /\ created = {} /\ finished = {} /\ served = {}
  BY DEF Init, CoInit, Numbers
<1>2. TypeOK
  <2>1. <<>> \in Seq(Tasks) /\ -1 \in -1 .. 0 - 1
    OBVIOUS
  <2>2. /\ coNum \in Nat /\ curCo \in -1 .. coNum - 1 /\ pos \in 0 .. coNum
        /\ served \subseteq 0 .. coNum - 1 /\ Numbers \subseteq 0 .. coNum - 1
    BY <1>1, <2>1
  <2>3. CoTypeOK
    BY <1>1, <2>1, <2>2, Zenon DEF CoTypeOK
  <2> QED BY <2>3 DEF Init, TypeOK
<1>3. StatusInv /\ PosInv /\ ScanInv /\ ScanServesAll
  BY <1>1 DEF StatusInv, PosInv, ScanInv, ScanServesAll, InCoroutine, Scanning
<1>4. TasksConserved
  BY <1>1 DEF TasksConserved, TasksIn, TasksPending
<1> QED BY <1>2, <1>3, <1>4 DEF IInv
-----------------------------------------------------------------------------
(* Steps that leave the coroutines as they are *)

\* Conservation is about four variables only.
LEMMA TasksStay ==
  ASSUME TasksConserved, UNCHANGED <<coStore, pendingTasks, created, finished>>
  PROVE  TasksConserved'
BY DEF TasksConserved, TasksIn, TasksPending, Numbers

\* The owner's own steps, and quit(), change nothing of the scan.
LEMMA OwnerKeepsInv ==
  ASSUME IInv, OwnerTest \/ OwnerSpurious \/ OwnerQuit \/ OwnerJoin \/ InThread(CoQuit)
                 \/ UNCHANGED vars
  PROVE  IInv'
<1>1. /\ UNCHANGED <<coStore, coNum, curCo, pos, pendingTasks, loopPc>>
      /\ UNCHANGED <<created, finished, served>>
  BY DEF OwnerTest, OwnerSpurious, OwnerQuit, OwnerJoin, InThread, CoQuit, QuitLoop,
         vars, coVars, schedVars, ownerVars
<1>2. TypeOK'
  <2>1. quit' \in BOOLEAN /\ scheduler' = scheduler /\ TypeOK
    BY DEF IInv, TypeOK, CoTypeOK, OwnerTest, OwnerSpurious, OwnerQuit, OwnerJoin, InThread,
           CoQuit, QuitLoop, vars, coVars, schedVars, ownerVars
  <2>2. ownerPc' \in {"begin", "test", "asleep", "using", "joining", "done"}
    BY DEF IInv, TypeOK, OwnerTest, OwnerSpurious, OwnerQuit, OwnerJoin, InThread,
           vars, coVars, ownerVars
  <2> QED BY <1>1, <2>1, <2>2 DEF TypeOK, CoTypeOK, Numbers
<1>3. StatusInv' /\ PosInv' /\ ScanInv' /\ ScanServesAll'
  BY <1>1 DEF IInv, StatusInv, PosInv, ScanInv, ScanServesAll, InCoroutine, Scanning, Numbers
<1>4. TasksConserved'
  BY <1>1, TasksStay DEF IInv
<1> QED BY <1>2, <1>3, <1>4 DEF IInv

\* Outside the scan no coroutine runs or has just ended.
LEMMA OutsideScan ==
  ASSUME IInv, UNCHANGED <<coStore, coNum, curCo, pos, pendingTasks, created, finished, served>>,
         loopPc \notin {"scan", "coroutine", "after"},
         loopPc' \in {"built", "notify", "idle", "check", "ended"},
         TypeOK'
  PROVE  IInv'
<1>1. StatusInv' /\ PosInv' /\ ScanInv' /\ ScanServesAll'
  BY DEF IInv, StatusInv, PosInv, ScanInv, ScanServesAll, InCoroutine, Scanning, Numbers
<1>2. TasksConserved'
  BY TasksStay DEF IInv
<1> QED BY <1>1, <1>2 DEF IInv

\* The steps that bring the thread to its loop.
LEMMA BeginKeepsInv ==
  ASSUME IInv, OwnerStart \/ Publish \/ Notify \/ InThread(StartLoop)
  PROVE  IInv'
<1>1. /\ UNCHANGED <<coStore, coNum, curCo, pos, pendingTasks, created, finished, served>>
      /\ loopPc \in {"unborn", "built", "notify", "idle"}
      /\ loopPc' \in {"built", "notify", "idle", "check"}
      /\ quit' \in {quit, FALSE}
      /\ scheduler' \in {scheduler, TRUE}
  BY DEF OwnerStart, Publish, Notify, InThread, StartLoop, Goto, OnlyLoopPc, ownerVars
<1>2. ownerPc' \in {ownerPc, "test"}
  BY DEF OwnerStart, Publish, Notify, InThread, ownerVars
<1>3. TypeOK'
  BY <1>1, <1>2 DEF IInv, TypeOK, CoTypeOK, Numbers
<1> QED BY <1>1, <1>3, OutsideScan

\* A scan begins at the least number, or the loop ends.
LEMMA CheckQuitKeepsInv ==
  ASSUME IInv, InThread(CheckQuit)
  PROVE  IInv'
<1> USE DEF Numbers
<1>1. /\ UNCHANGED <<coStore, coNum, curCo, pendingTasks, quit, created, finished, ownerVars>>
      /\ loopPc = "check" /\ loopPc' \in {"scan", "ended"}
      /\ pos' = After(Numbers, -1) /\ served' = {}
  BY DEF InThread, CheckQuit
<1>2. coNum \in Nat /\ Numbers \in SUBSET (0 .. coNum - 1) /\ -1 \in Int
  BY DEF IInv, TypeOK, CoTypeOK
<1>3. pos' \in Numbers \union {coNum} /\ \A n \in Numbers : pos' <= n
  <2>1. \A n \in Numbers : n > -1
    BY <1>2
  <2> QED BY <1>1, <1>2, <2>1, AfterIsNext
<1>4. TypeOK'
  <2>1. pos' \in 0 .. coNum
    BY <1>2, <1>3
  <2> QED BY <1>1, <2>1 DEF IInv, TypeOK, CoTypeOK, ownerVars
<1>5. StatusInv' /\ PosInv' /\ ScanServesAll'
  BY <1>1, <1>3 DEF IInv, StatusInv, PosInv, ScanServesAll, InCoroutine
<1>6. ScanInv'
  <2> SUFFICES ASSUME NEW n \in Numbers PROVE ~ (n < pos')
    BY <1>1 DEF ScanInv
  <2>1. n \in Nat /\ pos' \in Nat
    BY <1>2, <1>3
  <2> QED BY <1>3, <2>1
<1>7. TasksConserved'
  BY <1>1, TasksStay DEF IInv
<1> QED BY <1>4, <1>5, <1>6, <1>7 DEF IInv

\* Past the last coroutine every one has been switched to.
LEMMA ScanDoneKeepsInv ==
  ASSUME IInv, InThread(ScanDone)
  PROVE  IInv'
<1> USE DEF Numbers
<1>1. /\ UNCHANGED <<coStore, coNum, curCo, pos, pendingTasks, quit, created, finished>>
      /\ UNCHANGED <<served, ownerVars>>
      /\ loopPc = "scan" /\ loopPc' = "pending" /\ pos \notin Numbers
  BY DEF InThread, ScanDone
<1>2. TypeOK'
  BY <1>1 DEF IInv, TypeOK, CoTypeOK, ownerVars
<1>3. StatusInv' /\ PosInv' /\ ScanInv'
  BY <1>1 DEF IInv, StatusInv, PosInv, ScanInv, InCoroutine, Scanning
<1>4. ScanServesAll'
  <2>1. pos = coNum /\ \A n \in Numbers : n < pos => n \in served
    BY <1>1 DEF IInv, PosInv, ScanInv, Scanning
  <2>2. coNum \in Nat /\ \A n \in Numbers : n \in 0 .. coNum - 1
    BY DEF IInv, TypeOK, CoTypeOK
  <2>3. \A n \in Numbers : n < coNum
    BY <2>2
  <2> QED BY <1>1, <2>1, <2>3 DEF ScanServesAll
<1>5. TasksConserved'
  BY <1>1, TasksStay DEF IInv
<1> QED BY <1>2, <1>3, <1>4, <1>5 DEF IInv
-----------------------------------------------------------------------------
(* Steps that create or run coroutines *)

\* The coroutines not finished hold the same tasks when no status enters or
\* leaves FINISHED.
LEMMA AliveStay ==
  ASSUME Numbers' = Numbers,
         \A n \in Numbers : /\ coStore'[n].task = coStore[n].task
                            /\ coStore'[n].status \in Alive <=> coStore[n].status \in Alive
  PROVE  TasksIn(Alive)' = TasksIn(Alive)
BY DEF TasksIn

\* A step that keeps the tasks of the coroutines, pending and finished ones.
LEMMA ConservedStays ==
  ASSUME TasksConserved, Numbers' = Numbers,
         \A n \in Numbers : /\ coStore'[n].task = coStore[n].task
                            /\ coStore'[n].status \in Alive <=> coStore[n].status \in Alive,
         UNCHANGED <<pendingTasks, created, finished>>
  PROVE  TasksConserved'
<1>1. TasksIn(Alive)' = TasksIn(Alive)
  BY AliveStay
<1>2. TasksPending' = TasksPending
  BY DEF TasksPending
<1>3. \A n, k \in Numbers' : coStore'[n].task = coStore'[k].task => n = k
  BY DEF TasksConserved
<1> QED BY <1>1, <1>2, <1>3 DEF TasksConserved, Alive

LEMMA QueueKeepsInv ==
  ASSUME IInv, OwnerCreate \/ InThread(CoCreate)
  PROVE  IInv'
<1>1. PICK t \in Tasks : Queue(t)
  BY DEF OwnerCreate, InThread, CoCreate
<1>2. /\ UNCHANGED <<coStore, coNum, curCo, pos, quit, loopPc, finished, served, ownerVars>>
      /\ t \notin created /\ created' = created \union {t}
      /\ pendingTasks' = Append(pendingTasks, t)
  BY <1>1 DEF Queue, OwnerCreate, InThread
<1>3. pendingTasks \in Seq(Tasks)
  BY DEF IInv, TypeOK, CoTypeOK
<1>4. TypeOK'
  <2>1. pendingTasks' \in Seq(Tasks) /\ created' \subseteq Tasks
    BY <1>2, <1>3 DEF IInv, TypeOK, CoTypeOK
  <2> QED BY <1>2, <2>1 DEF IInv, TypeOK, CoTypeOK, Numbers, ownerVars
<1>5. StatusInv' /\ PosInv' /\ ScanInv' /\ ScanServesAll'
  BY <1>2 DEF IInv, StatusInv, PosInv, ScanInv, ScanServesAll, InCoroutine, Scanning, Numbers
<1>6. TasksConserved'
  <2>1. TasksConserved
    BY DEF IInv
  <2>2. /\ DOMAIN pendingTasks' = DOMAIN pendingTasks \union {Len(pendingTasks) + 1}
        /\ Len(pendingTasks) + 1 \notin DOMAIN pendingTasks
        /\ pendingTasks'[Len(pendingTasks) + 1] = t
        /\ \A i \in DOMAIN pendingTasks : pendingTasks'[i] = pendingTasks[i]
    BY <1>2, <1>3
  <2>3. TasksPending' = TasksPending \union {t}
    BY <2>2 DEF TasksPending
  <2>4. TasksIn(Alive)' = TasksIn(Alive) /\ Numbers' = Numbers
    BY <1>2, AliveStay DEF Numbers
  <2>5. \A i \in DOMAIN pendingTasks : pendingTasks[i] # t
    BY <1>2, <2>1 DEF TasksConserved, TasksPending
  <2>6. \A i, j \in DOMAIN pendingTasks' : pendingTasks'[i] = pendingTasks'[j] => i = j
    BY <2>1, <2>2, <2>5 DEF TasksConserved
  <2>7. \A n, k \in Numbers' : coStore'[n].task = coStore'[k].task => n = k
    BY <1>2, <2>1, <2>4 DEF TasksConserved
  <2>8. t \notin TasksPending \union TasksIn(Alive) \union finished
    BY <1>2, <2>1 DEF TasksConserved, Alive
  <2> QED BY <1>2, <2>1, <2>3, <2>4, <2>6, <2>7, <2>8 DEF TasksConserved, Alive
<1> QED BY <1>4, <1>5, <1>6 DEF IInv

\* A coroutine made before start() gets the next number.
LEMMA SetUpKeepsInv ==
  ASSUME IInv, InThread(SetUp)
  PROVE  IInv'
<1>1. PICK t \in Tasks : CreateDirect(t)
  BY DEF InThread, SetUp
<1>2. /\ UNCHANGED <<curCo, pos, pendingTasks, quit, loopPc, finished, served, ownerVars>>
      /\ loopPc = "idle" /\ t \notin created /\ created' = created \union {t}
      /\ coStore' = StoreWith(coNum, Coroutine(t)) /\ coNum' = coNum + 1
  BY <1>1 DEF CreateDirect, InThread
<1>3. /\ coNum \in Nat /\ Numbers \subseteq 0 .. coNum - 1
      /\ curCo \in -1 .. coNum - 1 /\ pos \in 0 .. coNum /\ served \subseteq 0 .. coNum - 1
      /\ \A n \in Numbers :
            coStore[n] \in [status : {"READY", "SUSPENDED", "RUNNING", "FINISHED"},
                            task : Tasks]
  BY DEF IInv, TypeOK, CoTypeOK
<1>4. /\ coNum \notin Numbers /\ Numbers' = Numbers \union {coNum}
      /\ coStore'[coNum] = [status |-> "READY", task |-> t]
      /\ \A n \in Numbers : coStore'[n] = coStore[n]
  BY <1>2, <1>3 DEF StoreWith, Coroutine, Numbers
<1>5. TypeOK'
  <2>1. /\ coNum' \in Nat /\ Numbers' \subseteq 0 .. coNum' - 1
        /\ curCo' \in -1 .. coNum' - 1 /\ pos' \in 0 .. coNum' /\ served' \subseteq 0 .. coNum' - 1
    <3>1. /\ coNum + 1 \in Nat /\ coNum \in 0 .. coNum + 1 - 1
          /\ 0 .. coNum - 1 \subseteq 0 .. coNum + 1 - 1
          /\ -1 .. coNum - 1 \subseteq -1 .. coNum + 1 - 1
          /\ 0 .. coNum \subseteq 0 .. coNum + 1
      BY <1>3
    <3> QED BY <1>2, <1>3, <1>4, <3>1
  <2>2. \A n \in Numbers' :
            coStore'[n] \in [status : {"READY", "SUSPENDED", "RUNNING", "FINISHED"},
                             task : Tasks]
    <3>1. [status |-> "READY", task |-> t]
            \in [status : {"READY", "SUSPENDED", "RUNNING", "FINISHED"}, task : Tasks]
      OBVIOUS
    <3> QED BY <1>3, <1>4, <3>1, Zenon
  <2>3. created' \subseteq Tasks
    BY <1>2 DEF IInv, TypeOK, CoTypeOK
  <2> QED BY <1>2, <2>1, <2>2, <2>3 DEF IInv, TypeOK, CoTypeOK, ownerVars
<1>6. StatusInv' /\ PosInv' /\ ScanInv' /\ ScanServesAll'
  BY <1>2, <1>4 DEF IInv, StatusInv, PosInv, ScanInv, ScanServesAll, InCoroutine, Scanning
<1>7. TasksConserved'
  <2>1. TasksConserved
    BY DEF IInv
  <2>2. TasksIn(Alive)' = TasksIn(Alive) \union {t}
    <3>1. \A n \in Numbers' : n = coNum \/ n \in Numbers
      BY <1>4
    <3> QED BY <1>4, <3>1 DEF TasksIn, Alive
  <2>3. TasksPending' = TasksPending
    BY <1>2 DEF TasksPending
  <2>4. \A n \in Numbers : coStore[n].status \in Alive
    BY <1>2, <1>3 DEF IInv, StatusInv, Alive
  <2>5. \A n \in Numbers : coStore[n].task # t
    <3>1. \A n \in Numbers : coStore[n].task \in TasksIn(Alive)
      BY <2>4 DEF TasksIn
    <3> QED BY <1>2, <2>1, <3>1 DEF TasksConserved, Alive
  <2>6. \A n, k \in Numbers' : coStore'[n].task = coStore'[k].task => n = k
    BY <1>4, <2>1, <2>5 DEF TasksConserved
  <2>7. t \notin TasksPending \union TasksIn(Alive) \union finished
    BY <1>2, <2>1 DEF TasksConserved, Alive
  <2> QED BY <1>2, <2>1, <2>2, <2>3, <2>6, <2>7 DEF TasksConserved, Alive
<1> QED BY <1>5, <1>6, <1>7 DEF IInv

\* Switching to the coroutine at the iterator: it has been served.
LEMMA ResumeKeepsInv ==
  ASSUME IInv, InThread(Resume)
  PROVE  IInv'
<1>1. /\ UNCHANGED <<coNum, pos, pendingTasks, quit, created, finished, ownerVars>>
      /\ loopPc = "scan" /\ loopPc' = "coroutine" /\ pos \in Numbers /\ curCo' = pos
      /\ coStore[pos].status \in {"READY", "SUSPENDED"}
      /\ coStore' = [coStore EXCEPT ![pos].status = "RUNNING"]
      /\ served' = served \union {pos}
  BY DEF InThread, Resume
<1>2. /\ coNum \in Nat /\ Numbers \subseteq 0 .. coNum - 1 /\ served \subseteq 0 .. coNum - 1
      /\ \A n \in Numbers :
            coStore[n] \in [status : {"READY", "SUSPENDED", "RUNNING", "FINISHED"},
                            task : Tasks]
  BY DEF IInv, TypeOK, CoTypeOK
<1>3. /\ Numbers' = Numbers
      /\ \A n \in Numbers : n # pos => coStore'[n] = coStore[n]
      /\ coStore'[pos] = [coStore[pos] EXCEPT !.status = "RUNNING"]
  BY <1>1 DEF Numbers
<1>4. /\ coStore'[pos].status = "RUNNING" /\ coStore'[pos].task = coStore[pos].task
      /\ coStore'[pos] \in [status : {"READY", "SUSPENDED", "RUNNING", "FINISHED"},
                            task : Tasks]
  BY <1>1, <1>2, <1>3
<1>5. TypeOK'
  <2>1. \A n \in Numbers' :
            coStore'[n] \in [status : {"READY", "SUSPENDED", "RUNNING", "FINISHED"},
                             task : Tasks]
    BY <1>2, <1>3, <1>4
  <2>2. curCo' \in -1 .. coNum' - 1 /\ served' \subseteq 0 .. coNum' - 1
    BY <1>1, <1>2
  <2> QED BY <1>1, <1>3, <2>1, <2>2 DEF IInv, TypeOK, CoTypeOK, ownerVars
<1>6. StatusInv'
  BY <1>1, <1>3, <1>4 DEF IInv, StatusInv, InCoroutine
<1>7. PosInv' /\ ScanServesAll'
  BY <1>1, <1>3 DEF PosInv, ScanServesAll, InCoroutine
<1>8. ScanInv'
  BY <1>1, <1>3 DEF IInv, ScanInv, Scanning
<1>9. TasksConserved'
  <2>1. \A n \in Numbers : /\ coStore'[n].task = coStore[n].task
                           /\ coStore'[n].status \in Alive <=> coStore[n].status \in Alive
    BY <1>1, <1>3, <1>4 DEF Alive
  <2> QED BY <1>1, <1>3, <2>1, ConservedStays DEF IInv
<1> QED BY <1>5, <1>6, <1>7, <1>8, <1>9 DEF IInv

\* Giving up the thread.
LEMMA YieldKeepsInv ==
  ASSUME IInv, InThread(Yield)
  PROVE  IInv'
<1>1. /\ UNCHANGED <<coNum, curCo, pos, pendingTasks, quit, created, finished, served, ownerVars>>
      /\ loopPc = "coroutine" /\ loopPc' = "after"
      /\ coStore' = [coStore EXCEPT ![curCo].status = "SUSPENDED"]
      /\ curCo = pos /\ pos \in Numbers /\ pos \in served /\ coNum \in Nat
      /\ Numbers \subseteq 0 .. coNum - 1
  BY DEF InThread, Yield, SetStatus, IInv, PosInv, InCoroutine, TypeOK, CoTypeOK
<1>2. \A n \in Numbers :
            coStore[n] \in [status : {"READY", "SUSPENDED", "RUNNING", "FINISHED"},
                            task : Tasks]
  BY DEF IInv, TypeOK, CoTypeOK
<1>3. /\ Numbers' = Numbers
      /\ \A n \in Numbers : n # pos => coStore'[n] = coStore[n]
      /\ coStore'[pos] = [coStore[pos] EXCEPT !.status = "SUSPENDED"]
  BY <1>1 DEF Numbers
<1>4. /\ coStore'[pos].status = "SUSPENDED" /\ coStore'[pos].task = coStore[pos].task
      /\ coStore'[pos] \in [status : {"READY", "SUSPENDED", "RUNNING", "FINISHED"},
                            task : Tasks]
      /\ coStore[pos].status = "RUNNING"
  BY <1>1, <1>2, <1>3 DEF IInv, StatusInv, InCoroutine
<1>5. TypeOK'
  <2>1. \A n \in Numbers' :
            coStore'[n] \in [status : {"READY", "SUSPENDED", "RUNNING", "FINISHED"},
                             task : Tasks]
    BY <1>2, <1>3, <1>4
  <2> QED BY <1>1, <1>3, <2>1 DEF IInv, TypeOK, CoTypeOK, ownerVars
<1>6. StatusInv'
  <2>1. curCo # -1
    BY <1>1
  <2> QED BY <1>1, <1>3, <1>4, <2>1 DEF IInv, StatusInv, InCoroutine
<1>7. PosInv' /\ ScanServesAll' /\ ScanInv'
  BY <1>1, <1>3 DEF IInv, PosInv, ScanServesAll, ScanInv, Scanning, InCoroutine
<1>8. TasksConserved'
  <2>1. \A n \in Numbers : /\ coStore'[n].task = coStore[n].task
                           /\ coStore'[n].status \in Alive <=> coStore[n].status \in Alive
    BY <1>1, <1>3, <1>4 DEF Alive
  <2> QED BY <1>1, <1>3, <2>1, ConservedStays DEF IInv
<1> QED BY <1>5, <1>6, <1>7, <1>8 DEF IInv

\* A task that returns leaves the living for the finished.
LEMMA ReturnKeepsInv ==
  ASSUME IInv, InThread(Return)
  PROVE  IInv'
<1>1. /\ UNCHANGED <<coNum, pos, pendingTasks, quit, created, served, ownerVars>>
      /\ loopPc = "coroutine" /\ loopPc' = "after"
      /\ coStore' = [coStore EXCEPT ![pos].status = "FINISHED"]
      /\ finished' = finished \union {coStore[pos].task} /\ curCo' = -1
      /\ pos \in Numbers /\ pos \in served /\ coNum \in Nat
      /\ Numbers \subseteq 0 .. coNum - 1
  BY DEF InThread, Return, SetStatus, IInv, PosInv, InCoroutine, TypeOK, CoTypeOK
<1>2. \A n \in Numbers :
            coStore[n] \in [status : {"READY", "SUSPENDED", "RUNNING", "FINISHED"},
                            task : Tasks]
  BY DEF IInv, TypeOK, CoTypeOK
<1>3. /\ Numbers' = Numbers
      /\ \A n \in Numbers : n # pos => coStore'[n] = coStore[n]
      /\ coStore'[pos] = [coStore[pos] EXCEPT !.status = "FINISHED"]
  BY <1>1 DEF Numbers
<1>4. /\ coStore'[pos].status = "FINISHED" /\ coStore'[pos].task = coStore[pos].task
      /\ coStore'[pos] \in [status : {"READY", "SUSPENDED", "RUNNING", "FINISHED"},
                            task : Tasks]
      /\ coStore[pos].status = "RUNNING"
  BY <1>1, <1>2, <1>3 DEF IInv, StatusInv, InCoroutine
<1>5. TypeOK'
  <2>1. \A n \in Numbers' :
            coStore'[n] \in [status : {"READY", "SUSPENDED", "RUNNING", "FINISHED"},
                             task : Tasks]
    BY <1>2, <1>3, <1>4
  <2>2. finished' \subseteq Tasks
    BY <1>1, <1>2 DEF IInv, TypeOK, CoTypeOK
  <2>3. curCo' \in -1 .. coNum' - 1
    BY <1>1
  <2> QED BY <1>1, <1>3, <2>1, <2>2, <2>3 DEF IInv, TypeOK, CoTypeOK, ownerVars
<1>6. StatusInv'
  BY <1>1, <1>3, <1>4 DEF IInv, StatusInv, InCoroutine
<1>7. PosInv' /\ ScanServesAll' /\ ScanInv'
  BY <1>1, <1>3 DEF IInv, PosInv, ScanServesAll, ScanInv, Scanning, InCoroutine
<1>8. TasksConserved'
  <2>1. TasksConserved
    BY DEF IInv
  <2>2. TasksIn(Alive)' = TasksIn(Alive) \ {coStore[pos].task}
    <3>1. \A n \in Numbers : coStore[n].task = coStore[pos].task => n = pos
      BY <1>1, <2>1 DEF TasksConserved
    <3> QED BY <1>1, <1>3, <1>4, <3>1 DEF TasksIn, Alive
  <2>3. coStore[pos].task \in TasksIn(Alive)
    BY <1>1, <1>4 DEF TasksIn, Alive
  <2>4. TasksPending' = TasksPending
    BY <1>1 DEF TasksPending
  <2>5. \A n, k \in Numbers' : coStore'[n].task = coStore'[k].task => n = k
    <3>1. \A n \in Numbers : coStore'[n].task = coStore[n].task
      BY <1>3, <1>4
    <3> QED BY <1>3, <2>1, <3>1 DEF TasksConserved
  <2> QED BY <1>1, <2>1, <2>2, <2>3, <2>4, <2>5 DEF TasksConserved, Alive
<1> QED BY <1>5, <1>6, <1>7, <1>8 DEF IInv

\* Moving on, past the coroutine that gave up the thread or in place of the
\* one that ended: the numbers below the iterator stay the served ones.
LEMMA AdvanceKeepsInv ==
  ASSUME IInv, InThread(Advance)
  PROVE  IInv'
<1>1. /\ UNCHANGED <<coNum, curCo, pendingTasks, quit, created, finished, served, ownerVars>>
      /\ loopPc = "after" /\ loopPc' = "scan" /\ pos' = After(Numbers, pos)
      /\ \/ FinishedAtPos /\ coStore' = StoreWithout(pos)
         \/ ~FinishedAtPos /\ coStore' = coStore
  BY DEF InThread, Advance, AfterErase
<1>2. /\ coNum \in Nat /\ Numbers \in SUBSET (0 .. coNum - 1)
      /\ pos \in Numbers /\ pos \in served /\ pos \in Int
      /\ \A n \in Numbers :
            coStore[n] \in [status : {"READY", "SUSPENDED", "RUNNING", "FINISHED"},
                            task : Tasks]
  BY <1>1 DEF IInv, TypeOK, CoTypeOK, PosInv
<1>3. /\ Numbers' = IF FinishedAtPos THEN Numbers \ {pos} ELSE Numbers
      /\ \A n \in Numbers' : coStore'[n] = coStore[n]
  BY <1>1 DEF Numbers, StoreWithout
<1>4. Numbers' \subseteq Numbers
  BY <1>3
<1>5. /\ pos' \in Numbers \union {coNum}
      /\ \A n \in Numbers : n > pos => pos' <= n
      /\ pos' \in Numbers => pos' > pos
  BY <1>1, <1>2, AfterIsNext
<1>6. pos' # pos /\ pos' \in Numbers' \union {coNum} /\ pos' \in Nat
  BY <1>2, <1>3, <1>5
<1>7. TypeOK'
  <2>1. \A n \in Numbers' :
            coStore'[n] \in [status : {"READY", "SUSPENDED", "RUNNING", "FINISHED"},
                             task : Tasks]
    BY <1>2, <1>3, <1>4
  <2>2. Numbers' \subseteq 0 .. coNum' - 1 /\ pos' \in 0 .. coNum'
    BY <1>1, <1>2, <1>4, <1>5
  <2> QED BY <1>1, <2>1, <2>2 DEF IInv, TypeOK, CoTypeOK, ownerVars
<1>8. StatusInv'
  <2>1. \A n \in Numbers' : coStore[n].status \notin {"RUNNING", "FINISHED"}
    BY <1>1, <1>3, <1>4 DEF IInv, StatusInv, InCoroutine, FinishedAtPos
  <2> QED BY <1>1, <1>3, <2>1 DEF StatusInv, InCoroutine
<1>9. PosInv' /\ ScanServesAll'
  BY <1>1, <1>6 DEF PosInv, ScanServesAll, InCoroutine
<1>10. ScanInv'
  <2> SUFFICES ASSUME NEW n \in Numbers', n < pos' PROVE n \in served
    BY <1>1 DEF ScanInv
  <2>1. ~ (n > pos)
    BY <1>2, <1>4, <1>5, <1>6
  <2>2. n < pos \/ n = pos
    BY <1>2, <1>4, <2>1
  <2> QED BY <1>1, <1>2, <1>4, <2>2 DEF IInv, ScanInv, Scanning
<1>11. TasksConserved'
  <2>1. TasksConserved
    BY DEF IInv
  <2>2. TasksIn(Alive)' = TasksIn(Alive)
    <3>1. \A n \in Numbers : coStore[n].status \in Alive => n \in Numbers'
      BY <1>3 DEF FinishedAtPos, Alive
    <3> QED BY <1>3, <1>4, <3>1 DEF TasksIn
  <2>3. TasksPending' = TasksPending
    BY <1>1 DEF TasksPending
  <2>4. \A n, k \in Numbers' : coStore'[n].task = coStore'[k].task => n = k
    BY <1>3, <1>4, <2>1 DEF TasksConserved
  <2> QED BY <1>1, <2>1, <2>2, <2>3, <2>4 DEF TasksConserved, Alive
<1> QED BY <1>7, <1>8, <1>9, <1>10, <1>11 DEF IInv

\* The pending tasks become coroutines under new numbers, in their order.
LEMMA HandlePendingKeepsInv ==
  ASSUME IInv, InThread(HandlePending)
  PROVE  IInv'
<1> DEFINE total == coNum + Len(pendingTasks)
           fresh == coNum .. coNum + Len(pendingTasks) - 1
           task(n) == pendingTasks[n - coNum + 1]
<1>1. /\ UNCHANGED <<curCo, quit, created, finished, served, ownerVars>>
      /\ loopPc = "pending" /\ loopPc' = "check" /\ pos' = 0 /\ pendingTasks' = <<>>
      /\ coNum' = total
  BY DEF InThread, HandlePending, NextNumber, TasksMade, AllTasks, AfterSwap, DropsTasks
<1>2. /\ coNum \in Nat /\ Numbers \subseteq 0 .. coNum - 1 /\ curCo \in -1 .. coNum - 1
      /\ served \subseteq 0 .. coNum - 1 /\ pendingTasks \in Seq(Tasks)
      /\ \A n \in Numbers :
            coStore[n] \in [status : {"READY", "SUSPENDED", "RUNNING", "FINISHED"},
                            task : Tasks]
  BY DEF IInv, TypeOK, CoTypeOK
<1>3. Len(pendingTasks) \in Nat /\ total \in Nat /\ coNum <= total
      /\ DOMAIN pendingTasks = 1 .. Len(pendingTasks)
  BY <1>2
<1>4. \A n \in fresh : n \in Int /\ n \notin Numbers /\ n - coNum + 1 \in DOMAIN pendingTasks
  BY <1>2, <1>3
<1>5. coStore' = [n \in Numbers \union fresh |->
                    IF n \in fresh THEN Coroutine(task(n)) ELSE coStore[n]]
  <2>1. HandlePending
    BY DEF InThread
  <2>2. NextNumber = coNum /\ TasksMade = Len(pendingTasks)
    BY DEF NextNumber, TasksMade, AllTasks
  <2>3. coStore' = [n \in Numbers \union (NextNumber .. NextNumber + TasksMade - 1) |->
                      IF n \in NextNumber .. NextNumber + TasksMade - 1
                      THEN Coroutine(pendingTasks[n - NextNumber + 1]) ELSE coStore[n]]
    BY <2>1, Zenon DEF HandlePending
  <2> QED BY <2>2, <2>3, Zenon
<1>6. \A i \in DOMAIN pendingTasks : coNum + i - 1 \in fresh /\ task(coNum + i - 1) = pendingTasks[i]
  <2> TAKE i \in DOMAIN pendingTasks
  <2>1. (coNum + i - 1) - coNum + 1 = i /\ coNum + i - 1 \in fresh
    BY <1>2, <1>3
  <2>2. task(coNum + i - 1) = pendingTasks[(coNum + i - 1) - coNum + 1]
    OBVIOUS
  <2> QED BY <2>1, <2>2
<1>7. /\ 0 .. coNum - 1 \subseteq 0 .. total - 1 /\ fresh \subseteq 0 .. total - 1
      /\ -1 .. coNum - 1 \subseteq -1 .. total - 1
  BY <1>2, <1>3
<1>8. \A n, k \in fresh : n - coNum + 1 = k - coNum + 1 => n = k
  BY <1>2, <1>3
<1>9. \A n \in fresh : task(n) \in TasksPending /\ task(n) \in Tasks
  BY <1>2, <1>4 DEF TasksPending
<1>10. ASSUME NEW n \in fresh, NEW k \in fresh, task(n) = task(k), TasksConserved
       PROVE  n = k
  <2>1. n - coNum + 1 = k - coNum + 1
    BY <1>4, <1>10 DEF TasksConserved
  <2> QED BY <1>8, <2>1
<1> HIDE DEF total, fresh, task
<1>11. /\ Numbers' = Numbers \union fresh
       /\ \A n \in Numbers : coStore'[n] = coStore[n]
       /\ \A n \in fresh : coStore'[n] = [status |-> "READY", task |-> task(n)]
  BY <1>4, <1>5, Zenon DEF Coroutine, Numbers
<1>12. \A n \in fresh : coStore'[n].status = "READY" /\ coStore'[n].task = task(n)
  <2> TAKE n \in fresh
  <2> DEFINE t == task(n)
  <2>1. coStore'[n] = [status |-> "READY", task |-> t]
    BY <1>11
  <2> HIDE DEF t
  <2>2. coStore'[n].status = "READY" /\ coStore'[n].task = t
    BY <2>1
  <2> QED BY <2>2 DEF t
<1>13. TypeOK'
  <2>1. \A n \in Numbers' :
            coStore'[n] \in [status : {"READY", "SUSPENDED", "RUNNING", "FINISHED"},
                             task : Tasks]
    <3>1. \A n \in fresh :
             [status |-> "READY", task |-> task(n)]
               \in [status : {"READY", "SUSPENDED", "RUNNING", "FINISHED"}, task : Tasks]
      BY <1>9
    <3> QED BY <1>2, <1>11, <3>1, Zenon
  <2>2. /\ Numbers' \subseteq 0 .. coNum' - 1 /\ curCo' \in -1 .. coNum' - 1
        /\ pos' \in 0 .. coNum' /\ served' \subseteq 0 .. coNum' - 1
    BY <1>1, <1>2, <1>3, <1>7, <1>11
  <2>3. pendingTasks' \in Seq(Tasks) /\ coNum' \in Nat
    BY <1>1, <1>3
  <2> QED BY <1>1, <2>1, <2>2, <2>3 DEF IInv, TypeOK, CoTypeOK, ownerVars
<1>14. StatusInv'
  BY <1>1, <1>11, <1>12 DEF IInv, StatusInv, InCoroutine
<1>15. PosInv' /\ ScanInv' /\ ScanServesAll'
  BY <1>1 DEF PosInv, ScanInv, ScanServesAll, InCoroutine, Scanning
<1>16. TasksConserved'
  <2>1. TasksConserved
    BY DEF IInv
  <2>2. \A n \in Numbers : coStore[n].status \in Alive
    BY <1>1, <1>2 DEF IInv, StatusInv, InCoroutine, Alive
  <2>3. \A t \in TasksPending : \E n \in fresh : task(n) = t
    BY <1>6 DEF TasksPending
  <2>4. TasksIn(Alive)' = TasksIn(Alive) \union TasksPending
    <3>1. TasksIn(Alive)' = {coStore'[n].task : n \in {k \in Numbers' : coStore'[k].status \in Alive}}
      BY DEF TasksIn
    <3>2. {k \in Numbers' : coStore'[k].status \in Alive} = Numbers \union fresh
      BY <1>11, <1>12, <2>2 DEF Alive
    <3>3. TasksIn(Alive) = {coStore[n].task : n \in Numbers}
      BY <2>2 DEF TasksIn
    <3> QED BY <1>9, <1>11, <1>12, <2>3, <3>1, <3>2, <3>3
  <2>5. TasksPending' = {} /\ DOMAIN pendingTasks' = {}
    BY <1>1 DEF TasksPending
  <2>6. \A n \in Numbers : coStore[n].task \notin TasksPending
    <3>1. \A n \in Numbers : coStore[n].task \in TasksIn(Alive)
      BY <2>2 DEF TasksIn
    <3> QED BY <2>1, <3>1 DEF TasksConserved, Alive
  <2>7. \A n, k \in Numbers' : coStore'[n].task = coStore'[k].task => n = k
    <3>1. \A n, k \in Numbers : coStore'[n].task = coStore'[k].task => n = k
      BY <1>11, <2>1 DEF TasksConserved
    <3>2. \A n, k \in fresh : coStore'[n].task = coStore'[k].task => n = k
      BY <1>10, <1>12, <2>1
    <3>3. \A n \in Numbers, k \in fresh : coStore'[n].task # coStore'[k].task
      BY <1>9, <1>11, <1>12, <2>6
    <3> QED BY <1>11, <3>1, <3>2, <3>3
  <2> QED BY <1>1, <2>1, <2>4, <2>5, <2>7 DEF TasksConserved, Alive
<1> QED BY <1>13, <1>14, <1>15, <1>16 DEF IInv
-----------------------------------------------------------------------------
(* The invariant, and what follows from it *)

LEMMA StepKeepsInv == IInv /\ [Next]_vars => IInv'
<1> SUFFICES ASSUME IInv, [Next]_vars PROVE IInv'
  OBVIOUS
<1>1. CASE OwnerTest \/ OwnerSpurious \/ OwnerQuit \/ OwnerJoin \/ InThread(CoQuit)
             \/ UNCHANGED vars
  BY <1>1, OwnerKeepsInv
<1>2. CASE OwnerStart \/ Publish \/ Notify \/ InThread(StartLoop)
  BY <1>2, BeginKeepsInv
<1>3. CASE OwnerCreate \/ InThread(CoCreate)
  BY <1>3, QueueKeepsInv
<1>4. CASE InThread(SetUp)
  BY <1>4, SetUpKeepsInv
<1>5. CASE InThread(LoopStep)
  <2>1. \/ InThread(CheckQuit) \/ InThread(Resume) \/ InThread(Advance)
        \/ InThread(ScanDone) \/ InThread(HandlePending)
    BY <1>5 DEF InThread, LoopStep
  <2> QED BY <2>1, CheckQuitKeepsInv, ResumeKeepsInv, AdvanceKeepsInv, ScanDoneKeepsInv,
             HandlePendingKeepsInv
<1>6. CASE InThread(SwitchBack)
  <2>1. InThread(Yield) \/ InThread(Return)
    BY <1>6 DEF InThread, SwitchBack
  <2> QED BY <2>1, YieldKeepsInv, ReturnKeepsInv
<1> QED BY <1>1, <1>2, <1>3, <1>4, <1>5, <1>6 DEF Next

\* IInv is an invariant of every behaviour, of one that ends as well.
THEOREM Invariance == Spec => []IInv
<1> QED BY InitImpliesInv, StepKeepsInv, PTL DEF Spec

\* Every variable keeps to its type: the map, the iterator and the current
\* number stay within the numbers m_coNum has given out.
THEOREM CoroutineTypes == Spec => []TypeOK
<1>1. IInv => TypeOK
  BY DEF IInv
<1> QED BY <1>1, Invariance, PTL

\* A scan of CoScheduler::start skips no coroutine of the map, whatever number
\* of them end, and are erased, on its way.
THEOREM ScanReachesAll == Spec => []ScanServesAll
<1>1. IInv => ScanServesAll
  BY DEF IInv
<1> QED BY <1>1, Invariance, PTL

\* A task given to create_coroutine is in one place at a time until it has
\* run: among the pending ones, in the map, or finished.
THEOREM NoTaskIsLost == Spec => []TasksConserved
<1>1. IInv => TasksConserved
  BY DEF IInv
<1> QED BY <1>1, Invariance, PTL
\* The asserts of yield() and schedule(): the coroutine that is running is in
\* the map under m_curCo, and the iterator of the scan still points to it.
THEOREM CurrentIsInMap == Spec => [](InCoroutine => curCo \in Numbers /\ pos = curCo)
<1>1. IInv => (InCoroutine => curCo \in Numbers /\ pos = curCo)
  BY DEF IInv, PosInv, InCoroutine
<1> QED BY <1>1, Invariance, PTL
=============================================================================
