----------------------------- MODULE CoScheduler -----------------------------
(***************************************************************************)
(* tools/coroutine/CoScheduler: one thread runs coroutines in turn.  It     *)
(* scans a map from numbers to coroutines, switches to each one that is     *)
(* ready or suspended, erases the finished ones, and after each scan turns  *)
(* the tasks queued under m_mutex into new coroutines.  A coroutine runs    *)
(* until it yields or ends: nothing else of the scheduler thread happens    *)
(* meanwhile, while other threads may queue tasks and quit.                 *)
(***************************************************************************)
EXTENDS Integers, Sequences, FiniteSets

CONSTANT Tasks          \* one element per create_coroutine: the bound on it

VARIABLES coStore,      \* m_coStore: from number to [status, task]
          coNum,        \* m_coNum
          curCo,        \* m_curCo
          pos,          \* the iterator of the scan; coNum is end()
          pendingTasks,
          quit,
          loopPc,       \* the scheduler thread
          created,      \* history: tasks passed to create_coroutine,
          finished,     \*   tasks that ran to their end,
          served        \*   and the numbers switched to in this scan

schedVars == <<coStore, coNum, curCo, pos, pendingTasks, quit, loopPc>>
coVars == <<schedVars, created, finished, served>>

Numbers == DOMAIN coStore
Coroutine(t) == [status |-> "READY", task |-> t]

CoTypeOK ==
    /\ coNum \in Nat
    /\ Numbers \subseteq 0 .. coNum - 1
    /\ \A n \in Numbers :
          coStore[n] \in [status : {"READY", "SUSPENDED", "RUNNING", "FINISHED"},
                          task : Tasks]
    /\ curCo \in -1 .. coNum - 1
    /\ pos \in 0 .. coNum
    /\ pendingTasks \in Seq(Tasks)
    /\ quit \in BOOLEAN
    /\ loopPc \in {"unborn", "built", "notify", "idle", "check", "scan",
                   "coroutine", "after", "pending", "ended"}
    /\ created \subseteq Tasks /\ finished \subseteq Tasks
    /\ served \subseteq 0 .. coNum - 1

CoInit == /\ coStore = <<>> /\ coNum = 0 /\ curCo = -1 /\ pos = 0
          /\ pendingTasks = <<>> /\ quit = FALSE
          /\ loopPc = "unborn"
          /\ created = {} /\ finished = {} /\ served = {}

\* The iterator after n: the next number in the map, or end().
After(S, n) == LET larger == {k \in S : k > n}
               IN  IF larger = {} THEN coNum
                   ELSE CHOOSE k \in larger : \A j \in larger : k <= j

StoreWith(n, c) == [k \in Numbers \union {n} |-> IF k = n THEN c ELSE coStore[k]]
StoreWithout(n) == [k \in Numbers \ {n} |-> coStore[k]]
SetStatus(s) == [coStore EXCEPT ![curCo].status = s]
-----------------------------------------------------------------------------
(* create_coroutine *)

\* From another thread, or inside a coroutine: queue the task.
Queue(t) == /\ t \notin created
            /\ created' = created \union {t}
            /\ pendingTasks' = Append(pendingTasks, t)
            /\ UNCHANGED <<coStore, coNum, curCo, pos, quit, loopPc, finished, served>>

\* In the scheduler's thread with no coroutine current: into the map at once.
CreateDirect(t) == /\ loopPc = "idle" /\ curCo = -1
                   /\ t \notin created
                   /\ created' = created \union {t}
                   /\ coStore' = StoreWith(coNum, Coroutine(t))
                   /\ coNum' = coNum + 1
                   /\ UNCHANGED <<curCo, pos, pendingTasks, quit, loopPc, finished, served>>

QuitLoop == /\ quit' = TRUE
            /\ UNCHANGED <<coStore, coNum, curCo, pos, pendingTasks, loopPc>>
            /\ UNCHANGED <<created, finished, served>>
-----------------------------------------------------------------------------
(* start() *)

StartLoop == /\ loopPc = "idle"
             /\ quit' = FALSE
             /\ loopPc' = "check"
             /\ UNCHANGED <<coStore, coNum, curCo, pos, pendingTasks>>
             /\ UNCHANGED <<created, finished, served>>

\* while(!m_quit): begin a scan, or leave the coroutines and tasks as they are.
LeavesWhenEmpty == quit /\ Numbers = {}
LeavesAtOnce == quit
Leaves == LeavesAtOnce

CheckQuit == /\ loopPc = "check"
             /\ loopPc' = IF Leaves THEN "ended" ELSE "scan"
             /\ pos' = After(Numbers, -1)
             /\ served' = {}
             /\ UNCHANGED <<coStore, coNum, curCo, pendingTasks, quit, created, finished>>

\* swapcontext to a READY or SUSPENDED coroutine.
Resume == /\ loopPc = "scan" /\ pos \in Numbers
          /\ coStore[pos].status \in {"READY", "SUSPENDED"}
          /\ curCo' = pos
          /\ coStore' = [coStore EXCEPT ![pos].status = "RUNNING"]
          /\ served' = served \union {pos}
          /\ loopPc' = "coroutine"
          /\ UNCHANGED <<coNum, pos, pendingTasks, quit, created, finished>>

\* yield(): m_curCo keeps naming the coroutine that gave up the thread.
Yield == /\ loopPc = "coroutine"
         /\ coStore' = SetStatus("SUSPENDED")
         /\ loopPc' = "after"
         /\ UNCHANGED <<coNum, curCo, pos, pendingTasks, quit, created, finished, served>>

\* schedule(): the task returns, and no coroutine is current.
Return == /\ loopPc = "coroutine"
          /\ coStore' = SetStatus("FINISHED")
          /\ finished' = finished \union {coStore[curCo].task}
          /\ curCo' = -1
          /\ loopPc' = "after"
          /\ UNCHANGED <<coNum, pos, pendingTasks, quit, created, served>>

SkipsOne(S, n) == After(S, After(S, n))
AfterErase(S, n) == After(S, n)

FinishedAtPos == curCo = -1 /\ coStore[pos].status = "FINISHED"

\* Back from the coroutine: erase it if it finished, and move on.
Advance == /\ loopPc = "after"
           /\ \/ /\ FinishedAtPos
                 /\ coStore' = StoreWithout(pos)
                 /\ pos' = AfterErase(Numbers, pos)
              \/ /\ ~FinishedAtPos
                 /\ pos' = After(Numbers, pos)
                 /\ UNCHANGED coStore
           /\ loopPc' = "scan"
           /\ UNCHANGED <<coNum, curCo, pendingTasks, quit, created, finished, served>>

ScanDone == /\ loopPc = "scan" /\ pos \notin Numbers
            /\ loopPc' = "pending"
            /\ UNCHANGED <<coStore, coNum, curCo, pos, pendingTasks, quit>>
            /\ UNCHANGED <<created, finished, served>>

KeepsTasks == pendingTasks
DropsTasks == <<>>
AfterSwap == DropsTasks

\* The number of the next coroutine, and how many are made of the tasks.
StoreSize == Cardinality(Numbers)
OneAhead == coNum + 1
NextNumber == coNum

AllButLast == IF pendingTasks = <<>> THEN 0 ELSE Len(pendingTasks) - 1
AllTasks == Len(pendingTasks)
TasksMade == AllTasks

\* handle_pending_tasks: the swap is atomic, and what follows concerns this
\* thread only.
HandlePending ==
    /\ loopPc = "pending"
    /\ LET new == NextNumber .. NextNumber + TasksMade - 1
       IN  coStore' = [k \in Numbers \union new |->
                         IF k \in new THEN Coroutine(pendingTasks[k - NextNumber + 1])
                         ELSE coStore[k]]
    /\ coNum' = coNum + TasksMade
    /\ pendingTasks' = AfterSwap
    /\ pos' = 0
    /\ loopPc' = "check"
    /\ UNCHANGED <<curCo, quit, created, finished, served>>

LoopStep == CheckQuit \/ Resume \/ Advance \/ ScanDone \/ HandlePending
SwitchBack == Yield \/ Return

\* What a coroutine may do besides giving up the thread.
CoCreate == loopPc = "coroutine" /\ \E t \in Tasks : Queue(t)
CoQuit == loopPc = "coroutine" /\ ~quit /\ QuitLoop
-----------------------------------------------------------------------------
(* Safety *)

\* A full scan switches to every coroutine in the map.
ScanServesAll == loopPc = "pending" => Numbers \subseteq served

TasksIn(S) == {coStore[n].task : n \in {k \in Numbers : coStore[k].status \in S}}
TasksPending == {pendingTasks[i] : i \in DOMAIN pendingTasks}

\* A created task is pending, or in the map, or finished: never lost and never
\* in two places.
TasksConserved ==
    LET alive == TasksIn({"READY", "SUSPENDED", "RUNNING"})
    IN  /\ created = TasksPending \union alive \union finished
        /\ TasksPending \intersect (alive \union finished) = {}
        /\ alive \intersect finished = {}
        /\ \A i, j \in DOMAIN pendingTasks : pendingTasks[i] = pendingTasks[j] => i = j
        /\ \A n, k \in Numbers : coStore[n].task = coStore[k].task => n = k
=============================================================================
