---------------------------- MODULE EchoCoroutine ----------------------------
(***************************************************************************)
(* examples/echo/EchoServer_coroutine.cpp: the main thread accepts, and     *)
(* hands a copy of each ConnSocket to the scheduler of another thread, in   *)
(* the task of a coroutine that serves it.  Both threads copy and destroy   *)
(* ConnSockets of one SocketGuard, whose m_count is a plain int: what a     *)
(* copy constructor or a destructor does to it takes several steps here.    *)
(*                                                                         *)
(* A task stands for its connection.  Reading and writing are left out: a   *)
(* coroutine yields, or returns when its client has gone.                   *)
(***************************************************************************)
EXTENDS CoSchedulerThread

VARIABLES count,       \* m_count of the guard of each connection
          open,        \* TRUE: its descriptor is
          living,      \* history: how many ConnSockets share the guard
          ops,         \* each thread: the copies and ends it still has to do,
          step,        \*   where it is in the first of them,
          loaded       \*   and what it has read of m_count there

guardVars == <<count, open, living>>
doingVars == <<ops, step, loaded>>
echoVars == <<vars, guardVars, doingVars>>

Threads == {"main", "loop"}
Copy(t) == [op |-> "copy", of |-> t]
End(t) == [op |-> "end", of |-> t]

EchoInit == /\ Init
            /\ count = [t \in Tasks |-> 0] /\ open = [t \in Tasks |-> FALSE]
            /\ living = [t \in Tasks |-> 0]
            /\ ops = [th \in Threads |-> <<>>] /\ step = [th \in Threads |-> "load"]
            /\ loaded = [th \in Threads |-> 0]
-----------------------------------------------------------------------------
(* ++ m_guard->m_count, and -- m_guard->m_count with the test after it *)

Doing(th, o) == ops[th] # <<>> /\ Head(ops[th]).op = o
Its(th) == Head(ops[th]).of
Finished(th) == /\ ops' = [ops EXCEPT ![th] = Tail(@)]
                /\ step' = [step EXCEPT ![th] = "load"]

Load(th) == /\ ops[th] # <<>> /\ step[th] = "load"
            /\ loaded' = [loaded EXCEPT ![th] = count[Its(th)]]
            /\ step' = [step EXCEPT ![th] = "store"]
            /\ living' = IF Doing(th, "end") THEN [living EXCEPT ![Its(th)] = @ - 1] ELSE living
            /\ UNCHANGED <<ops, count, open>>

StoreMore(th) == /\ Doing(th, "copy") /\ step[th] = "store"
                 /\ count' = [count EXCEPT ![Its(th)] = loaded[th] + 1]
                 /\ living' = [living EXCEPT ![Its(th)] = @ + 1]
                 /\ Finished(th)
                 /\ UNCHANGED <<open, loaded>>

StoreLess(th) == /\ Doing(th, "end") /\ step[th] = "store"
                 /\ count' = [count EXCEPT ![Its(th)] = loaded[th] - 1]
                 /\ step' = [step EXCEPT ![th] = "test"]
                 /\ UNCHANGED <<open, living, ops, loaded>>

\* m_count is read again; at zero the guard is deleted and closes its descriptor.
TestZero(th) == /\ step[th] = "test"
                /\ open' = IF count[Its(th)] = 0 THEN [open EXCEPT ![Its(th)] = FALSE] ELSE open
                /\ Finished(th)
                /\ UNCHANGED <<count, living, loaded>>

CountStep(th) == /\ Load(th) \/ StoreMore(th) \/ StoreLess(th) \/ TestZero(th)
                 /\ UNCHANGED vars
-----------------------------------------------------------------------------
(* The calls that copy and destroy *)

Idle(th) == ops[th] = <<>>
Owes(th, s) == /\ ops' = [ops EXCEPT ![th] = s]
               /\ UNCHANGED <<guardVars, step, loaded>>

\* accept_nonblocking makes the first, std::bind, std::function and push_back
\* copy it before the task is visible; the first three end with the statement.
MainAccepts ==
    /\ Idle("main") /\ OwnerCreate
    /\ \E t \in created' \ created :
          /\ count' = [count EXCEPT ![t] = 4] /\ living' = [living EXCEPT ![t] = 4]
          /\ open' = [open EXCEPT ![t] = TRUE]
          /\ ops' = [ops EXCEPT !["main"] = <<End(t), End(t), End(t)>>]
    /\ UNCHANGED <<step, loaded>>

InLoop(A) == Idle("loop") /\ InThread(A)

\* Each Coroutine copies its task; then the vector of tasks goes out of scope.
LoopHandles ==
    /\ InLoop(HandlePending)
    /\ Owes("loop", [i \in DOMAIN pendingTasks |-> Copy(pendingTasks[i])]
                    \o [i \in DOMAIN pendingTasks |-> End(pendingTasks[i])])

\* echo() takes its ConnSocket by value: a copy when it is called.
LoopResumes ==
    /\ InLoop(Resume)
    /\ Owes("loop", IF coStore[pos].status = "READY" THEN <<Copy(coStore[pos].task)>> ELSE <<>>)

LoopReturns == InLoop(Return) /\ Owes("loop", <<End(coStore[curCo].task)>>)

\* Erasing a Coroutine destroys its task.
LoopAdvances ==
    /\ InLoop(Advance)
    /\ Owes("loop", IF FinishedAtPos THEN <<End(coStore[pos].task)>> ELSE <<>>)

Others == \/ OwnerStart \/ OwnerTest \/ OwnerSpurious \/ Publish \/ Notify
          \/ InLoop(StartLoop) \/ InLoop(CheckQuit) \/ InLoop(ScanDone) \/ InLoop(Yield)

EchoNext == \/ \E th \in Threads : CountStep(th)
            \/ MainAccepts \/ LoopHandles \/ LoopResumes \/ LoopReturns \/ LoopAdvances
            \/ Others /\ UNCHANGED <<guardVars, doingVars>>

EchoSpec == EchoInit /\ [][EchoNext]_echoVars
-----------------------------------------------------------------------------
(* Safety *)

\* A descriptor is closed with the last ConnSocket that stands for it, and not
\* before.
LivesAsLongAsHeld == \A t \in Tasks : living[t] > 0 => open[t]
=============================================================================
