------------------------------ MODULE TaskQueue ------------------------------
(***************************************************************************)
(* What a thread pool promises its callers: tasks are handed to servers in  *)
(* the order they were submitted, each one once, and after the pool is      *)
(* closed at most one more task is handed out.                              *)
(***************************************************************************)
EXTENDS Sequences

CONSTANTS Tasks,     \* one element per submission
          Servers,
          NoTask

VARIABLES todo,      \* submitted and not handed out, oldest first
          serving,   \* the task each server holds
          finished,
          submitted,
          closed,
          late       \* TRUE while a dispatch decided before the closing is due

queueVars == <<todo, serving, finished, submitted, closed, late>>

Init == /\ todo = <<>>
        /\ serving = [s \in Servers |-> NoTask]
        /\ finished = {}
        /\ submitted = {}
        /\ closed = FALSE
        /\ late = FALSE

Submit(t) == /\ t \notin submitted
             /\ submitted' = submitted \union {t}
             /\ todo' = Append(todo, t)
             /\ UNCHANGED <<serving, finished, closed, late>>

Dispatch(s) == /\ todo # <<>>
               /\ serving[s] = NoTask
               /\ closed => late
               /\ serving' = [serving EXCEPT ![s] = Head(todo)]
               /\ todo' = Tail(todo)
               /\ late' = FALSE
               /\ UNCHANGED <<finished, submitted, closed>>

Finish(s) == /\ serving[s] # NoTask
             /\ finished' = finished \union {serving[s]}
             /\ serving' = [serving EXCEPT ![s] = NoTask]
             /\ UNCHANGED <<todo, submitted, closed, late>>

\* Closing leaves the queue as it is: what is still in it is never served.
Close == /\ ~closed
         /\ closed' = TRUE
         /\ late' \in BOOLEAN
         /\ UNCHANGED <<todo, serving, finished, submitted>>

Next == \/ \E t \in Tasks : Submit(t)
        \/ \E s \in Servers : Dispatch(s) \/ Finish(s)
        \/ Close

Spec == Init /\ [][Next]_queueVars
=============================================================================
