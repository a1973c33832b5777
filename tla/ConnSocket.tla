----------------------------- MODULE ConnSocket ------------------------------
(***************************************************************************)
(* tools/socket/ConnSocket: handles that share a descriptor through a       *)
(* SocketGuard, which counts them and closes the descriptor with the last.  *)
(* A guard is named by its descriptor: while it lives, no other has it.     *)
(* The operators say what a call does to the counts of one thread.          *)
(***************************************************************************)
EXTENDS Sockets

VARIABLE count             \* m_count of the guard of each descriptor; 0: no guard

CountTypeOK == count \in [Fds -> Nat]

Made(k, fd) == [k EXCEPT ![fd] = 1]
Copied(k, fd) == [k EXCEPT ![fd] = @ + 1]
Destroyed(k, fd) == [k EXCEPT ![fd] = @ - 1]

LeavesOnly(k, to, from) == Destroyed(k, to)
LeavesBoth(k, to, from) == Destroyed(Destroyed(k, to), from)

\* operator= leaves the guard of its left side before it joins the other's.
Assigned(k, to, from) == Copied(Destroyed(k, to), from)

\* The calls of a step leave the counts k: guards without a handle are deleted,
\* and close their descriptors.  What is still under way to a client that only
\* shut down is the kernels' matter from then on.
CountsBecome(k) ==
    LET closing == {fd \in Fds : file[fd] # NoClient /\ k[fd] = 0}
        ended == {file[fd] : fd \in closing}
    IN  /\ count' = k
        /\ file' = [fd \in Fds |-> IF fd \in closing THEN NoClient ELSE file[fd]]
        /\ peer' = [c \in Clients |-> IF c \in ended THEN "off" ELSE peer[c]]
        /\ inbox' = [c \in Clients |-> IF c \in ended THEN 0 ELSE inbox[c]]
        /\ outbox' = [c \in Clients |-> IF c \in ended THEN 0 ELSE outbox[c]]
        /\ UNCHANGED <<backlog, limit, killed>>
=============================================================================
