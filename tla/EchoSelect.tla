----------------------------- MODULE EchoSelect ------------------------------
(* examples/echo/EchoServer_select.cpp *)
EXTENDS EchoLoop

CONSTANT FD_SETSIZE        \* the sets of select() have the descriptors below it

VARIABLES maxfd, allfds, rfds,
          hole             \* in vector::erase: the element to assign to next

selectVars == <<maxfd, allfds, rfds, hole>>

SelectInit == maxfd = ListenFd /\ allfds = {ListenFd} /\ rfds = {} /\ hole = 0
SelectTypeOK == /\ maxfd \in Fds \union {ListenFd}
                /\ allfds \subseteq Fds \union {ListenFd} /\ rfds \subseteq Fds \union {ListenFd}
                /\ hole \in 0 .. Len(connPool)

\* rfds is of no use to the next round.
KeepRfds == rfds' = IF pc' = "wait" THEN {} ELSE rfds

\* select() looks at the descriptors below its first argument only.
SelectWait == /\ pc = "wait"
              /\ rfds' = {fd \in allfds : fd <= maxfd /\ Ready(fd)}
              /\ rfds' # {}
              /\ IF ListenFd \in rfds' THEN Goto("accept", 1, Cardinality(rfds'))
                 ELSE Resume(connPool, 1, rfds', Cardinality(rfds'))
              /\ UNCHANGED <<kernelVars, count, poolVars, maxfd, allfds, hole>>

\* maxfd becomes the newest descriptor, larger or not.  FD_SET is defined for it:
\* SelectAssumption of EchoServer.
SelectAccept == /\ pc = "accept"
                /\ \/ /\ \E fd \in Fds : /\ Accept(fd)
                                         /\ maxfd' = fd
                                         /\ allfds' = allfds \union {fd}
                      /\ Goto("store", iter, nready)
                   \/ AcceptFails /\ UNCHANGED <<maxfd, allfds>>
                /\ KeepRfds
                /\ UNCHANGED <<connPool, hole>>

SelectStore == /\ pc = "store"
               /\ PushBack(count)
               /\ Resume(connPool', 1, rfds, nready - 1)
               /\ KeepRfds
               /\ UNCHANGED <<maxfd, allfds, hole>>

\* The loop over the pool stops at the connections FD_ISSET finds in rfds.
Here == connPool[iter]

SelectEcho == /\ pc = "scan"
              /\ EchoBack(file[Here], WholeLength(file[Here])) \/ ReadFails(file[Here])
              /\ Resume(connPool, iter + 1, rfds, nready - 1)
              /\ KeepRfds
              /\ UNCHANGED <<poolVars, maxfd, allfds, hole>>

KeptIn(fd) == allfds
ClearedFrom(fd) == allfds \ {fd}
AllfdsAfterEnd(fd) == ClearedFrom(fd)

\* The end of a connection is not counted down.
SelectEnd == /\ pc = "scan"
             /\ ReadsEnd(file[Here])
             /\ allfds' = AllfdsAfterEnd(Here)
             /\ hole' = iter
             /\ Goto("erase", iter, nready)
             /\ UNCHANGED <<kernelVars, count, poolVars, maxfd, rfds>>

\* vector::erase assigns to each element from the hole on the one behind it, and
\* destroys the last.
SelectErase ==
    /\ pc = "erase"
    /\ \/ /\ hole < Len(connPool)
          /\ CountsBecome(Assigned(count, connPool[hole], connPool[hole + 1]))
          /\ connPool' = [connPool EXCEPT ![hole] = connPool[hole + 1]]
          /\ hole' = hole + 1
          /\ UNCHANGED <<pc, iter, nready>>
       \/ /\ hole = Len(connPool)
          /\ CountsBecome(Destroyed(count, connPool[hole]))
          /\ connPool' = SubSeq(connPool, 1, hole - 1)
          /\ hole' = 0
          /\ Resume(connPool', iter, rfds, nready)
    /\ KeepRfds
    /\ UNCHANGED <<connSocket, maxfd, allfds>>

SelectStep == SelectWait \/ SelectAccept \/ SelectStore \/ SelectEcho \/ SelectEnd \/ SelectErase
=============================================================================
