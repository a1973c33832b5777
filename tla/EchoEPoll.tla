------------------------------ MODULE EchoEPoll ------------------------------
(* examples/echo/EchoServer_epoll.cpp *)
EXTENDS EchoLoop

CONSTANT EventListSize     \* 16 in the code

ASSUME EPollAssumption == EventListSize \in Nat \ {0}

VARIABLES interest,        \* the kernel's list of the descriptors added to epfd
          eventList        \* revents: the descriptor of each event, NoFd where all is zero

epollVars == <<interest, eventList>>

Empty(n) == [i \in 1 .. n |-> NoFd]

EPollInit == interest = {ListenFd} /\ eventList = Empty(EventListSize)
EPollTypeOK == /\ interest \subseteq Fds \union {ListenFd}
               /\ eventList \in Seq(Fds \union {ListenFd, NoFd})

ReadyFds == {fd \in interest : Ready(fd)}
Reported == Least(Len(eventList), Cardinality(ReadyFds))

\* epoll_wait() fills the front of the list, in any order; if it fills all of
\* it, the list doubles.
EPollWait ==
    /\ pc = "wait"
    /\ ReadyFds # {}
    /\ \E told \in [1 .. Reported -> ReadyFds] :
          /\ \A i, j \in 1 .. Reported : told[i] = told[j] => i = j
          /\ eventList' = [i \in DOMAIN eventList |->
                             IF i <= Reported THEN told[i] ELSE eventList[i]]
                          \o (IF Reported = Len(eventList) THEN Empty(Len(eventList)) ELSE <<>>)
    /\ Goto("scan", 1, Reported)
    /\ UNCHANGED <<kernelVars, count, poolVars, interest>>

\* The loop is over all of the list, not over the first nready events, and skips
\* those that are not EPOLLIN.
Event == eventList[iter]
NextEvent == Resume(eventList, iter + 1, Fds \union {ListenFd}, nready)

EPollAccept == /\ pc = "scan" /\ Event = ListenFd
               /\ \/ \E fd \in Fds : Accept(fd) /\ Goto("store", iter, nready)
                  \/ AcceptFails
               /\ UNCHANGED <<connPool, epollVars>>

EPollStore == /\ pc = "store"
              /\ Insert
              /\ interest' = interest \union {connSocket}
              /\ NextEvent
              /\ UNCHANGED eventList

OfConnection == pc = "scan" /\ Event # ListenFd

\* connPool.find returns end(), which is dereferenced: anything may follow.
EPollLost == /\ OfConnection /\ ~InPool(Event)
             /\ Goto("undefined", iter, nready)
             /\ UNCHANGED <<kernelVars, count, poolVars, epollVars>>

EPollEcho == /\ OfConnection /\ InPool(Event)
             /\ EchoBack(file[Event], WholeLength(file[Event])) \/ ReadFails(file[Event])
             /\ NextEvent
             /\ UNCHANGED <<poolVars, epollVars>>

\* The kernel forgets a descriptor that is closed.
StillOpen == {fd \in interest : fd \in Fds => file'[fd] # NoClient}

EPollEnd == /\ OfConnection /\ InPool(Event)
            /\ ReadsEnd(file[Event])
            /\ EraseFromPool(Event)
            /\ interest' = StillOpen
            /\ NextEvent
            /\ UNCHANGED <<connSocket, eventList>>

EPollStep == EPollWait \/ EPollAccept \/ EPollStore \/ EPollLost \/ EPollEcho \/ EPollEnd
=============================================================================
