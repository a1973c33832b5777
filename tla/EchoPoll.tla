------------------------------ MODULE EchoPoll -------------------------------
(* examples/echo/EchoServer_poll.cpp *)
EXTENDS EchoLoop

VARIABLES pollfds,         \* the descriptors of the array, the listening one first
          revents,         \* those whose revents has POLLIN
          pdRevents        \* what pd.revents holds: nothing ever sets it

pollVars == <<pollfds, revents, pdRevents>>

PollInit == pollfds = <<ListenFd>> /\ revents = {} /\ pdRevents \in BOOLEAN
PollTypeOK == /\ pollfds \in Seq(Fds \union {ListenFd})
              /\ revents \subseteq Fds \union {ListenFd}
              /\ pdRevents \in BOOLEAN

\* poll() sets every revents again.
KeepRevents(after) == revents' = IF pc' = "wait" THEN {} ELSE after

PollWait == /\ pc = "wait"
            /\ revents' = {pollfds[i] : i \in {j \in DOMAIN pollfds : Ready(pollfds[j])}}
            /\ revents' # {}
            /\ IF ListenFd \in revents' THEN Goto("accept", 2, Cardinality(revents'))
               ELSE Resume(pollfds, 2, revents', Cardinality(revents'))
            /\ UNCHANGED <<kernelVars, count, poolVars, pollfds, pdRevents>>

\* The entry pushed has the events of pd, and whatever revents pd has.
PollAccept == /\ pc = "accept"
              /\ \/ \E fd \in Fds :
                       /\ Accept(fd)
                       /\ pollfds' = Append(pollfds, fd)
                       /\ Goto("store", iter, nready)
                       /\ revents' = IF pdRevents THEN revents \union {fd} ELSE revents
                 \/ AcceptFails /\ UNCHANGED <<pollfds, revents>>
              /\ UNCHANGED <<connPool, pdRevents>>

PollStore == /\ pc = "store"
             /\ Insert
             /\ Resume(pollfds, 2, revents, nready - 1)
             /\ KeepRevents(revents)
             /\ UNCHANGED <<pollfds, pdRevents>>

\* The loop stops at the entries with POLLIN in revents.
Entry == pollfds[iter]

\* connPool.find(iter->fd) finds the ConnSocket: BooksAgree.
PollEcho == /\ pc = "scan"
            /\ EchoBack(file[Entry], StringLength(file[Entry])) \/ ReadFails(file[Entry])
            /\ Resume(pollfds, iter + 1, revents, nready - 1)
            /\ KeepRevents(revents)
            /\ UNCHANGED <<poolVars, pollfds, pdRevents>>

PollfdsAfterEnd == RemoveAt(pollfds, iter)

PollEnd == /\ pc = "scan"
           /\ ReadsEnd(file[Entry])
           /\ pollfds' = PollfdsAfterEnd
           /\ EraseFromPool(Entry)
           /\ Resume(pollfds', iter, revents \ {Entry}, nready)
           /\ KeepRevents(revents \ {Entry})
           /\ UNCHANGED <<connSocket, pdRevents>>

PollStep == PollWait \/ PollAccept \/ PollStore \/ PollEcho \/ PollEnd
=============================================================================
