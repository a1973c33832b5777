----------------------------- MODULE EchoServer ------------------------------
(***************************************************************************)
(* The echo servers of examples/echo in one thread, each with any clients:  *)
(* server says which program runs.  A SIGPIPE ends it, and so may undefined *)
(* behaviour, as that of an accept that fails: nothing follows either.      *)
(***************************************************************************)
EXTENDS EchoSelect, EchoPoll, EchoEPoll, EchoBlocking

CONSTANT Servers           \* the programs that may run

ASSUME ServersAssumption == Servers \subseteq {"blocking", "select", "poll", "epoll"}

\* EchoServer_select.cpp puts whatever accept returns in its sets: it is taken to
\* run where the process can have no descriptor that they have no room for.
ASSUME SelectAssumption == "select" \in Servers => \A l \in Limits : l <= FD_SETSIZE

VARIABLE server

vars == <<kernelVars, count, loopVars, selectVars, pollVars, epollVars, unsent, server>>

TypeOK == /\ NetTypeOK /\ CountTypeOK /\ LoopTypeOK
          /\ SelectTypeOK /\ PollTypeOK /\ EPollTypeOK /\ BlockingTypeOK
          /\ server \in Servers

Init == /\ NetInit /\ count = [fd \in Fds |-> 0] /\ LoopInit
        /\ SelectInit /\ PollInit /\ EPollInit /\ BlockingInit
        /\ server \in Servers

Select == server = "select" /\ SelectStep /\ UNCHANGED <<pollVars, epollVars, unsent, server>>
Poll == server = "poll" /\ PollStep /\ UNCHANGED <<selectVars, epollVars, unsent, server>>
EPoll == server = "epoll" /\ EPollStep /\ UNCHANGED <<selectVars, pollVars, unsent, server>>
Blocking == server = "blocking" /\ BlockingStep /\ UNCHANGED <<selectVars, pollVars, epollVars, server>>

ServerStep == Select \/ Poll \/ EPoll \/ Blocking
Network == \E c \in Clients : ClientStep(c)

Alive == ~killed /\ pc # "undefined"

Next == /\ Alive
        /\ \/ ServerStep
           \/ Network /\ UNCHANGED <<count, loopVars, selectVars, pollVars, epollVars, unsent, server>>

Spec == Init /\ [][Next]_vars

\* The server's thread runs; nothing makes a client do anything.
FairSpec == Spec /\ WF_vars(Alive /\ ServerStep)
-----------------------------------------------------------------------------
(* Safety *)

Copies(fd) == {i \in DOMAIN connPool : connPool[i] = fd}
Locals(fd) == IF connSocket = fd THEN 1 ELSE 0

\* The count of a guard is the number of ConnSockets that share it, and its
\* descriptor is open as long as there is one: through copies, the assignments
\* of vector::erase, and descriptors used again.
OpenWhileHeld == \A fd \in Fds :
    /\ count[fd] = Cardinality(Copies(fd)) + Locals(fd)
    /\ file[fd] # NoClient <=> count[fd] > 0

\* The lists of a server agree: it waits for the listening socket and for every
\* connection of its pool, and for nothing else.
BooksAgree == pc \in {"wait", "scan"} =>
    LET watched == {ListenFd} \union {connPool[i] : i \in DOMAIN connPool}
    IN  CASE server = "select" -> allfds = watched
          [] server = "poll" -> {pollfds[i] : i \in DOMAIN pollfds} = watched
          [] server = "epoll" -> interest = watched
          [] OTHER -> connPool = <<>>

Accepting == CASE server = "blocking" -> pc = "wait"
               [] server = "epoll" -> pc = "scan" /\ Event = ListenFd
               [] OTHER -> pc = "accept"

\* An event just reported finds what it is about: accept, where it does not
\* wait, a connection (it fails for other reasons than EAGAIN), and
\* connPool.find() a ConnSocket.  Anything may follow only from an accept that
\* fails all the same, and where the server over epoll goes past the events just
\* reported, to what an earlier call left in its list.
FreshEventsFind ==
    [][pc' = "undefined" => \/ Accepting /\ (backlog # <<>> \/ server = "blocking")
                            \/ server = "epoll" /\ iter > nready]_vars

Queued(c) == \E i \in DOMAIN backlog : backlog[i] = c
Manner(s) == s \in {"select", "epoll"}
Promise == INSTANCE Echo WITH
    exact <- Manner(server), waits <- server = "blocking",
    stage <- [c \in Clients |-> IF peer[c] = "off" THEN "off"
                                ELSE IF Queued(c) THEN "queued"
                                ELSE "served"],
    done <- [c \in Clients |-> peer[c] \notin {"off", "up"}],
    left <- [c \in Clients |-> peer[c] \notin {"off", "up", "shut"}],
    asked <- inbox, answered <- outbox,
    owed <- [c \in Clients |-> IF connSocket # NoFd /\ pc = "write" /\ file[connSocket] = c
                               THEN unsent ELSE 0]

\* The server keeps the promise of Echo.
EchoPromise == Promise!Spec
-----------------------------------------------------------------------------
(* Liveness, under FairSpec *)

FdsOf(c) == {fd \in Fds : file[fd] = c}

\* c waits for the server: to be accepted, or to be read because it has sent bytes
\* or has left.
Waiting(c) == Alive /\ \/ Queued(c)
                       \/ \E fd \in FdsOf(c) : Ready(fd)

\* The server cannot see c, or serves another client first.
Overlooked(c) == CASE server = "select" -> \E fd \in FdsOf(c) : fd > maxfd
                   [] server = "blocking" -> pc = "write" \/ connSocket \notin FdsOf(c) \union {NoFd}
                   [] OTHER -> FALSE

Attends(c) == \/ Queued(c) /\ ~Queued(c)'
              \/ inbox'[c] < inbox[c]
              \/ peer[c] # "off" /\ peer'[c] = "off"

\* A server starves nobody as long as it lives: who waits is accepted, read from
\* and released again and again, whatever the others do.  Excepted are a descriptor that select's
\* first argument leaves out, and waiting for the blocking server's one client.
NobodyStarves == \A c \in Clients :
    []<>(~Waiting(c) \/ Overlooked(c)) \/ []<><<Attends(c)>>_vars
=============================================================================
