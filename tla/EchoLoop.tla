------------------------------ MODULE EchoLoop -------------------------------
(***************************************************************************)
(* What the echo servers of examples/echo have in common: the listening     *)
(* socket, a pool of ConnSockets, a buffer that a read fills and a write    *)
(* sends back.  A read and the write after it are one step where neither    *)
(* blocks: what the clients do between them could as well come before the   *)
(* read or after the write.                                                 *)
(***************************************************************************)
EXTENDS ConnSocket, SequencesExt

CONSTANTS ListenFd,
          NoFd,
          Binary           \* clients whose bytes are not text: zeros among them

ASSUME LoopAssumption == /\ ListenFd \in Nat /\ \A fd \in Fds : ListenFd < fd
                         /\ NoFd \notin Fds \union {ListenFd}
                         /\ Binary \subseteq Clients

VARIABLES pc,              \* where the loop is
          connSocket,      \* the local variable: its descriptor, or NoFd
          connPool,        \* descriptors of the ConnSockets the pool holds
          iter,            \* position in the list that is gone through
          nready

poolVars == <<connSocket, connPool>>
loopVars == <<pc, connSocket, connPool, iter, nready>>

LoopInit == pc = "wait" /\ connSocket = NoFd /\ connPool = <<>> /\ iter = 1 /\ nready = 0
LoopTypeOK ==
    /\ pc \in {"wait", "accept", "store", "scan", "erase", "read", "write", "undefined"}
    /\ connSocket \in Fds \union {NoFd}
    /\ connPool \in Seq(Fds)
    /\ iter \in Nat \ {0} /\ nready \in Nat

\* The loop goes on at p and i.  When a round is over, iter and nready are dropped:
\* the next round sets them before it reads them.
Goto(p, i, n) == /\ pc' = p
                 /\ iter' = IF p = "wait" THEN 1 ELSE i
                 /\ nready' = IF p = "wait" THEN 0 ELSE n

StopsEarly(list, i, marked, n) ==
    LET at == {j \in i .. Len(list) : list[j] \in marked}
    IN  IF at = {} \/ n <= 1 THEN Goto("wait", 1, 0)
        ELSE \E j \in at : (\A k \in at : j <= k) /\ Goto("scan", j, n)

\* The round goes on at the next entry of list, from i on, that is marked; it is
\* over if there is none, or nothing left to be done.
Resume(list, i, marked, n) ==
    LET at == {j \in i .. Len(list) : list[j] \in marked}
    IN  IF at = {} \/ n = 0 THEN Goto("wait", 1, 0)
        ELSE \E j \in at : (\A k \in at : j <= k) /\ Goto("scan", j, n)

\* A call that waits reports it for reading.
Ready(fd) == IF fd = ListenFd THEN backlog # <<>>
             ELSE file[fd] # NoClient /\ Readable(file[fd])
-----------------------------------------------------------------------------
(* ConnSocket connSocket = ss.accept_nonblocking(), and its end *)

Accept(fd) == /\ AcceptsAs(fd)
              /\ count' = Made(count, fd)
              /\ connSocket' = fd
              /\ UNCHANGED ioVars

\* accept fails: with EAGAIN if no connection is there, with EMFILE if no
\* descriptor is, and at any time with ECONNABORTED, ENFILE, ENOMEM and others.
\* LOG_SYSERR or LOG_SYSFATAL is told, and passes errno where a string is due,
\* before ServerSocket can throw: anything may follow.
AcceptFails == /\ Goto("undefined", iter, nready)
               /\ UNCHANGED <<kernelVars, count, connSocket>>

\* The pool takes a copy, and the local one goes out of scope.
PushBack(k) == /\ CountsBecome(Destroyed(Copied(k, connSocket), connSocket))
               /\ connPool' = Append(connPool, connSocket)
               /\ connSocket' = NoFd

\* map::insert copies into a pair and from it into the map, unless it has the key.
CopiedTwice(k, fd) == Copied(k, fd)
CopiedOnce(k, fd) == Destroyed(Copied(k, fd), fd)
ThroughPair(k, fd) == CopiedOnce(k, fd)

InPool(fd) == \E i \in DOMAIN connPool : connPool[i] = fd
Insert == IF InPool(connSocket)
          THEN /\ CountsBecome(Destroyed(count, connSocket))
               /\ connSocket' = NoFd /\ UNCHANGED connPool
          ELSE PushBack(ThroughPair(count, connSocket))

\* map::erase
EraseFromPool(fd) == \E i \in DOMAIN connPool :
    /\ connPool[i] = fd
    /\ connPool' = RemoveAt(connPool, i)
    /\ CountsBecome(Destroyed(count, fd))
-----------------------------------------------------------------------------
(* read() and write() *)

Taken(c) == Least(inbox[c], BUFFER_SZ)
InboxAfter(c) == [inbox EXCEPT ![c] = @ - Taken(c)]

\* write(buf, len), and write(buf, strlen(buf)): strlen stops at the first zero,
\* and beyond the buffer (here by one byte) if the bytes read have none and fill it.
StringLength(c) == LET n == Taken(c)
                   IN  (IF c \in Binary THEN 0 .. n - 1 ELSE {})
                       \union (IF n < BUFFER_SZ THEN {n} ELSE {n, n + 1})
WholeLength(c) == {Taken(c)}

\* A write takes what there is room for; the servers ignore what it returns.
EchoBack(c, lengths) ==
    /\ ReadsData(c)
    /\ inbox' = InboxAfter(c)
    /\ \E m \in lengths : write(c, m) /\ outbox' = Delivered(c, Least(m, Room(c)))
    /\ UNCHANGED <<backlog, file, limit, count>>

ReadFails(c) == /\ ReadsError(c)
                /\ peer' = PeerAfterError(c)
                /\ UNCHANGED <<inbox, outbox, backlog, file, limit, killed, count>>
=============================================================================
