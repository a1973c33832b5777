------------------------------- MODULE Sockets -------------------------------
(***************************************************************************)
(* Connections as tools/socket sees them: the peer of each, the bytes under *)
(* way in both directions, the queue of a listening socket and the          *)
(* descriptors of the process; and what the calls of SocketsOps and         *)
(* ServerSocket do to them.  Bytes of one direction are counted, TCP keeps  *)
(* their order.                                                             *)
(*                                                                         *)
(* peer[c]: "off", no connection; "up"; "shut", the client sends no more,   *)
(* and still reads; "fin", it closed; "finrst", and then reset the          *)
(* connection; "rst", it reset the connection; "rstseen", and a call has    *)
(* returned that error.                                                     *)
(***************************************************************************)
EXTENDS Naturals, Sequences, FiniteSets

CONSTANTS Clients,
          Fds,             \* descriptors accept may return,
          Limits,          \*   and the limits there may be on them (RLIMIT_NOFILE)
          NoClient,
          BUFFER_SZ,
          InCap, OutCap    \* bounds: bytes the kernel holds in each direction

ASSUME SocketsAssumption ==
    /\ Fds \subseteq Nat /\ IsFiniteSet(Fds) /\ Limits \subseteq Nat
    /\ NoClient \notin Clients
    /\ BUFFER_SZ \in Nat \ {0} /\ InCap \in Nat \ {0} /\ OutCap \in Nat \ {0}

VARIABLES peer, inbox, outbox,
          backlog,         \* connections the listening socket has ready
          file,            \* the connection of each descriptor, or NoClient
          limit,           \* the least descriptor the process must not have
          killed           \* SIGPIPE has ended the process

ioVars == <<peer, inbox, outbox, limit, killed>>
kernelVars == <<peer, inbox, outbox, backlog, file, limit, killed>>

Least(m, n) == IF m < n THEN m ELSE n
Room(c) == OutCap - outbox[c]
Ended(c) == peer[c] # "up"                   \* no more bytes come from c
Gone(c) == peer[c] \notin {"up", "shut"}     \* nor does it take any

NetTypeOK == /\ peer \in [Clients -> {"off", "up", "shut", "fin", "finrst", "rst", "rstseen"}]
             /\ inbox \in [Clients -> 0 .. InCap] /\ outbox \in [Clients -> 0 .. OutCap]
             /\ backlog \in Seq(Clients)
             /\ file \in [Fds -> Clients \union {NoClient}]
             /\ limit \in Limits /\ killed \in BOOLEAN

NetInit == /\ peer = [c \in Clients |-> "off"]
           /\ inbox = [c \in Clients |-> 0] /\ outbox = [c \in Clients |-> 0]
           /\ backlog = <<>>
           /\ file = [fd \in Fds |-> NoClient]
           /\ limit \in Limits /\ killed = FALSE
-----------------------------------------------------------------------------
(* The clients: programs that connect, send, receive, shut down their sending *)
(* side and close, as they like; EchoClient.cpp is one.                       *)

Connect(c) == /\ peer[c] = "off"
              /\ peer' = [peer EXCEPT ![c] = "up"]
              /\ backlog' = Append(backlog, c)
              /\ UNCHANGED <<inbox, outbox, file, limit, killed>>

Send(c) == /\ peer[c] = "up"
           /\ inbox[c] < InCap
           /\ inbox' = [inbox EXCEPT ![c] = @ + 1]
           /\ UNCHANGED <<peer, outbox, backlog, file, limit, killed>>

Receive(c) == /\ outbox[c] > 0
              /\ outbox' = [outbox EXCEPT ![c] = @ - 1]
              /\ UNCHANGED <<peer, inbox, backlog, file, limit, killed>>

\* shutdown(SHUT_WR)
ShutDown(c) == /\ peer[c] = "up"
               /\ peer' = [peer EXCEPT ![c] = "shut"]
               /\ UNCHANGED <<inbox, outbox, backlog, file, limit, killed>>

\* close(), or the death of the client: bytes it has not read, or that reach it
\* later, make its kernel reset the connection.
HangUp(c) == /\ ~Gone(c)
             /\ \E p \in IF outbox[c] = 0 THEN {"fin"} ELSE {"fin", "finrst", "rst"} :
                   peer' = [peer EXCEPT ![c] = p]
             /\ outbox' = [outbox EXCEPT ![c] = 0]
             /\ UNCHANGED <<inbox, backlog, file, limit, killed>>

ClientStep(c) == Connect(c) \/ Send(c) \/ Receive(c) \/ ShutDown(c) \/ HangUp(c)
-----------------------------------------------------------------------------
(* read, write and readiness of a connection *)

Readable(c) == inbox[c] > 0 \/ Ended(c)

\* Bytes that came before a reset are still read; a reset is an error once.
ReadsData(c) == inbox[c] > 0
ReadsError(c) == inbox[c] = 0 /\ peer[c] \in {"up", "rst"}     \* EAGAIN, ECONNRESET
ReadsEnd(c) == inbox[c] = 0 /\ peer[c] \in {"shut", "fin", "finrst", "rstseen"}

PeerAfterError(c) == IF peer[c] = "rst" THEN [peer EXCEPT ![c] = "rstseen"] ELSE peer

\* What a write of n bytes does, apart from the bytes that go to a peer that
\* takes them: a peer that has closed resets the connection at once or later, a reset
\* not yet reported is, and after that the signal comes.
write(c, n) ==
    \/ ~Gone(c) /\ UNCHANGED <<peer, killed>>
    \/ /\ peer[c] = "fin"
       /\ \E p \in IF n = 0 THEN {"fin"} ELSE {"fin", "finrst"} :
             peer' = [peer EXCEPT ![c] = p]
       /\ UNCHANGED killed
    \/ peer[c] = "rst" /\ peer' = [peer EXCEPT ![c] = "rstseen"] /\ UNCHANGED killed
    \/ peer[c] \in {"finrst", "rstseen"} /\ killed' = TRUE /\ UNCHANGED peer

Delivered(c, n) == IF Gone(c) THEN outbox ELSE [outbox EXCEPT ![c] = @ + n]
-----------------------------------------------------------------------------
(* accept *)

FreeFds == {fd \in Fds : fd < limit /\ file[fd] = NoClient}
LowestFree == {fd \in FreeFds : \A g \in FreeFds : fd <= g}

\* accept() or accept4() gives the lowest free descriptor to the oldest
\* connection.
AcceptsAs(fd) == /\ backlog # <<>>
                 /\ fd \in LowestFree
                 /\ file' = [file EXCEPT ![fd] = Head(backlog)]
                 /\ backlog' = Tail(backlog)
=============================================================================
