---------------------------- MODULE EchoBlocking -----------------------------
(* examples/echo/EchoServer.cpp: one connection after the other, with calls *)
(* that block.                                                               *)
EXTENDS EchoLoop

VARIABLE unsent            \* bytes of the answer that write() has not yet passed on

BlockingInit == unsent = 0
BlockingTypeOK == unsent \in 0 .. BUFFER_SZ + 1

Peer == file[connSocket]

\* accept() waits for a connection, and may fail before one comes.
BlockingAccept == /\ pc = "wait"
                  /\ \/ \E fd \in Fds : Accept(fd) /\ Goto("read", 1, 0)
                     \/ AcceptFails
                  /\ UNCHANGED <<connPool, unsent>>

BlockingRead == /\ pc = "read" /\ ReadsData(Peer)
                /\ inbox' = InboxAfter(Peer)
                /\ \E m \in StringLength(Peer) : unsent' = m
                /\ Goto("write", 1, 0)
                /\ UNCHANGED <<peer, outbox, backlog, file, limit, killed, count, poolVars>>

\* read() waits while the client may send and is silent; at its end, or after an error,
\* connSocket goes out of scope.
BlockingEnd == /\ pc = "read" /\ ~ReadsData(Peer) /\ Ended(Peer)
               /\ CountsBecome(Destroyed(count, connSocket))
               /\ connSocket' = NoFd
               /\ Goto("wait", 1, 0)
               /\ UNCHANGED <<connPool, unsent>>

\* write() waits for room until all is passed on, or the client is gone.
BlockingWrite ==
    /\ pc = "write"
    /\ \/ Gone(Peer) /\ write(Peer, unsent) /\ unsent' = 0 /\ Goto("read", 1, 0)
          /\ UNCHANGED outbox
       \/ LET k == Least(unsent, Room(Peer))
          IN  /\ ~Gone(Peer) /\ (k > 0 \/ unsent = 0)
              /\ outbox' = Delivered(Peer, k)
              /\ unsent' = unsent - k
              /\ Goto(IF k = unsent THEN "read" ELSE "write", 1, 0)
              /\ UNCHANGED <<peer, killed>>
    /\ UNCHANGED <<inbox, backlog, file, limit, count, poolVars>>

BlockingStep == BlockingAccept \/ BlockingRead \/ BlockingEnd \/ BlockingWrite
=============================================================================
