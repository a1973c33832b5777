-------------------------- MODULE EchoPromiseProofs --------------------------
(***************************************************************************)
(* The echo servers implement Echo, for any clients, descriptors, limits    *)
(* and sizes.  LineInv says where a client is: in the queue of the          *)
(* listening socket, or behind one descriptor, or nowhere; EraseInv, that   *)
(* vector::erase closes no connection whose client is still served.         *)
(***************************************************************************)
EXTENDS EchoServerProofs

\* A connection is queued once, and held by one descriptor once it is not.
QueueInv == /\ Injective(backlog)
            /\ \A c \in Clients : Queued(c) => peer[c] # "off"

FileInv == \A fd \in Fds : file[fd] # NoClient =>
    /\ peer[file[fd]] # "off" /\ ~Queued(file[fd])
    /\ \A g \in Fds : file[g] = file[fd] => g = fd

\* What was under way to a client that has gone is gone too.
GoneInv == \A c \in Clients : Gone(c) => outbox[c] = 0

LineInv == QueueInv /\ FileInv /\ GoneInv

\* The element that vector::erase assigns to next is the last handle of its
\* descriptor only if it is the one to go: its client sends no more, and all it
\* sent is read (that it resets the connection meanwhile changes nothing).
AtEnd(c) == inbox[c] = 0 /\ peer[c] \notin {"off", "up"}
EraseInv == pc = "erase" /\ count[connPool[hole]] = 1 => AtEnd(file[connPool[hole]])

-----------------------------------------------------------------------------
(* The steps of Echo, in terms of what stands for its variables *)

Stages == [c \in Clients |-> IF peer[c] = "off" THEN "off"
                             ELSE IF Queued(c) THEN "queued"
                             ELSE "served"]
Dones == [c \in Clients |-> peer[c] \notin {"off", "up"}]
Lefts == [c \in Clients |-> peer[c] \notin {"off", "up", "shut"}]
Owes == [c \in Clients |-> IF connSocket # NoFd /\ pc = "write" /\ file[connSocket] = c
                           THEN unsent ELSE 0]

AbstractStep == [Promise!Next]_(Promise!echoVars)

\* A step that Echo does not see.
LEMMA Stutters ==
  ASSUME UNCHANGED <<Stages, Dones, Lefts, Owes, inbox, outbox, server>>
  PROVE  AbstractStep
  BY DEF AbstractStep, Promise!echoVars, Stages, Dones, Lefts, Owes, Manner

\* One step of Echo each: a connection is accepted ...
LEMMA WelcomesClient ==
  ASSUME NEW c \in Clients, Stages[c] = "queued", Stages' = [Stages EXCEPT ![c] = "served"],
         UNCHANGED <<Dones, Lefts, Owes, inbox, outbox, server>>
  PROVE  AbstractStep
  <1>1. Promise!Welcome(c)
    BY DEF Promise!Welcome, Stages, Dones, Lefts, Owes
  <1> QED BY <1>1 DEF AbstractStep, Promise!Next, Manner

\* ... is given up ...
LEMMA ReleasesClient ==
  ASSUME NEW c \in Clients, Stages[c] = "served", Dones[c], inbox[c] = 0, Owes[c] = 0,
         Stages' = [Stages EXCEPT ![c] = "off"], Dones' = [Dones EXCEPT ![c] = FALSE],
         Lefts' = [Lefts EXCEPT ![c] = FALSE], outbox' = [outbox EXCEPT ![c] = 0],
         UNCHANGED <<Owes, inbox, server>>
  PROVE  AbstractStep
  <1>1. Promise!Release(c)
    BY DEF Promise!Release, Stages, Dones, Lefts, Owes
  <1> QED BY <1>1 DEF AbstractStep, Promise!Next, Manner

\* ... is answered at once ...
LEMMA AnswersClient ==
  ASSUME NEW c \in Clients, Stages[c] = "served", Owes[c] = 0, inbox[c] > 0,
         inbox' = InboxAfter(c), server # "blocking",
         NEW m \in Promise!Answers(c, Taken(c)),
         outbox' = IF Lefts[c] THEN outbox ELSE [outbox EXCEPT ![c] = @ + Least(m, Room(c))],
         UNCHANGED <<Stages, Dones, Lefts, Owes, server>>
  PROVE  AbstractStep
  <1>1. Promise!Answer(c)
    BY DEF Promise!Answer, Promise!PassOn, Promise!Min2, Stages, Dones, Lefts, Owes, InboxAfter, Taken, Least, Room
  <1> QED BY <1>1 DEF AbstractStep, Promise!Next, Manner

\* ... its client connects, sends, receives, ends what it sends or leaves ...
LEMMA ServesClient ==
  ASSUME NEW c \in Clients, UNCHANGED <<Owes, server>>,
         \/ /\ Stages[c] = "off" /\ Stages' = [Stages EXCEPT ![c] = "queued"]
            /\ UNCHANGED <<Dones, Lefts, inbox, outbox>>
         \/ /\ Stages[c] # "off" /\ ~Dones[c] /\ inbox' = [inbox EXCEPT ![c] = @ + 1]
            /\ UNCHANGED <<Stages, Dones, Lefts, outbox>>
         \/ /\ outbox[c] > 0 /\ outbox' = [outbox EXCEPT ![c] = @ - 1]
            /\ UNCHANGED <<Stages, Dones, Lefts, inbox>>
         \/ /\ Stages[c] # "off" /\ ~Dones[c] /\ Dones' = [Dones EXCEPT ![c] = TRUE]
            /\ UNCHANGED <<Stages, Lefts, inbox, outbox>>
         \/ /\ Stages[c] # "off" /\ ~Lefts[c] /\ Lefts' = [Lefts EXCEPT ![c] = TRUE]
            /\ Dones' = [Dones EXCEPT ![c] = TRUE]
            /\ outbox' = [outbox EXCEPT ![c] = 0] /\ UNCHANGED <<Stages, inbox>>
  PROVE  AbstractStep
  <1>1. Promise!Client(c)
    BY DEF Promise!Client, Stages, Dones, Lefts, Owes
  <1> QED BY <1>1 DEF AbstractStep, Promise!Next, Manner

\* ... a part of an answer is passed on ...
LEMMA ContinuesAnswer ==
  ASSUME NEW c \in Clients, NEW k \in 1 .. Owes[c], Owes[c] > 0, k = Owes[c] \/ ~Lefts[c],
         Owes' = [Owes EXCEPT ![c] = @ - k],
         outbox' = IF Lefts[c] THEN outbox ELSE [outbox EXCEPT ![c] = @ + k],
         UNCHANGED <<Stages, Dones, Lefts, inbox, server>>
  PROVE  AbstractStep
  <1>1. Promise!Continue(c)
    BY DEF Promise!Continue, Promise!PassOn, Stages, Dones, Lefts, Owes
  <1> QED BY <1>1 DEF AbstractStep, Promise!Next, Manner

\* ... and, by a server that waits, a request is read.
LEMMA ReadsAnswer ==
  ASSUME NEW c \in Clients, Stages[c] = "served", Owes[c] = 0, inbox[c] > 0,
         inbox' = InboxAfter(c), server = "blocking",
         NEW m \in Promise!Answers(c, Taken(c)), Owes' = [Owes EXCEPT ![c] = m],
         UNCHANGED <<Stages, Dones, Lefts, outbox, server>>
  PROVE  AbstractStep
  <1>1. Promise!Answer(c)
    BY DEF Promise!Answer, Promise!Min2, Stages, Dones, Lefts, Owes, InboxAfter, Taken, Least
  <1> QED BY <1>1 DEF AbstractStep, Promise!Next, Manner

\* strlen and nread give lengths that Echo allows to the server.
LEMMA LengthsAllowed ==
  ASSUME NetTypeOK, NEW c \in Clients, inbox[c] > 0
  PROVE  /\ server \in {"blocking", "poll"} => StringLength(c) \subseteq Promise!Answers(c, Taken(c))
         /\ server \in {"select", "epoll"} => WholeLength(c) \subseteq Promise!Answers(c, Taken(c))
  <1>1. Taken(c) \in Nat /\ Taken(c) > 0 /\ BUFFER_SZ \in Nat /\ Taken(c) <= BUFFER_SZ
    BY SocketsAssumption DEF NetTypeOK, Taken, Least
  <1>2. ASSUME server \in {"blocking", "poll"}
        PROVE  StringLength(c) \subseteq Promise!Answers(c, Taken(c))
    <2> DEFINE n == Taken(c)
    <2> HIDE DEF n
    <2>1. CASE c \in Binary
      BY <1>1, <1>2, <2>1 DEF StringLength, Promise!Answers, Manner
    <2>2. CASE c \notin Binary
      BY <1>1, <1>2, <2>2 DEF StringLength, Promise!Answers, Manner
    <2> QED BY <2>1, <2>2
  <1>3. server \in {"select", "epoll"} => WholeLength(c) \subseteq Promise!Answers(c, Taken(c))
    BY <1>1 DEF WholeLength, Promise!Answers, Manner
  <1> QED BY <1>2, <1>3

\* A server that does not block in write() owes nothing.
LEMMA NoneOwed ==
  ASSUME pc # "write", pc' # "write"
  PROVE  Owes' = Owes /\ \A c \in Clients : Owes[c] = 0
  BY DEF Owes
-----------------------------------------------------------------------------
(* What the steps do to connections, and to what stands for them *)

\* Peers keep being there, and keep being gone.
PeersStay == \A c \in Clients : /\ peer'[c] = "off" <=> peer[c] = "off"
                                /\ peer'[c] = "up" <=> peer[c] = "up"
                                /\ peer'[c] = "shut" <=> peer[c] = "shut"

\* Then nothing moves on the stages of Echo ...
LEMMA SamePeers ==
  ASSUME PeersStay, UNCHANGED backlog
  PROVE  Stages' = Stages /\ Dones' = Dones /\ Lefts' = Lefts /\ \A c \in Clients : Queued(c)' <=> Queued(c)
  BY DEF PeersStay, Stages, Dones, Lefts, Queued

\* ... and LineInv stays.
LEMMA SameLine ==
  ASSUME NetTypeOK, LineInv, PeersStay, UNCHANGED <<backlog, file>>,
         \A c \in Clients : outbox'[c] = outbox[c] \/ ~Gone(c)
  PROVE  LineInv'
  <1>1. \A c \in Clients : Queued(c)' <=> Queued(c)
    BY SamePeers
  <1>2. QueueInv'
    BY <1>1 DEF LineInv, QueueInv, PeersStay, Injective
  <1>3. FileInv'
    BY <1>1 DEF LineInv, FileInv, PeersStay, NetTypeOK
  <1>4. GoneInv'
    BY DEF LineInv, GoneInv, Gone, PeersStay
  <1> QED BY <1>2, <1>3, <1>4 DEF LineInv

\* A write to a client that has gone brings it no nearer.
LEMMA WriteMoves ==
  ASSUME NetTypeOK, NEW c \in Clients, NEW n, write(c, n)
  PROVE  PeersStay
  BY DEF write, Gone, NetTypeOK, PeersStay

\* Who is behind a descriptor is being served.
LEMMA FileServed ==
  ASSUME NetTypeOK, LineInv, NEW fd \in Fds, file[fd] # NoClient
  PROVE  file[fd] \in Clients /\ Stages[file[fd]] = "served" /\ peer[file[fd]] # "off"
  BY DEF NetTypeOK, LineInv, FileInv, Stages

\* The queue without its first connection.
LEMMA TailFacts ==
  ASSUME NetTypeOK, Injective(backlog), backlog # <<>>, backlog' = Tail(backlog)
  PROVE  /\ Head(backlog) \in Clients /\ Queued(Head(backlog)) /\ Injective(backlog')
         /\ \A c \in Clients : Queued(c)' <=> Queued(c) /\ c # Head(backlog)
  <1> DEFINE n == Len(backlog)
  <1>1. /\ backlog \in Seq(Clients) /\ n \in Nat /\ n > 0 /\ DOMAIN backlog = 1 .. n
        /\ Head(backlog) = backlog[1] /\ DOMAIN backlog' = 1 .. n - 1
        /\ \A i \in 1 .. n - 1 : backlog'[i] = backlog[i + 1]
    BY DEF NetTypeOK
  <1> HIDE DEF n
  <1>2. Head(backlog) \in Clients /\ Queued(Head(backlog))
    <2>1. 1 \in 1 .. n
      BY <1>1
    <2>2. 1 \in DOMAIN backlog
      BY <1>1, <2>1
    <2>3. backlog[1] \in Clients
      BY <1>1, <2>2
    <2>4. Queued(backlog[1])
      BY <2>2 DEF Queued
    <2> QED BY <1>1, <2>3, <2>4
  <1>3. Injective(backlog')
    <2> SUFFICES ASSUME NEW i \in 1 .. n - 1, NEW j \in 1 .. n - 1, backlog'[i] = backlog'[j]
                 PROVE  i = j
      BY <1>1 DEF Injective
    <2>1. i + 1 \in 1 .. n /\ j + 1 \in 1 .. n /\ backlog[i + 1] = backlog[j + 1]
      BY <1>1
    <2>2. i + 1 = j + 1
      BY <1>1, <2>1 DEF Injective
    <2> QED BY <2>2
  <1>4. ASSUME NEW c \in Clients
        PROVE  Queued(c)' <=> Queued(c) /\ c # Head(backlog)
    <2>1. ASSUME NEW i \in 1 .. n - 1, backlog'[i] = c
          PROVE  Queued(c) /\ c # Head(backlog)
      <3>1. i + 1 \in DOMAIN backlog /\ 1 \in DOMAIN backlog /\ i + 1 # 1 /\ backlog[i + 1] = c
        BY <1>1, <2>1
      <3> QED BY <1>1, <3>1 DEF Injective, Queued
    <2>2. ASSUME NEW i \in 1 .. n, backlog[i] = c, c # Head(backlog)
          PROVE  Queued(c)'
      <3>1. i - 1 \in 1 .. n - 1 /\ backlog'[i - 1] = backlog[(i - 1) + 1] /\ (i - 1) + 1 = i
        BY <1>1, <2>2
      <3> QED BY <1>1, <2>2, <3>1 DEF Queued
    <2> QED BY <1>1, <2>1, <2>2 DEF Queued
  <1> QED BY <1>2, <1>3, <1>4

\* A connection is accepted.
LEMMA AcceptServes ==
  ASSUME NetTypeOK, LineInv, NEW fd \in Fds, AcceptsAs(fd), UNCHANGED <<ioVars, server>>,
         pc # "write", pc' # "write"
  PROVE  LineInv' /\ AbstractStep
  <1> DEFINE c == Head(backlog)
  <1>1. /\ backlog # <<>> /\ backlog' = Tail(backlog) /\ file' = [file EXCEPT ![fd] = c]
        /\ UNCHANGED <<peer, inbox, outbox>> /\ Injective(backlog) /\ file[fd] = NoClient
    BY DEF AcceptsAs, ioVars, LineInv, QueueInv, LowestFree, FreeFds
  <1>2. /\ c \in Clients /\ Queued(c) /\ Injective(backlog')
        /\ \A d \in Clients : Queued(d)' <=> Queued(d) /\ d # c
    BY <1>1, TailFacts
  <1> HIDE DEF c
  <1>3. QueueInv'
    BY <1>1, <1>2 DEF LineInv, QueueInv
  <1>4. FileInv'
    BY <1>1, <1>2 DEF LineInv, QueueInv, FileInv, NetTypeOK
  <1>5. GoneInv'
    BY <1>1 DEF LineInv, GoneInv, Gone
  <1>6. /\ Stages[c] = "queued" /\ Stages' = [Stages EXCEPT ![c] = "served"]
        /\ Dones' = Dones /\ Lefts' = Lefts
    BY <1>1, <1>2 DEF LineInv, QueueInv, Stages, Dones, Lefts
  <1>7. AbstractStep
    BY <1>1, <1>2, <1>6, NoneOwed, WelcomesClient
  <1> QED BY <1>3, <1>4, <1>5, <1>7 DEF LineInv

\* A read and the write of its answer, where neither blocks.
LEMMA EchoServes ==
  ASSUME NetTypeOK, LineInv, NEW fd \in Fds, file[fd] # NoClient, NEW lengths,
         EchoBack(file[fd], lengths), lengths \subseteq Promise!Answers(file[fd], Taken(file[fd])),
         server # "blocking", UNCHANGED server, pc # "write", pc' # "write"
  PROVE  LineInv' /\ AbstractStep
  <1> DEFINE c == file[fd]
  <1>1. c \in Clients /\ Stages[c] = "served" /\ peer[c] # "off"
    BY FileServed
  <1>2. PICK m \in lengths : write(c, m) /\ outbox' = Delivered(c, Least(m, Room(c)))
    BY DEF EchoBack
  <1>3. inbox[c] > 0 /\ inbox' = InboxAfter(c) /\ UNCHANGED <<backlog, file>>
    BY DEF EchoBack, ReadsData
  <1>4. m \in Promise!Answers(c, Taken(c))
    BY <1>2
  <1> HIDE DEF c
  <1>5. PeersStay
    BY <1>1, <1>2, WriteMoves
  <1>6. outbox' = IF Lefts[c] THEN outbox ELSE [outbox EXCEPT ![c] = @ + Least(m, Room(c))]
    BY <1>1, <1>2 DEF Delivered, Gone, Lefts, NetTypeOK
  <1>7. \A d \in Clients : outbox'[d] = outbox[d] \/ ~Gone(d)
    BY <1>1, <1>2 DEF Delivered, NetTypeOK
  <1>8. LineInv'
    BY <1>3, <1>5, <1>7, SameLine
  <1>9. AbstractStep
    BY <1>1, <1>3, <1>4, <1>5, <1>6, SamePeers, NoneOwed, AnswersClient
  <1> QED BY <1>8, <1>9

\* A read returns EAGAIN or ECONNRESET.
LEMMA FailServes ==
  ASSUME NetTypeOK, LineInv, NEW c \in Clients, ReadFails(c), UNCHANGED server,
         pc # "write", pc' # "write"
  PROVE  LineInv' /\ AbstractStep
  <1>1. PeersStay
    BY DEF ReadFails, PeerAfterError, PeersStay, NetTypeOK
  <1> QED BY <1>1, SameLine, SamePeers, NoneOwed, Stutters DEF ReadFails

\* Handles end: the descriptor fd may close with the last of them, and does so
\* only when its client is gone and has nothing left to be read.
LEMMA CloseServes ==
  ASSUME NetTypeOK, LineInv, NEW k, NEW fd \in Fds, CountsBecome(k),
         \A g \in Fds : g # fd /\ file[g] # NoClient => k[g] # 0,
         file[fd] # NoClient /\ k[fd] = 0 => inbox[file[fd]] = 0 /\ Ended(file[fd]),
         UNCHANGED server, pc # "write", pc' # "write"
  PROVE  LineInv' /\ AbstractStep
  <1> DEFINE closing == {g \in Fds : file[g] # NoClient /\ k[g] = 0}
             ended == {file[g] : g \in closing}
  <1>1. /\ file' = [g \in Fds |-> IF g \in closing THEN NoClient ELSE file[g]]
        /\ peer' = [c \in Clients |-> IF c \in ended THEN "off" ELSE peer[c]]
        /\ inbox' = [c \in Clients |-> IF c \in ended THEN 0 ELSE inbox[c]]
        /\ outbox' = [c \in Clients |-> IF c \in ended THEN 0 ELSE outbox[c]]
        /\ UNCHANGED backlog
    BY DEF CountsBecome
  <1>2. CASE file[fd] = NoClient \/ k[fd] # 0
    <2>1. closing = {}
      BY <1>2
    <2>2. ended = {}
      BY <2>1
    <2>3. UNCHANGED <<file, peer, inbox, outbox, backlog>>
      BY <1>1, <2>1, <2>2 DEF NetTypeOK
    <2>4. PeersStay
      BY <2>3 DEF PeersStay
    <2> QED BY <2>3, <2>4, SameLine, SamePeers, NoneOwed, Stutters
  <1>3. CASE file[fd] # NoClient /\ k[fd] = 0
    <2> DEFINE c == file[fd]
    <2>1. closing = {fd}
      BY <1>3
    <2>2. ended = {c}
      BY <2>1
    <2> HIDE DEF closing, ended
    <2>3. c \in Clients /\ Stages[c] = "served" /\ peer[c] \notin {"off", "up"} /\ inbox[c] = 0
      BY <1>3, FileServed DEF Ended
    <2>4. \A g \in Fds : file'[g] = IF g = fd THEN NoClient ELSE file[g]
      BY <1>1, <2>1
    <2>5. \A g \in Fds : g # fd => file[g] # c
      BY <1>3 DEF LineInv, FileInv
    <2>6. c # NoClient
      BY <1>3
    <2> HIDE DEF c
    <2>7. \A d \in Clients : /\ peer'[d] = IF d = c THEN "off" ELSE peer[d]
                             /\ outbox'[d] = IF d = c THEN 0 ELSE outbox[d]
      BY <1>1, <2>2
    <2>9. inbox' = inbox /\ outbox' = [outbox EXCEPT ![c] = 0]
      BY <1>1, <2>2, <2>3 DEF NetTypeOK
    <2>10. \A d \in Clients : Queued(d)' <=> Queued(d)
      BY <1>1 DEF Queued
    <2>11. ~Queued(c)
      BY <2>3 DEF Stages
    <2>12. QueueInv'
      BY <1>1, <2>7, <2>10, <2>11 DEF LineInv, QueueInv, Injective
    <2>13. FileInv'
      BY <2>4, <2>5, <2>7, <2>10 DEF LineInv, FileInv, NetTypeOK
    <2>14. GoneInv'
      BY <2>7 DEF LineInv, GoneInv, Gone
    <2>15. /\ Dones[c] /\ Stages' = [Stages EXCEPT ![c] = "off"]
           /\ Dones' = [Dones EXCEPT ![c] = FALSE] /\ Lefts' = [Lefts EXCEPT ![c] = FALSE]
      BY <2>3, <2>7, <2>10 DEF Stages, Dones, Lefts
    <2>16. AbstractStep
      BY <2>3, <2>9, <2>15, NoneOwed, ReleasesClient
    <2> QED BY <2>12, <2>13, <2>14, <2>16 DEF LineInv
  <1> QED BY <1>2, <1>3

\* Handles move, and none of them was the last.
LEMMA MoveServes ==
  ASSUME NetTypeOK, LineInv, NEW k, CountsBecome(k), file' = file,
         UNCHANGED server, pc # "write", pc' # "write"
  PROVE  LineInv' /\ AbstractStep
  <1> DEFINE closing == {g \in Fds : file[g] # NoClient /\ k[g] = 0}
             ended == {file[g] : g \in closing}
  <1>1. /\ file' = [g \in Fds |-> IF g \in closing THEN NoClient ELSE file[g]]
        /\ peer' = [c \in Clients |-> IF c \in ended THEN "off" ELSE peer[c]]
        /\ inbox' = [c \in Clients |-> IF c \in ended THEN 0 ELSE inbox[c]]
        /\ outbox' = [c \in Clients |-> IF c \in ended THEN 0 ELSE outbox[c]]
        /\ UNCHANGED backlog
    BY DEF CountsBecome
  <1>2. closing = {}
    BY <1>1
  <1>3. ended = {}
    BY <1>2
  <1>4. UNCHANGED <<peer, inbox, outbox, backlog>>
    BY <1>1, <1>3 DEF NetTypeOK
  <1>5. PeersStay
    BY <1>4 DEF PeersStay
  <1> QED BY <1>4, <1>5, SameLine, SamePeers, NoneOwed, Stutters

\* Nothing moves.
LEMMA IdleServes ==
  ASSUME NetTypeOK, LineInv, UNCHANGED <<kernelVars, server>>, pc # "write", pc' # "write"
  PROVE  LineInv' /\ AbstractStep
  <1>1. PeersStay /\ UNCHANGED <<peer, inbox, outbox, backlog, file>>
    BY DEF PeersStay, kernelVars
  <1> QED BY <1>1, SameLine, SamePeers, NoneOwed, Stutters
-----------------------------------------------------------------------------
(* The clients *)

\* Clients do what Echo lets them do.
LEMMA ClientServes ==
  ASSUME NetTypeOK, LineInv, NEW c \in Clients, ClientStep(c),
         UNCHANGED <<connSocket, pc, unsent, server>>
  PROVE  LineInv' /\ AbstractStep
  <1>1. Owes' = Owes
    BY DEF Owes, ClientStep, Connect, Send, Receive, ShutDown, HangUp
  <1>2. CASE Connect(c)
    <2>1. /\ peer[c] = "off" /\ peer' = [peer EXCEPT ![c] = "up"]
          /\ backlog' = Append(backlog, c) /\ UNCHANGED <<inbox, outbox, file>>
          /\ backlog \in Seq(Clients)
      BY <1>2 DEF Connect, NetTypeOK
    <2> DEFINE n == Len(backlog)
    <2>2. /\ n \in Nat /\ DOMAIN backlog = 1 .. n /\ DOMAIN backlog' = (1 .. n) \union {n + 1}
          /\ \A j \in 1 .. n : backlog'[j] = backlog[j]
          /\ backlog'[n + 1] = c
      BY <2>1, AppendFacts
    <2> HIDE DEF n
    <2>3. ~Queued(c) /\ \A d \in Clients : Queued(d)' <=> Queued(d) \/ d = c
      BY <2>1, <2>2 DEF LineInv, QueueInv, Queued
    <2>4. \A d \in Clients : peer'[d] = IF d = c THEN "up" ELSE peer[d]
      BY <2>1 DEF NetTypeOK
    <2>5. QueueInv'
      <3>1. Injective(backlog')
        <4>1. \A j \in 1 .. n : backlog[j] # c
          BY <2>2, <2>3 DEF Queued
        <4>2. \A i, j \in 1 .. n : backlog[i] = backlog[j] => i = j
          BY <2>2 DEF LineInv, QueueInv, Injective
        <4> QED BY <2>2, <4>1, <4>2 DEF Injective
      <3> QED BY <2>3, <2>4, <3>1 DEF LineInv, QueueInv
    <2>6. FileInv'
      BY <2>1, <2>3, <2>4 DEF LineInv, FileInv, NetTypeOK
    <2>7. GoneInv'
      BY <2>1, <2>4 DEF LineInv, GoneInv, Gone
    <2>8. /\ Stages[c] = "off" /\ Stages' = [Stages EXCEPT ![c] = "queued"]
          /\ Dones' = Dones /\ Lefts' = Lefts
      <3>1. Stages[c] = "off" /\ Dones' = Dones /\ Lefts' = Lefts
        BY <2>1, <2>4 DEF Stages, Dones, Lefts
      <3>2. \A d \in Clients : Stages'[d] = IF d = c THEN "queued" ELSE Stages[d]
        BY <2>3, <2>4 DEF Stages
      <3> QED BY <3>1, <3>2 DEF Stages
    <2>9. AbstractStep
      BY <1>1, <2>1, <2>8, ServesClient
    <2> QED BY <2>5, <2>6, <2>7, <2>9 DEF LineInv
  <1>3. CASE Send(c)
    <2>1. /\ peer[c] = "up" /\ inbox' = [inbox EXCEPT ![c] = @ + 1]
          /\ UNCHANGED <<peer, outbox, backlog, file>>
      BY <1>3 DEF Send
    <2>2. PeersStay
      BY <2>1 DEF PeersStay
    <2>3. Stages[c] # "off" /\ ~Dones[c] /\ Stages' = Stages /\ Dones' = Dones /\ Lefts' = Lefts
      BY <2>1, <2>2, SamePeers DEF Stages, Dones
    <2> QED BY <1>1, <2>1, <2>2, <2>3, SameLine, ServesClient
  <1>4. CASE Receive(c)
    <2>1. /\ outbox[c] > 0 /\ outbox' = [outbox EXCEPT ![c] = @ - 1]
          /\ UNCHANGED <<peer, inbox, backlog, file>>
      BY <1>4 DEF Receive
    <2>2. PeersStay
      BY <2>1 DEF PeersStay
    <2>3. ~Gone(c)
      BY <2>1 DEF LineInv, GoneInv
    <2>4. \A d \in Clients : outbox'[d] = outbox[d] \/ ~Gone(d)
      BY <2>1, <2>3 DEF NetTypeOK
    <2> QED BY <1>1, <2>1, <2>2, <2>4, SamePeers, SameLine, ServesClient
  <1>5. CASE ShutDown(c)
    <2>1. /\ peer[c] = "up" /\ UNCHANGED <<inbox, outbox, backlog, file>>
          /\ \A d \in Clients : peer'[d] = IF d = c THEN "shut" ELSE peer[d]
      BY <1>5 DEF ShutDown, NetTypeOK
    <2>2. \A d \in Clients : Queued(d)' <=> Queued(d)
      BY <2>1 DEF Queued
    <2>3. QueueInv'
      BY <2>1, <2>2 DEF LineInv, QueueInv, Injective
    <2>4. FileInv'
      BY <2>1, <2>2 DEF LineInv, FileInv, NetTypeOK
    <2>5. GoneInv'
      BY <2>1 DEF LineInv, GoneInv, Gone
    <2>6. /\ Stages[c] # "off" /\ ~Dones[c] /\ Stages' = Stages /\ Lefts' = Lefts
          /\ Dones' = [Dones EXCEPT ![c] = TRUE]
      BY <2>1, <2>2 DEF Stages, Dones, Lefts
    <2>7. AbstractStep
      BY <1>1, <2>1, <2>6, ServesClient
    <2> QED BY <2>3, <2>4, <2>5, <2>7 DEF LineInv
  <1>6. CASE HangUp(c)
    <2>1. PICK p \in {"fin", "finrst", "rst"} : peer' = [peer EXCEPT ![c] = p]
      BY <1>6 DEF HangUp
    <2>2. /\ peer[c] \in {"up", "shut"} /\ outbox' = [outbox EXCEPT ![c] = 0]
          /\ UNCHANGED <<inbox, backlog, file>>
      BY <1>6 DEF HangUp, Gone
    <2>3. \A d \in Clients : peer'[d] = IF d = c THEN p ELSE peer[d]
      BY <2>1 DEF NetTypeOK
    <2>4. \A d \in Clients : Queued(d)' <=> Queued(d)
      BY <2>2 DEF Queued
    <2>5. QueueInv'
      BY <2>2, <2>3, <2>4 DEF LineInv, QueueInv, Injective
    <2>6. FileInv'
      BY <2>2, <2>3, <2>4 DEF LineInv, FileInv, NetTypeOK
    <2>7. GoneInv'
      BY <2>2, <2>3 DEF LineInv, GoneInv, Gone, NetTypeOK
    <2>8. /\ Stages[c] # "off" /\ ~Lefts[c] /\ Stages' = Stages
          /\ Dones' = [Dones EXCEPT ![c] = TRUE] /\ Lefts' = [Lefts EXCEPT ![c] = TRUE]
      BY <2>2, <2>3, <2>4 DEF Stages, Dones, Lefts
    <2>9. AbstractStep
      BY <1>1, <2>2, <2>8, ServesClient
    <2> QED BY <2>5, <2>6, <2>7, <2>9 DEF LineInv
  <1> QED BY <1>2, <1>3, <1>4, <1>5, <1>6 DEF ClientStep

\* A client that is at its end stays there.
LEMMA ClientErase ==
  ASSUME Inv, EraseInv, NEW c \in Clients, ClientStep(c),
         UNCHANGED <<pc, count, connPool, hole>>
  PROVE  EraseInv'
  <1> SUFFICES ASSUME pc = "erase", count[connPool[hole]] = 1
               PROVE  AtEnd(file[connPool[hole]])'
    BY DEF EraseInv
  <1> DEFINE d == file[connPool[hole]]
  <1>1. connPool[hole] \in Fds
    BY DEF Inv, HeldInv, HoleInv
  <1>2. d \in Clients /\ AtEnd(d)
    BY <1>1 DEF Inv, HeldInv, OpenWhileHeld, EraseInv
  <1>3. d' = d
    BY DEF ClientStep, Connect, Send, Receive, ShutDown, HangUp
  <1> HIDE DEF d
  <1>4. AtEnd(d)'
    BY <1>2, <1>3 DEF Inv, Types, NetTypeOK, AtEnd, Gone, ClientStep, Connect, Send, Receive,
        ShutDown, HangUp
  <1> QED BY <1>4 DEF d
-----------------------------------------------------------------------------
(* The servers *)

\* What is open has a handle.
LEMMA OpenCounted ==
  ASSUME Inv, NEW g \in Fds, file[g] # NoClient
  PROVE  count[g] # 0 /\ count[g] \in Nat
  BY DEF Inv, HeldInv, OpenWhileHeld, CountTypeOK

\* What is in the pool is open.
LEMMA PooledCounted ==
  ASSUME Inv, NEW g \in Fds, InPool(g)
  PROVE  file[g] # NoClient /\ count[g] \in Nat /\ count[g] > 0
  <1>1. connPool \in Seq(Fds) /\ count[g] \in Nat /\ (file[g] # NoClient <=> count[g] > 0)
    BY DEF Inv, HeldInv, OpenWhileHeld, CountTypeOK
  <1>2. count[g] = Cardinality(Copies(g)) + Locals(g)
    BY DEF Inv, HeldInv, OpenWhileHeld
  <1>3. Cardinality(Copies(g)) \in Nat /\ Cardinality(Copies(g)) # 0 /\ Locals(g) \in {0, 1}
    BY <1>1, CopiesFacts, LocalsNat
  <1> QED BY <1>1, <1>2, <1>3

\* One handle of fd ends, when its client is at its end.
LEMMA EndServes ==
  ASSUME Inv, LineInv, NEW fd \in Fds, CountsBecome(Destroyed(count, fd)),
         file[fd] # NoClient /\ count[fd] = 1 => inbox[file[fd]] = 0 /\ Ended(file[fd]),
         UNCHANGED server, pc # "write", pc' # "write"
  PROVE  LineInv' /\ AbstractStep
  <1> DEFINE k == Destroyed(count, fd)
  <1>1. \A g \in Fds : k[g] = IF g = fd THEN count[g] - 1 ELSE count[g]
    BY DEF Destroyed, Inv, HeldInv, CountTypeOK
  <1>2. CountsBecome(k)
    OBVIOUS
  <1> HIDE DEF k
  <1>3. \A g \in Fds : g # fd /\ file[g] # NoClient => k[g] # 0
    BY <1>1, OpenCounted
  <1>4. file[fd] # NoClient /\ k[fd] = 0 => inbox[file[fd]] = 0 /\ Ended(file[fd])
    BY <1>1, OpenCounted
  <1> QED BY <1>2, <1>3, <1>4, CloseServes DEF Inv, Types

\* Only the blocking server stops in the middle of an answer.
LEMMA NotWriting ==
  ASSUME Inv, Inv', server # "blocking", UNCHANGED server
  PROVE  /\ pc # "write" /\ pc' # "write" /\ NetTypeOK
         /\ pc' = "erase" => server = "select"
  BY DEF Inv, PcInv, Types

\* Each step of each server is a step of Echo, or none: select ...
LEMMA SelectServes ==
  ASSUME Inv, Inv', LineInv, EraseInv, server = "select", UNCHANGED server, SelectStep
  PROVE  LineInv' /\ AbstractStep
  <1>1. pc # "write" /\ pc' # "write" /\ NetTypeOK
    BY NotWriting
  <1>2. CASE SelectWait
    BY <1>1, <1>2, IdleServes DEF SelectWait
  <1>3. CASE SelectAccept
    BY <1>1, <1>3, AcceptServes, IdleServes DEF SelectAccept, Accept, AcceptFails
  <1>4. CASE SelectStore
    <2>1. PushBack(count) /\ connSocket # NoFd
      BY <1>4 DEF SelectStore, Inv, PcInv
    <2>2. file' = file
      BY <2>1, PushHeld DEF Inv
    <2> QED BY <1>1, <2>1, <2>2, MoveServes DEF PushBack
  <1>5. CASE SelectEcho
    <2>1. /\ pc = "scan" /\ iter \in DOMAIN connPool /\ connPool \in Seq(Fds)
          /\ EchoBack(file[Here], WholeLength(file[Here])) \/ ReadFails(file[Here])
      BY <1>5 DEF SelectEcho, Inv, HeldInv, BookInv, SelectInv
    <2>2. Here \in Fds /\ file[Here] # NoClient /\ file[Here] \in Clients
      <3>1. Here \in Fds /\ InPool(Here)
        BY <2>1 DEF Here, InPool
      <3>2. file[Here] # NoClient
        BY <3>1, PooledCounted
      <3> QED BY <3>1, <3>2 DEF Inv, HeldInv
    <2>3. CASE EchoBack(file[Here], WholeLength(file[Here]))
      <3>1. inbox[file[Here]] > 0
        BY <2>3 DEF EchoBack, ReadsData
      <3>2. WholeLength(file[Here]) \subseteq Promise!Answers(file[Here], Taken(file[Here]))
        BY <1>1, <2>2, <3>1, LengthsAllowed
      <3> QED BY <1>1, <2>2, <2>3, <3>2, EchoServes
    <2>4. CASE ReadFails(file[Here])
      BY <1>1, <2>2, <2>4, FailServes
    <2> QED BY <2>1, <2>3, <2>4
  <1>6. CASE SelectEnd
    BY <1>1, <1>6, IdleServes DEF SelectEnd
  <1>7. CASE SelectErase
    <2> DEFINE x == connPool[hole]
    <2>1. pc = "erase" /\ x \in Fds /\ connPool \in Seq(Fds) /\ hole \in DOMAIN connPool
      BY <1>7 DEF SelectErase, Inv, HeldInv, HoleInv
    <2>2. file[x] # NoClient /\ count[x] = 1 => inbox[file[x]] = 0 /\ Ended(file[x])
      BY <2>1 DEF EraseInv, AtEnd, Ended
    <2>3. CASE CountsBecome(Destroyed(count, x))
      BY <1>1, <2>1, <2>2, <2>3, EndServes
    <2>4. CASE hole < Len(connPool) /\ CountsBecome(Assigned(count, x, connPool[hole + 1]))
      <3> DEFINE y == connPool[hole + 1]
                 k == Assigned(count, x, y)
      <3>1. y \in Fds
        BY <2>1, <2>4
      <3>2. \A g \in Fds : k[g] = IF x = y THEN count[g]
                                  ELSE IF g = x THEN count[g] - 1
                                  ELSE IF g = y THEN count[g] + 1 ELSE count[g]
        <4>1. count \in [Fds -> Nat]
          BY DEF Inv, HeldInv, CountTypeOK
        <4> HIDE DEF x, y
        <4> QED BY <2>1, <3>1, <4>1 DEF Assigned, Copied, Destroyed, k
      <3>3. CountsBecome(k)
        BY <2>4
      <3> HIDE DEF k, x, y
      <3>4. \A g \in Fds : g # x /\ file[g] # NoClient => k[g] # 0
        BY <3>2, OpenCounted
      <3>5. file[x] # NoClient /\ k[x] = 0 => inbox[file[x]] = 0 /\ Ended(file[x])
        BY <2>1, <2>2, <3>2, OpenCounted
      <3> QED BY <1>1, <2>1, <3>3, <3>4, <3>5, CloseServes
    <2> QED BY <1>7, <2>3, <2>4 DEF SelectErase
  <1> QED BY <1>2, <1>3, <1>4, <1>5, <1>6, <1>7 DEF SelectStep

\* In vector::erase the element to assign to has another handle, or its client
\* is at its end.
LEMMA SelectEraseStays ==
  ASSUME Inv, Inv', EraseInv, server = "select", UNCHANGED server, SelectStep
  PROVE  EraseInv'
  <1> SUFFICES ASSUME pc' = "erase" PROVE EraseInv'
    BY DEF EraseInv
  <1>1. CASE SelectEnd
    BY <1>1 DEF SelectEnd, EraseInv, Here, AtEnd, ReadsEnd, kernelVars, poolVars
  <1>2. CASE SelectErase
    <2> DEFINE x == connPool[hole]
               y == connPool[hole + 1]
               k == Assigned(count, x, y)
    <2>1. /\ connPool \in Seq(Fds) /\ hole \in DOMAIN connPool /\ hole < Len(connPool)
          /\ CountsBecome(k) /\ hole' = hole + 1 /\ pc = "erase"
          /\ connPool' = [connPool EXCEPT ![hole] = y]
      BY <1>2 DEF SelectErase, Resume, Goto, Inv, HeldInv, HoleInv
    <2>2. x \in Fds /\ y \in Fds /\ hole + 1 \in DOMAIN connPool /\ connPool'[hole'] = y
      BY <2>1
    <2>3. \A g \in Fds : k[g] = IF x = y THEN count[g]
                                ELSE IF g = x THEN count[g] - 1
                                ELSE IF g = y THEN count[g] + 1 ELSE count[g]
      <3>1. count \in [Fds -> Nat]
        BY DEF Inv, HeldInv, CountTypeOK
      <3> HIDE DEF x, y
      <3> QED BY <2>2, <3>1 DEF Assigned, Copied, Destroyed, k
    <2>4. InPool(y)
      BY <2>2 DEF InPool
    <2> HIDE DEF x, y, k
    <2>5. count[y] \in Nat /\ count[y] > 0
      BY <2>2, <2>4, PooledCounted
    <2>6. count' = k
      BY <2>1 DEF CountsBecome
    <2>7. CASE x # y
      <3>1. count'[y] # 1
        BY <2>2, <2>3, <2>5, <2>6, <2>7
      <3> QED BY <2>2, <3>1 DEF EraseInv
    <2>8. CASE x = y
      <3> DEFINE closing == {g \in Fds : file[g] # NoClient /\ k[g] = 0}
                 ended == {file[g] : g \in closing}
      <3>1. closing = {}
        BY <2>3, <2>8, OpenCounted
      <3>2. ended = {}
        BY <3>1
      <3>3. /\ file' = [g \in Fds |-> IF g \in closing THEN NoClient ELSE file[g]]
            /\ peer' = [c \in Clients |-> IF c \in ended THEN "off" ELSE peer[c]]
            /\ inbox' = [c \in Clients |-> IF c \in ended THEN 0 ELSE inbox[c]]
        BY <2>1 DEF CountsBecome
      <3>4. UNCHANGED <<file, peer, inbox>>
        BY <3>1, <3>2, <3>3 DEF Inv, Types, NetTypeOK
      <3>5. count'[y] = count[y]
        BY <2>2, <2>3, <2>6, <2>8
      <3>6. count[y] = 1 => AtEnd(file[y])
        BY <2>1, <2>8 DEF EraseInv, x
      <3> QED BY <2>2, <3>4, <3>5, <3>6 DEF EraseInv, AtEnd
    <2> QED BY <2>7, <2>8
  <1>3. ~(SelectWait \/ SelectAccept \/ SelectStore \/ SelectEcho)
    BY DEF SelectWait, SelectAccept, AcceptFails, SelectStore, SelectEcho, Resume, Goto
  <1> QED BY <1>1, <1>2, <1>3 DEF SelectStep

\* ... poll ...
LEMMA PollServes ==
  ASSUME Inv, Inv', LineInv, server = "poll", UNCHANGED server, PollStep
  PROVE  LineInv' /\ AbstractStep
  <1>1. pc # "write" /\ pc' # "write" /\ NetTypeOK
    BY NotWriting
  <1>2. CASE PollWait
    BY <1>1, <1>2, IdleServes DEF PollWait
  <1>3. CASE PollAccept
    BY <1>1, <1>3, AcceptServes, IdleServes DEF PollAccept, Accept, AcceptFails
  <1>4. CASE PollStore
    <2>1. Insert /\ connSocket # NoFd
      BY <1>4 DEF PollStore, Inv, PcInv
    <2>2. file' = file
      BY <2>1, InsertHeld DEF Inv
    <2> QED BY <1>1, <2>1, <2>2, MoveServes DEF Insert, PushBack
  <1>5. CASE PollEcho
    <2>1. /\ pc = "scan"
          /\ EchoBack(file[Entry], StringLength(file[Entry])) \/ ReadFails(file[Entry])
      BY <1>5 DEF PollEcho
    <2>2. Entry \in Fds /\ file[Entry] # NoClient /\ file[Entry] \in Clients
      BY <2>1, PollEntry, SocketsAssumption
    <2>3. CASE EchoBack(file[Entry], StringLength(file[Entry]))
      <3>1. inbox[file[Entry]] > 0
        BY <2>3 DEF EchoBack, ReadsData
      <3>2. StringLength(file[Entry]) \subseteq Promise!Answers(file[Entry], Taken(file[Entry]))
        BY <1>1, <2>2, <3>1, LengthsAllowed
      <3> QED BY <1>1, <2>2, <2>3, <3>2, EchoServes
    <2>4. CASE ReadFails(file[Entry])
      BY <1>1, <2>2, <2>4, FailServes
    <2> QED BY <2>1, <2>3, <2>4
  <1>6. CASE PollEnd
    <2>1. /\ pc = "scan" /\ ReadsEnd(file[Entry]) /\ CountsBecome(Destroyed(count, Entry))
      BY <1>6 DEF PollEnd, EraseFromPool
    <2>2. Entry \in Fds
      BY <2>1, PollEntry
    <2>3. inbox[file[Entry]] = 0 /\ Ended(file[Entry])
      BY <2>1 DEF ReadsEnd, Ended
    <2> QED BY <1>1, <2>1, <2>2, <2>3, EndServes
  <1> QED BY <1>2, <1>3, <1>4, <1>5, <1>6 DEF PollStep

\* ... epoll, its undefined behaviour included ...
LEMMA EPollServes ==
  ASSUME Inv, Inv', LineInv, server = "epoll", UNCHANGED server, EPollStep
  PROVE  LineInv' /\ AbstractStep
  <1>1. pc # "write" /\ pc' # "write" /\ NetTypeOK
    BY NotWriting
  <1>2. CASE EPollWait
    BY <1>1, <1>2, IdleServes DEF EPollWait
  <1>3. CASE EPollAccept
    BY <1>1, <1>3, AcceptServes, IdleServes DEF EPollAccept, Accept, AcceptFails
  <1>4. CASE EPollStore
    <2>1. Insert /\ connSocket # NoFd
      BY <1>4 DEF EPollStore, Inv, PcInv
    <2>2. file' = file
      BY <2>1, InsertHeld DEF Inv
    <2> QED BY <1>1, <2>1, <2>2, MoveServes DEF Insert, PushBack
  <1>5. CASE EPollLost
    BY <1>1, <1>5, IdleServes DEF EPollLost
  <1>6. CASE EPollEcho
    <2>1. /\ OfConnection /\ InPool(Event)
          /\ EchoBack(file[Event], WholeLength(file[Event])) \/ ReadFails(file[Event])
      BY <1>6 DEF EPollEcho
    <2>2. Event \in Fds /\ file[Event] # NoClient /\ file[Event] \in Clients
      BY <2>1, EPollEvent, SocketsAssumption
    <2>3. CASE EchoBack(file[Event], WholeLength(file[Event]))
      <3>1. inbox[file[Event]] > 0
        BY <2>3 DEF EchoBack, ReadsData
      <3>2. WholeLength(file[Event]) \subseteq Promise!Answers(file[Event], Taken(file[Event]))
        BY <1>1, <2>2, <3>1, LengthsAllowed
      <3> QED BY <1>1, <2>2, <2>3, <3>2, EchoServes
    <2>4. CASE ReadFails(file[Event])
      BY <1>1, <2>2, <2>4, FailServes
    <2> QED BY <2>1, <2>3, <2>4
  <1>7. CASE EPollEnd
    <2>1. /\ OfConnection /\ InPool(Event) /\ ReadsEnd(file[Event])
          /\ CountsBecome(Destroyed(count, Event))
      BY <1>7 DEF EPollEnd, EraseFromPool
    <2>2. Event \in Fds
      BY <2>1, EPollEvent
    <2>3. inbox[file[Event]] = 0 /\ Ended(file[Event])
      BY <2>1 DEF ReadsEnd, Ended
    <2> QED BY <1>1, <2>1, <2>2, <2>3, EndServes
  <1> QED BY <1>2, <1>3, <1>4, <1>5, <1>6, <1>7 DEF EPollStep

\* ... and the blocking server, which may stop in the middle of an answer.
LEMMA BlockingServes ==
  ASSUME Inv, Inv', LineInv, server = "blocking", UNCHANGED server, BlockingStep
  PROVE  LineInv' /\ AbstractStep
  <1>1. NetTypeOK /\ unsent \in Nat
    BY SocketsAssumption DEF Inv, Types, BlockingTypeOK
  <1>2. CASE BlockingAccept
    <2>1. pc # "write" /\ pc' # "write"
      BY <1>2 DEF BlockingAccept, AcceptFails, Goto
    <2> QED BY <1>1, <1>2, <2>1, AcceptServes, IdleServes DEF BlockingAccept, Accept, AcceptFails
  <1>3. ASSUME pc \in {"read", "write"}
        PROVE  /\ connSocket \in Fds /\ connSocket # NoFd /\ Peer = file[connSocket]
               /\ Peer # NoClient /\ Peer \in Clients /\ Stages[Peer] = "served"
               /\ peer[Peer] # "off"
               /\ \A c \in Clients : Owes[c] = IF pc = "write" /\ c = Peer THEN unsent ELSE 0
    <2>1. connSocket \in Fds /\ connSocket # NoFd /\ file[connSocket] # NoClient
      <3>1. connSocket # NoFd /\ connSocket \in Fds
        BY <1>3 DEF Inv, PcInv, HeldInv
      <3> QED BY <3>1, CopiesFacts, LocalsNat DEF Inv, HeldInv, OpenWhileHeld
    <2>2. /\ file[connSocket] \in Clients /\ Stages[file[connSocket]] = "served"
          /\ peer[file[connSocket]] # "off"
      BY <1>1, <2>1, FileServed
    <2> QED BY <2>1, <2>2 DEF Owes, Peer
  <1>4. CASE BlockingRead
    <2> DEFINE c == Peer
    <2>1. /\ pc = "read" /\ inbox[c] > 0 /\ inbox' = InboxAfter(c) /\ pc' = "write"
          /\ UNCHANGED <<peer, outbox, backlog, file, connSocket>>
      BY <1>4 DEF BlockingRead, ReadsData, Goto, poolVars
    <2>2. PICK m \in StringLength(c) : unsent' = m
      BY <1>4 DEF BlockingRead
    <2>3. /\ c \in Clients /\ Stages[c] = "served" /\ \A d \in Clients : Owes[d] = 0
          /\ c = file[connSocket] /\ connSocket # NoFd
      BY <1>3, <2>1
    <2> HIDE DEF c
    <2>4. m \in Promise!Answers(c, Taken(c))
      BY <1>1, <2>1, <2>3, LengthsAllowed
    <2>5. Owes' = [Owes EXCEPT ![c] = m]
      BY <2>1, <2>2, <2>3 DEF Owes
    <2>6. PeersStay
      BY <2>1 DEF PeersStay
    <2>7. LineInv'
      BY <1>1, <2>1, <2>6, SameLine
    <2> QED BY <2>1, <2>3, <2>4, <2>5, <2>6, <2>7, SamePeers, ReadsAnswer
  <1>5. CASE BlockingEnd
    <2>1. /\ pc = "read" /\ pc' = "wait" /\ ~ReadsData(Peer) /\ Ended(Peer)
          /\ CountsBecome(Destroyed(count, connSocket))
      BY <1>5 DEF BlockingEnd, Goto
    <2>2. connSocket \in Fds /\ Peer \in Clients /\ Peer = file[connSocket]
      BY <1>3, <2>1
    <2>3. inbox[Peer] = 0
      BY <1>1, <2>1, <2>2 DEF ReadsData, NetTypeOK
    <2> QED BY <2>1, <2>2, <2>3, EndServes
  <1>6. CASE BlockingWrite
    <2> DEFINE c == Peer
    <2>1. pc = "write" /\ UNCHANGED <<inbox, backlog, file, connSocket>>
      BY <1>6 DEF BlockingWrite, poolVars
    <2>2. /\ c \in Clients /\ Stages[c] = "served" /\ peer[c] # "off"
          /\ c = file[connSocket] /\ connSocket # NoFd
          /\ \A d \in Clients : Owes[d] = IF d = c THEN unsent ELSE 0
      BY <1>3, <2>1
    <2>3. CASE Gone(c) /\ write(c, unsent) /\ unsent' = 0 /\ pc' = "read" /\ UNCHANGED outbox
      <3> HIDE DEF c
      <3>1. PeersStay
        BY <1>1, <2>2, <2>3, WriteMoves
      <3>2. LineInv' /\ Stages' = Stages /\ Dones' = Dones /\ Lefts' = Lefts
        BY <1>1, <2>1, <2>3, <3>1, SameLine, SamePeers
      <3>3. Owes' = [Owes EXCEPT ![c] = 0]
        BY <2>2, <2>3 DEF Owes
      <3>4. CASE unsent = 0
        <4>1. Owes' = Owes
          BY <2>2, <3>3, <3>4 DEF Owes
        <4> QED BY <2>1, <2>3, <3>2, <4>1, Stutters
      <3>5. CASE unsent # 0
        <4>1. Lefts[c] /\ Owes[c] = unsent
          BY <2>2, <2>3 DEF Lefts, Gone
        <4>2. unsent \in 1 .. Owes[c] /\ Owes[c] > 0 /\ Owes[c] - unsent = 0
          BY <1>1, <3>5, <4>1
        <4>3. Owes' = [Owes EXCEPT ![c] = @ - unsent]
          BY <2>2, <3>3, <4>2 DEF Owes
        <4> QED BY <2>1, <2>2, <2>3, <3>2, <4>1, <4>2, <4>3, ContinuesAnswer
      <3> QED BY <3>4, <3>5
    <2>4. CASE LET k == Least(unsent, Room(c))
               IN  /\ ~Gone(c) /\ (k > 0 \/ unsent = 0)
                   /\ outbox' = Delivered(c, k)
                   /\ unsent' = unsent - k
                   /\ pc' = IF k = unsent THEN "read" ELSE "write"
                   /\ UNCHANGED <<peer, killed>>
      <3> DEFINE k == Least(unsent, Room(c))
      <3>1. k \in 0 .. unsent /\ (k > 0 \/ unsent = 0)
        BY <1>1, <2>2, <2>4, SocketsAssumption DEF NetTypeOK, Least, Room
      <3>2. /\ ~Gone(c) /\ UNCHANGED peer /\ unsent' = unsent - k
            /\ pc' = IF k = unsent THEN "read" ELSE "write"
            /\ outbox' = [outbox EXCEPT ![c] = @ + k]
        BY <2>4 DEF Delivered
      <3> HIDE DEF c, k
      <3>3. PeersStay
        BY <3>2 DEF PeersStay
      <3>4. \A d \in Clients : outbox'[d] = outbox[d] \/ ~Gone(d)
        BY <1>1, <2>2, <3>2 DEF NetTypeOK
      <3>5. LineInv' /\ Stages' = Stages /\ Dones' = Dones /\ Lefts' = Lefts
        BY <1>1, <2>1, <3>3, <3>4, SameLine, SamePeers
      <3>6. Owes' = [d \in Clients |-> IF d = c THEN unsent - k ELSE 0]
        BY <1>1, <2>1, <2>2, <3>1, <3>2 DEF Owes
      <3>7. CASE unsent = 0
        <4>1. k = 0
          BY <3>1, <3>7
        <4>2. Owes' = Owes
          BY <2>2, <3>6, <3>7, <4>1 DEF Owes
        <4>3. outbox' = outbox
          BY <1>1, <2>2, <3>2, <4>1 DEF NetTypeOK
        <4> QED BY <2>1, <3>5, <4>2, <4>3, Stutters
      <3>8. CASE unsent # 0
        <4>1. ~Lefts[c] /\ Owes[c] = unsent
          BY <2>2, <3>2 DEF Lefts, Gone
        <4>2. k \in 1 .. Owes[c] /\ Owes[c] > 0
          BY <1>1, <3>1, <3>8, <4>1
        <4>3. Owes' = [Owes EXCEPT ![c] = @ - k]
          BY <2>2, <3>6, <4>1 DEF Owes
        <4> QED BY <2>1, <2>2, <3>2, <3>5, <4>1, <4>2, <4>3, ContinuesAnswer
      <3> QED BY <3>7, <3>8
    <2> QED BY <1>6, <2>3, <2>4 DEF BlockingWrite, Goto
  <1> QED BY <1>2, <1>4, <1>5, <1>6 DEF BlockingStep
-----------------------------------------------------------------------------
(* All steps *)

PromiseInv == Inv /\ LineInv /\ EraseInv

\* Where it starts, Echo starts.
LEMMA PromiseStarts == Init => PromiseInv /\ Promise!Init
  <1> SUFFICES ASSUME Init PROVE PromiseInv /\ Promise!Init
    OBVIOUS
  <1>1. /\ peer = [c \in Clients |-> "off"] /\ backlog = <<>> /\ pc = "wait" /\ connSocket = NoFd
        /\ inbox = [c \in Clients |-> 0] /\ outbox = [c \in Clients |-> 0]
        /\ file = [fd \in Fds |-> NoClient]
    BY DEF Init, NetInit, LoopInit
  <1>2. \A c \in Clients : ~Queued(c)
    BY <1>1 DEF Queued
  <1>3. LineInv
    BY <1>1, <1>2 DEF LineInv, QueueInv, FileInv, GoneInv, Injective
  <1>4. EraseInv
    BY <1>1 DEF EraseInv
  <1>5. Promise!Init
    <2>1. Manner(server) \in BOOLEAN /\ (server = "blocking") \in BOOLEAN
      BY DEF Manner
    <2>2. [c \in Clients |-> IF peer[c] = "off" THEN "off" ELSE IF Queued(c) THEN "queued" ELSE "served"]
            = [c \in Clients |-> "off"]
      BY <1>1
    <2>3. /\ [c \in Clients |-> peer[c] \notin {"off", "up"}] = [c \in Clients |-> FALSE]
          /\ [c \in Clients |-> peer[c] \notin {"off", "up", "shut"}] = [c \in Clients |-> FALSE]
      BY <1>1
    <2>4. [c \in Clients |-> IF connSocket # NoFd /\ pc = "write" /\ file[connSocket] = c
                             THEN unsent ELSE 0] = [c \in Clients |-> 0]
      BY <1>1
    <2> QED BY <1>1, <2>1, <2>2, <2>3, <2>4 DEF Promise!Init
  <1> QED BY <1>3, <1>4, <1>5, InitKeeps DEF PromiseInv

\* Every step keeps the invariant and is one of Echo or none.
LEMMA PromiseStep ==
  ASSUME PromiseInv, [Next]_vars
  PROVE  PromiseInv' /\ AbstractStep
  <1>1. Inv /\ Inv' /\ LineInv /\ EraseInv /\ NetTypeOK
    BY StepKeeps DEF PromiseInv, Inv, Types
  <1>2. CASE Select
    <2>1. server = "select" /\ UNCHANGED server /\ SelectStep
      BY <1>2 DEF Select
    <2> QED BY <1>1, <2>1, SelectServes, SelectEraseStays DEF PromiseInv
  <1>3. CASE Poll \/ EPoll \/ Blocking
    <2>1. UNCHANGED server /\ server # "select"
      BY <1>3 DEF Poll, EPoll, Blocking
    <2>2. EraseInv'
      BY <1>1, <2>1 DEF Inv, PcInv, EraseInv
    <2>3. LineInv' /\ AbstractStep
      BY <1>1, <1>3, PollServes, EPollServes, BlockingServes DEF Poll, EPoll, Blocking
    <2> QED BY <1>1, <2>2, <2>3 DEF PromiseInv
  <1>4. CASE Network /\ UNCHANGED ServerVars
    <2>1. PICK c \in Clients : ClientStep(c)
      BY <1>4 DEF Network
    <2>2. UNCHANGED <<connSocket, pc, unsent, server, count, connPool, hole>>
      BY <1>4 DEF ServerVars, loopVars, selectVars
    <2>3. LineInv' /\ AbstractStep
      BY <1>1, <2>1, <2>2, ClientServes
    <2>4. EraseInv'
      BY <1>1, <2>1, <2>2, ClientErase
    <2> QED BY <1>1, <2>3, <2>4 DEF PromiseInv
  <1>5. CASE UNCHANGED vars
    <2>1. /\ UNCHANGED <<peer, inbox, outbox, backlog, file>>
          /\ UNCHANGED <<connSocket, pc, unsent, server, count, connPool, hole>>
      BY <1>5 DEF vars, kernelVars, loopVars, selectVars
    <2>2. PeersStay
      BY <2>1 DEF PeersStay
    <2>3. LineInv' /\ Stages' = Stages /\ Dones' = Dones /\ Lefts' = Lefts
      BY <1>1, <2>1, <2>2, SameLine, SamePeers
    <2>4. Owes' = Owes
      BY <2>1 DEF Owes
    <2>5. EraseInv'
      BY <1>1, <2>1 DEF EraseInv, AtEnd
    <2> QED BY <1>1, <2>1, <2>3, <2>4, <2>5, Stutters DEF PromiseInv
  <1> QED BY <1>2, <1>3, <1>4, <1>5 DEF Next, ServerStep, ServerVars

\* A connection is in the queue of accept() or behind one descriptor and never
\* both, and the assignments of vector::erase close only the one that is to go.
THEOREM PromiseInvariance == Spec => []PromiseInv
  BY PromiseStarts, PromiseStep, PTL DEF Spec

\* The four programs of examples/echo implement Echo: what a client sends comes back
\* to it alone, one answer to each read, and no connection is closed before its
\* client has left and all it sent is read.
THEOREM EchoServersPromise == Spec => EchoPromise
  <1>1. Init => Promise!Init
    BY PromiseStarts
  <1>2. PromiseInv /\ [Next]_vars => [Promise!Next]_(Promise!echoVars)
    BY PromiseStep DEF AbstractStep
  <1> QED BY <1>1, <1>2, PromiseInvariance, PTL DEF Spec, EchoPromise, Promise!Spec
=============================================================================
