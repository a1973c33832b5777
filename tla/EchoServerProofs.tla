-------------------------- MODULE EchoServerProofs ---------------------------
(***************************************************************************)
(* Theorems about the echo servers, for any clients, descriptors, limits    *)
(* and sizes: the counts of SocketGuard agree with the handles, the lists   *)
(* of a server with each other, and events just reported find their         *)
(* connections.                                                             *)
(***************************************************************************)
EXTENDS EchoServer, FiniteSetTheorems, SequenceTheorems, TLAPS

Injective(s) == \A i, j \in DOMAIN s : s[i] = s[j] => i = j

Pooled == {connPool[i] : i \in DOMAIN connPool}
Local == {connSocket} \ {NoFd}

\* Where the loop is says which server runs and what the local variable holds.
PcInv == /\ connSocket # NoFd <=> pc \in {"store", "read", "write"}
         /\ pc \in {"read", "write"} => server = "blocking"
         /\ pc = "erase" => server = "select"
         /\ server = "blocking" => pc \in {"wait", "read", "write", "undefined"} /\ connPool = <<>>
         /\ pc \in {"accept", "store", "scan", "erase"} => nready > 0

\* A connection just accepted is not in the pool, and no other is there twice.
NewInv == connSocket # NoFd => ~InPool(connSocket)
DistinctInv == pc # "erase" => Injective(connPool)

\* In vector::erase one position holds what another holds too, or what is to go.
HoleInv == IF pc = "erase" THEN hole \in DOMAIN connPool ELSE hole = 0
Solid == DOMAIN connPool \ (IF pc = "erase" THEN {hole} ELSE {})

SelectInv == server = "select" =>
    /\ pc = "scan" => iter \in DOMAIN connPool
    /\ \A i, j \in Solid : connPool[i] = connPool[j] => i = j
    /\ allfds = {ListenFd} \union {connPool[i] : i \in Solid} \union Local

PollInv == server = "poll" =>
    /\ pollfds # <<>> /\ pollfds[1] = ListenFd /\ Injective(pollfds)
    /\ {pollfds[i] : i \in DOMAIN pollfds} = {ListenFd} \union Pooled \union Local
    /\ pc = "scan" => iter \in 2 .. Len(pollfds)

\* The events of this round that are still to be handled are of descriptors
\* the server waits for.
FreshInv == server = "epoll" /\ pc \in {"scan", "store"} =>
    /\ nready <= Len(eventList)
    /\ \A i, j \in iter .. nready : eventList[i] = eventList[j] => i = j
    /\ \A i \in iter .. nready : eventList[i] \in interest

EPollInv == /\ eventList # <<>>
            /\ server = "epoll" => interest = {ListenFd} \union Pooled
            /\ FreshInv

BookInv == SelectInv /\ PollInv /\ EPollInv

HeldInv == /\ CountTypeOK
           /\ file \in [Fds -> Clients \union {NoClient}]
           /\ connSocket \in Fds \union {NoFd} /\ connPool \in Seq(Fds)
           /\ OpenWhileHeld /\ NewInv

\* The types of the pool are those of HeldInv, the hole's follows from HoleInv.
LoopTypes == /\ pc \in {"wait", "accept", "store", "scan", "erase", "read", "write", "undefined"}
             /\ iter \in Nat \ {0} /\ nready \in Nat
SelectTypes == /\ maxfd \in Fds \union {ListenFd}
               /\ allfds \subseteq Fds \union {ListenFd} /\ rfds \subseteq Fds \union {ListenFd}
Types == /\ NetTypeOK /\ LoopTypes /\ SelectTypes /\ PollTypeOK /\ EPollTypeOK /\ BlockingTypeOK
         /\ server \in Servers

Inv == Types /\ HeldInv /\ PcInv /\ DistinctInv /\ HoleInv /\ BookInv
-----------------------------------------------------------------------------
(* Sequences and sets *)

LEMMA RemoveFacts ==
  ASSUME NEW S, NEW s \in Seq(S), NEW i \in DOMAIN s
  PROVE  /\ RemoveAt(s, i) \in Seq(S) /\ Len(RemoveAt(s, i)) = Len(s) - 1
         /\ DOMAIN RemoveAt(s, i) = 1 .. Len(s) - 1 /\ DOMAIN s = 1 .. Len(s)
         /\ i \in 1 .. Len(s) /\ Len(s) \in Nat
         /\ \A j \in 1 .. Len(s) - 1 : RemoveAt(s, i)[j] = IF j < i THEN s[j] ELSE s[j + 1]
  <1> DEFINE l == SubSeq(s, 1, i - 1)
             r == SubSeq(s, i + 1, Len(s))
  <1>1. i \in 1 .. Len(s) /\ Len(s) \in Nat /\ DOMAIN s = 1 .. Len(s)
    OBVIOUS
  <1>2. /\ l \in Seq(S) /\ Len(l) = i - 1
        /\ \A j \in 1 .. i - 1 : l[j] = s[j]
    BY <1>1
  <1>3. /\ r \in Seq(S) /\ Len(r) = Len(s) - i
        /\ \A j \in 1 .. Len(s) - i : r[j] = s[i + j]
    BY <1>1
  <1>4. RemoveAt(s, i) = l \o r
    BY DEF RemoveAt
  <1> HIDE DEF l, r
  <1>5. /\ RemoveAt(s, i) \in Seq(S) /\ Len(RemoveAt(s, i)) = Len(s) - 1
        /\ DOMAIN RemoveAt(s, i) = 1 .. Len(s) - 1
    <2>1. l \o r \in Seq(S) /\ Len(l \o r) = Len(l) + Len(r)
      BY <1>2, <1>3, ConcatProperties
    <2>2. Len(l) + Len(r) = Len(s) - 1
      BY <1>1, <1>2, <1>3
    <2> QED BY <1>4, <2>1, <2>2
  <1>6. ASSUME NEW j \in 1 .. Len(s) - 1
        PROVE  RemoveAt(s, i)[j] = IF j < i THEN s[j] ELSE s[j + 1]
    <2>1. CASE j < i
      BY <1>1, <1>2, <1>3, <1>4, <2>1
    <2>2. CASE ~(j < i)
      <3>1. j - (i - 1) \in 1 .. Len(s) - i /\ s[i + (j - (i - 1))] = s[j + 1]
        BY <1>1, <2>2
      <3>2. j \in 1 .. Len(l) + Len(r) /\ j > Len(l) /\ Len(l) = i - 1
        BY <1>1, <1>2, <1>3, <2>2
      <3>3. (l \o r)[j] = r[j - Len(l)]
        <4>1. \A q \in 1 .. Len(l) + Len(r) :
                 (l \o r)[q] = IF q <= Len(l) THEN l[q] ELSE r[q - Len(l)]
          BY <1>2, <1>3, ConcatProperties
        <4>2. ~(j <= Len(l))
          BY <1>1, <3>2
        <4> QED BY <3>2, <4>1, <4>2
      <3> QED BY <1>3, <1>4, <2>2, <3>1, <3>2, <3>3
    <2> QED BY <2>1, <2>2
  <1> QED BY <1>1, <1>5, <1>6

\* Without one of its elements a sequence of different ones holds the others.
LEMMA RemoveRange ==
  ASSUME NEW S, NEW s \in Seq(S), NEW i \in DOMAIN s, Injective(s)
  PROVE  /\ Injective(RemoveAt(s, i))
         /\ {RemoveAt(s, i)[j] : j \in DOMAIN RemoveAt(s, i)}
              = {s[j] : j \in DOMAIN s} \ {s[i]}
  <1> DEFINE r == RemoveAt(s, i)
  <1>1. /\ DOMAIN r = 1 .. Len(s) - 1 /\ DOMAIN s = 1 .. Len(s)
        /\ i \in 1 .. Len(s) /\ Len(s) \in Nat
        /\ \A j \in 1 .. Len(s) - 1 : r[j] = IF j < i THEN s[j] ELSE s[j + 1]
    BY RemoveFacts
  <1> HIDE DEF r
  <1> DEFINE at(j) == IF j < i THEN j ELSE j + 1
  <1>20. \A j \in DOMAIN r : at(j) \in DOMAIN s /\ at(j) # i /\ r[j] = s[at(j)]
    BY <1>1
  <1>21. \A j, k \in DOMAIN r : at(j) = at(k) => j = k
    BY <1>1
  <1> HIDE DEF at
  <1>2. Injective(r)
    BY <1>20, <1>21 DEF Injective
  <1>3. ASSUME NEW j \in DOMAIN r
        PROVE  r[j] \in {s[k] : k \in DOMAIN s} \ {s[i]}
    BY <1>20 DEF Injective
  <1>4. ASSUME NEW k \in DOMAIN s, s[k] # s[i]
        PROVE  \E j \in DOMAIN r : r[j] = s[k]
    <2>1. CASE k < i
      BY <1>1, <2>1
    <2>2. CASE k > i
      <3>1. k - 1 \in 1 .. Len(s) - 1 /\ ~(k - 1 < i) /\ k - 1 + 1 = k
        BY <1>1, <2>2
      <3> QED BY <1>1, <3>1
    <2> QED BY <1>1, <1>4, <2>1, <2>2
  <1> QED BY <1>2, <1>3, <1>4 DEF r

LEMMA AppendFacts ==
  ASSUME NEW S, NEW s \in Seq(S), NEW x \in S
  PROVE  /\ Append(s, x) \in Seq(S) /\ Len(Append(s, x)) = Len(s) + 1 /\ Len(s) \in Nat
         /\ DOMAIN s = 1 .. Len(s) /\ DOMAIN Append(s, x) = (1 .. Len(s)) \union {Len(s) + 1}
         /\ \A j \in 1 .. Len(s) : Append(s, x)[j] = s[j]
         /\ Append(s, x)[Len(s) + 1] = x
  OBVIOUS
-----------------------------------------------------------------------------
(* The counts *)

\* A descriptor has handles in the pool exactly when it is in the pool.
LEMMA CopiesFacts ==
  ASSUME connPool \in Seq(Fds), NEW fd \in Fds
  PROVE  /\ IsFiniteSet(Copies(fd)) /\ Cardinality(Copies(fd)) \in Nat
         /\ Cardinality(Copies(fd)) = 0 <=> ~InPool(fd)
  <1>1. Copies(fd) \subseteq 1 .. Len(connPool) /\ Len(connPool) \in Nat
    BY DEF Copies
  <1>2. IsFiniteSet(Copies(fd))
    BY <1>1, FS_Interval, FS_Subset, 1 \in Int, Len(connPool) \in Int
  <1>3. Cardinality(Copies(fd)) = 0 <=> Copies(fd) = {}
    BY <1>2, FS_EmptySet
  <1>4. Copies(fd) = {} <=> ~InPool(fd)
    BY DEF Copies, InPool
  <1> QED BY <1>2, <1>3, <1>4, FS_CardinalityType

LEMMA LocalsNat == \A fd \in Fds : Locals(fd) \in {0, 1} /\ (Locals(fd) = 1 <=> connSocket = fd)
  BY DEF Locals

\* The counts k are what the handles ask for, and no descriptor comes to life.
LEMMA CountsBecomeRight ==
  ASSUME CountTypeOK, file \in [Fds -> Clients \union {NoClient}],
         OpenWhileHeld, NEW k \in [Fds -> Nat], CountsBecome(k),
         \A fd \in Fds : /\ k[fd] = Cardinality(Copies(fd)') + Locals(fd)'
                         /\ k[fd] > 0 => count[fd] > 0
  PROVE  /\ OpenWhileHeld' /\ CountTypeOK'
         /\ file' \in [Fds -> Clients \union {NoClient}]
         /\ \A fd \in Fds : k[fd] > 0 => file'[fd] = file[fd]
  <1>1. count' = k
    BY DEF CountsBecome
  <1>2. /\ file' \in [Fds -> Clients \union {NoClient}]
        /\ \A fd \in Fds : file'[fd] = IF file[fd] # NoClient /\ k[fd] = 0 THEN NoClient
                                       ELSE file[fd]
    BY DEF CountsBecome
  <1>3. \A fd \in Fds : file[fd] # NoClient <=> count[fd] > 0
    BY DEF OpenWhileHeld
  <1>4. \A fd \in Fds : k[fd] \in Nat /\ count[fd] \in Nat
    BY DEF CountTypeOK
  <1>5. \A fd \in Fds : file'[fd] # NoClient <=> k[fd] > 0
    BY <1>2, <1>3, <1>4
  <1>6. OpenWhileHeld'
    BY <1>1, <1>5 DEF OpenWhileHeld
  <1> QED BY <1>1, <1>2, <1>4, <1>6 DEF CountTypeOK
\* A call that changes neither handles nor descriptors.
LEMMA SameHeld ==
  ASSUME HeldInv, UNCHANGED <<count, file, connSocket, connPool>>
  PROVE  HeldInv'
  BY DEF HeldInv, CountTypeOK, OpenWhileHeld, NewInv, Copies, Locals, InPool

\* accept() returns a descriptor that no handle has.
LEMMA AcceptHeld ==
  ASSUME HeldInv, NetTypeOK, connSocket = NoFd, NEW fd \in Fds, Accept(fd),
         connPool' = connPool
  PROVE  HeldInv' /\ ~InPool(fd) /\ connSocket' = fd
  <1>1. /\ file[fd] = NoClient /\ file' = [file EXCEPT ![fd] = Head(backlog)]
        /\ count' = [count EXCEPT ![fd] = 1] /\ connSocket' = fd /\ backlog # <<>>
    BY DEF Accept, AcceptsAs, LowestFree, FreeFds, Made
  <1>2. Head(backlog) \in Clients /\ Head(backlog) # NoClient
    BY <1>1, SocketsAssumption DEF NetTypeOK
  <1>3. fd # NoFd
    BY LoopAssumption
  <1>4. count[fd] = 0 /\ Cardinality(Copies(fd)) = 0
    <2>1. count[fd] = Cardinality(Copies(fd)) + Locals(fd) /\ ~(count[fd] > 0) /\ count[fd] \in Nat
      BY <1>1 DEF HeldInv, OpenWhileHeld, CountTypeOK
    <2>2. Cardinality(Copies(fd)) \in Nat /\ Locals(fd) \in {0, 1}
      BY CopiesFacts, LocalsNat DEF HeldInv
    <2> QED BY <2>1, <2>2
  <1>5. ~InPool(fd)
    BY <1>4, CopiesFacts DEF HeldInv
  <1>6. \A g \in Fds : Copies(g)' = Copies(g) /\ Locals(g)' = IF g = fd THEN 1 ELSE 0
    BY <1>1 DEF Copies, Locals
  <1>7. \A g \in Fds : g # fd => Locals(g) = 0
    BY LoopAssumption DEF Locals
  <1>8. OpenWhileHeld'
    <2> SUFFICES ASSUME NEW g \in Fds
                 PROVE  /\ count'[g] = Cardinality(Copies(g))' + Locals(g)'
                        /\ file'[g] # NoClient <=> count'[g] > 0
      BY DEF OpenWhileHeld
    <2>1. /\ count[g] = Cardinality(Copies(g)) + Locals(g)
          /\ file[g] # NoClient <=> count[g] > 0
      BY DEF HeldInv, OpenWhileHeld
    <2>2. CASE g = fd
      BY <1>1, <1>2, <1>4, <1>6, <2>2 DEF HeldInv, CountTypeOK
    <2>3. CASE g # fd
      BY <1>1, <1>6, <1>7, <2>1, <2>3 DEF HeldInv, CountTypeOK
    <2> QED BY <2>2, <2>3
  <1>9. NewInv'
    BY <1>1, <1>5 DEF NewInv, InPool
  <1> QED BY <1>1, <1>2, <1>5, <1>8, <1>9 DEF HeldInv, CountTypeOK

\* The pool takes the copy of a connection that it has not; nothing closes.
LEMMA PushHeld ==
  ASSUME HeldInv, connSocket # NoFd, PushBack(count)
  PROVE  /\ HeldInv' /\ connSocket' = NoFd
         /\ connPool' = Append(connPool, connSocket) /\ file' = file
  <1> DEFINE k == Destroyed(Copied(count, connSocket), connSocket)
             n == Len(connPool)
  <1>1. /\ connSocket \in Fds /\ connPool \in Seq(Fds) /\ count \in [Fds -> Nat] /\ n \in Nat
        /\ ~InPool(connSocket)
    BY DEF HeldInv, CountTypeOK, NewInv
  <1>2. CountsBecome(k) /\ connPool' = Append(connPool, connSocket) /\ connSocket' = NoFd
    BY DEF PushBack
  <1>3. k \in [Fds -> Nat] /\ \A g \in Fds : k[g] = count[g]
    BY <1>1 DEF Destroyed, Copied
  <1> HIDE DEF k
  <1>4. /\ DOMAIN connPool = 1 .. n /\ DOMAIN connPool' = (1 .. n) \union {n + 1}
        /\ \A j \in 1 .. n : connPool'[j] = connPool[j]
        /\ connPool'[n + 1] = connSocket /\ connPool' \in Seq(Fds)
    BY <1>1, <1>2, AppendFacts
  <1> HIDE DEF n
  <1>5. \A g \in Fds : Copies(g)' = Copies(g) \union (IF g = connSocket THEN {n + 1} ELSE {})
    BY <1>4 DEF Copies
  <1>6. \A g \in Fds : Locals(g)' = 0 /\ Locals(g) = IF g = connSocket THEN 1 ELSE 0
    BY <1>1, <1>2, LoopAssumption DEF Locals
  <1>7. \A g \in Fds : k[g] = Cardinality(Copies(g)') + Locals(g)'
    <2> TAKE g \in Fds
    <2>1. IsFiniteSet(Copies(g)) /\ Cardinality(Copies(g)) \in Nat
      BY <1>1, CopiesFacts
    <2>2. k[g] = Cardinality(Copies(g)) + Locals(g)
      BY <1>3 DEF HeldInv, OpenWhileHeld
    <2>3. CASE g = connSocket
      <3>1. n + 1 \notin Copies(g)
        BY <1>1, <1>4 DEF Copies
      <3>2. Cardinality(Copies(g) \union {n + 1}) = Cardinality(Copies(g)) + 1
        BY <2>1, <3>1, FS_AddElement
      <3> QED BY <1>5, <1>6, <2>1, <2>2, <2>3, <3>2
    <2>4. CASE g # connSocket
      BY <1>5, <1>6, <2>1, <2>2, <2>4
    <2> QED BY <2>3, <2>4
  <1>8. /\ OpenWhileHeld' /\ CountTypeOK' /\ file' \in [Fds -> Clients \union {NoClient}]
        /\ \A g \in Fds : k[g] > 0 => file'[g] = file[g]
    BY <1>2, <1>3, <1>7, CountsBecomeRight DEF HeldInv
  <1>9. file' = file
    <2>1. \A g \in Fds : k[g] = 0 => file[g] = NoClient /\ file'[g] = NoClient
      BY <1>2, <1>3, <1>8 DEF HeldInv, OpenWhileHeld, CountsBecome
    <2>2. \A g \in Fds : k[g] = 0 \/ k[g] > 0
      BY <1>3
    <2> QED BY <1>8, <2>1, <2>2 DEF HeldInv
  <1>10. NewInv'
    BY <1>2 DEF NewInv
  <1> QED BY <1>2, <1>4, <1>8, <1>9, <1>10 DEF HeldInv

\* The pool takes another descriptor.
LEMMA PoolGrows ==
  ASSUME connPool \in Seq(Fds), Injective(connPool), connSocket \in Fds, ~InPool(connSocket),
         connPool' = Append(connPool, connSocket)
  PROVE  Injective(connPool') /\ Pooled' = Pooled \union {connSocket}
  <1> DEFINE n == Len(connPool)
  <1>1. /\ n \in Nat
        /\ DOMAIN connPool = 1 .. n /\ DOMAIN connPool' = (1 .. n) \union {n + 1}
        /\ \A j \in 1 .. n : connPool'[j] = connPool[j]
        /\ connPool'[n + 1] = connSocket
    BY AppendFacts
  <1> HIDE DEF n
  <1>2. \A j \in 1 .. n : connPool[j] # connSocket
    BY <1>1 DEF InPool
  <1>3. Injective(connPool')
    <2>1. \A i, j \in 1 .. n : connPool[i] = connPool[j] => i = j
      BY <1>1 DEF Injective
    <2> QED BY <1>1, <1>2, <2>1 DEF Injective
  <1>4. Pooled' = Pooled \union {connSocket}
    BY <1>1 DEF Pooled
  <1> QED BY <1>3, <1>4

\* Through the pair of map::insert it is the same.
LEMMA InsertHeld ==
  ASSUME HeldInv, connSocket # NoFd, Insert
  PROVE  /\ HeldInv' /\ connSocket' = NoFd
         /\ connPool' = Append(connPool, connSocket) /\ file' = file
  <1>1. connSocket \in Fds /\ count \in [Fds -> Nat] /\ ~InPool(connSocket)
    BY DEF HeldInv, CountTypeOK, NewInv
  <1> DEFINE k == ThroughPair(count, connSocket)
  <1>2. k = count
    <2>1. DOMAIN k = Fds /\ k = [g \in Fds |-> k[g]]
      BY <1>1 DEF ThroughPair, CopiedOnce, Copied, Destroyed
    <2>2. \A g \in Fds : k[g] = count[g]
      BY <1>1 DEF ThroughPair, CopiedOnce, Copied, Destroyed
    <2> HIDE DEF k
    <2> QED BY <1>1, <2>1, <2>2
  <1>3. PushBack(count)
    BY <1>1, <1>2 DEF Insert
  <1> QED BY <1>3, PushHeld

\* The local handle goes out of scope.
LEMMA DropHeld ==
  ASSUME HeldInv, connSocket # NoFd, CountsBecome(Destroyed(count, connSocket)),
         connSocket' = NoFd, connPool' = connPool
  PROVE  HeldInv'
  <1> DEFINE k == Destroyed(count, connSocket)
  <1>1. connSocket \in Fds /\ count \in [Fds -> Nat] /\ connPool \in Seq(Fds)
    BY DEF HeldInv, CountTypeOK
  <1>2. \A g \in Fds : /\ Copies(g)' = Copies(g) /\ Locals(g)' = 0
                       /\ Locals(g) = IF g = connSocket THEN 1 ELSE 0
    BY <1>1, LoopAssumption DEF Copies, Locals
  <1>3. \A g \in Fds : k[g] = IF g = connSocket THEN count[g] - 1 ELSE count[g]
    BY <1>1 DEF Destroyed
  <1>4. \A g \in Fds : /\ k[g] = Cardinality(Copies(g)') + Locals(g)'
                       /\ k[g] \in Nat
                       /\ k[g] > 0 => count[g] > 0
    <2> TAKE g \in Fds
    <2>1. Cardinality(Copies(g)) \in Nat /\ count[g] = Cardinality(Copies(g)) + Locals(g)
      BY <1>1, CopiesFacts DEF HeldInv, OpenWhileHeld
    <2> QED BY <1>2, <1>3, <2>1
  <1>5. k = [g \in Fds |-> k[g]]
    BY <1>1 DEF Destroyed
  <1> HIDE DEF k
  <1>6. CountsBecome(k)
    BY DEF k
  <1>7. OpenWhileHeld' /\ CountTypeOK' /\ file' \in [Fds -> Clients \union {NoClient}]
    <2>1. k \in [Fds -> Nat]
      BY <1>4, <1>5
    <2> QED BY <1>4, <1>6, <2>1, CountsBecomeRight DEF HeldInv
  <1> QED BY <1>1, <1>7 DEF HeldInv, NewInv
\* An entry of a pool without doubles goes, and its descriptor closes.
LEMMA EraseHeld ==
  ASSUME HeldInv, connSocket = NoFd, Injective(connPool), NEW fd \in Fds,
         EraseFromPool(fd), UNCHANGED connSocket
  PROVE  /\ HeldInv' /\ Injective(connPool') /\ Pooled' = Pooled \ {fd} /\ fd \in Pooled
         /\ file'[fd] = NoClient /\ \A g \in Pooled' : file'[g] # NoClient
  <1> DEFINE k == Destroyed(count, fd)
  <1>1. /\ connPool \in Seq(Fds) /\ count \in [Fds -> Nat]
        /\ \A g \in Fds : Locals(g) = 0 /\ Locals(g)' = 0
    BY LoopAssumption DEF HeldInv, CountTypeOK, Locals
  <1>2. PICK i \in DOMAIN connPool :
           connPool[i] = fd /\ connPool' = RemoveAt(connPool, i) /\ CountsBecome(k)
    BY DEF EraseFromPool
  <1>3. /\ connPool' \in Seq(Fds) /\ Injective(connPool')
        /\ Pooled' = Pooled \ {fd} /\ fd \in Pooled
    <2>1. RemoveAt(connPool, i) \in Seq(Fds)
      BY <1>1, RemoveFacts
    <2>2. /\ Injective(RemoveAt(connPool, i))
          /\ {RemoveAt(connPool, i)[j] : j \in DOMAIN RemoveAt(connPool, i)}
               = {connPool[j] : j \in DOMAIN connPool} \ {connPool[i]}
      BY <1>1, RemoveRange
    <2>3. fd \in Pooled
      BY <1>2 DEF Pooled
    <2> QED BY <1>2, <2>1, <2>2, <2>3 DEF Pooled
  <1>4. \A s \in Seq(Fds), g \in Fds : Injective(s) =>
           LET C == {j \in DOMAIN s : s[j] = g}
           IN  Cardinality(C) = IF g \in {s[j] : j \in DOMAIN s} THEN 1 ELSE 0
    <2> SUFFICES ASSUME NEW s \in Seq(Fds), NEW g \in Fds, Injective(s)
                 PROVE  Cardinality({j \in DOMAIN s : s[j] = g})
                          = IF g \in {s[j] : j \in DOMAIN s} THEN 1 ELSE 0
      OBVIOUS
    <2> DEFINE C == {j \in DOMAIN s : s[j] = g}
    <2>1. CASE g \in {s[j] : j \in DOMAIN s}
      <3>1. PICK j \in DOMAIN s : s[j] = g
        BY <2>1
      <3>2. C = {j}
        BY <3>1 DEF Injective
      <3> QED BY <2>1, <3>2, FS_Singleton
    <2>2. CASE g \notin {s[j] : j \in DOMAIN s}
      <3>1. C = {}
        BY <2>2
      <3> QED BY <2>2, <3>1, FS_EmptySet
    <2> QED BY <2>1, <2>2
  <1>5. \A g \in Fds : /\ Cardinality(Copies(g)) = IF g \in Pooled THEN 1 ELSE 0
                       /\ Cardinality(Copies(g)') = IF g \in Pooled \ {fd} THEN 1 ELSE 0
    <2> TAKE g \in Fds
    <2>1. Cardinality(Copies(g)) = IF g \in Pooled THEN 1 ELSE 0
      BY <1>1, <1>4 DEF Copies, Pooled
    <2>2. Cardinality(Copies(g)') = IF g \in Pooled' THEN 1 ELSE 0
      BY <1>3, <1>4 DEF Copies, Pooled
    <2> QED BY <1>3, <2>1, <2>2
  <1>6. \A g \in Fds : k[g] = IF g = fd THEN count[g] - 1 ELSE count[g]
    BY <1>1 DEF Destroyed
  <1>7. \A g \in Fds : /\ k[g] = Cardinality(Copies(g)') + Locals(g)'
                       /\ k[g] \in Nat
                       /\ k[g] > 0 => count[g] > 0
    <2> TAKE g \in Fds
    <2>1. count[g] = IF g \in Pooled THEN 1 ELSE 0
      BY <1>1, <1>5 DEF HeldInv, OpenWhileHeld
    <2> QED BY <1>1, <1>3, <1>5, <1>6, <2>1
  <1>8. k = [g \in Fds |-> k[g]]
    BY <1>1 DEF Destroyed
  <1> HIDE DEF k
  <1>9. OpenWhileHeld' /\ CountTypeOK' /\ file' \in [Fds -> Clients \union {NoClient}] /\ count' = k
    <2>1. k \in [Fds -> Nat]
      BY <1>7, <1>8
    <2> QED BY <1>2, <1>7, <2>1, CountsBecomeRight DEF HeldInv, CountsBecome
  <1>10. \A g \in Fds : file'[g] # NoClient <=> g \in Pooled \ {fd}
    <2> TAKE g \in Fds
    <2>1. file'[g] # NoClient <=> k[g] > 0
      BY <1>9 DEF OpenWhileHeld
    <2>2. k[g] = IF g \in Pooled \ {fd} THEN 1 ELSE 0
      BY <1>1, <1>5, <1>7
    <2> QED BY <2>1, <2>2
  <1>11. Pooled \subseteq Fds
    BY <1>1 DEF Pooled
  <1> QED BY <1>3, <1>9, <1>10, <1>11 DEF HeldInv, NewInv

\* vector::erase assigns to the hole what is behind it ...
LEMMA AssignHeld ==
  ASSUME HeldInv, connSocket = NoFd, UNCHANGED connSocket,
         NEW h \in DOMAIN connPool, h < Len(connPool),
         CountsBecome(Assigned(count, connPool[h], connPool[h + 1])),
         connPool' = [connPool EXCEPT ![h] = connPool[h + 1]]
  PROVE  /\ HeldInv' /\ Len(connPool') = Len(connPool)
         /\ DOMAIN connPool' = DOMAIN connPool /\ h + 1 \in DOMAIN connPool
  <1> DEFINE x == connPool[h]
             y == connPool[h + 1]
             k == Assigned(count, x, y)
  <1>1. /\ connPool \in Seq(Fds) /\ count \in [Fds -> Nat]
        /\ \A g \in Fds : Locals(g) = 0 /\ Locals(g)' = 0
    BY LoopAssumption DEF HeldInv, CountTypeOK, Locals
  <1>2. /\ h \in 1 .. Len(connPool) /\ h + 1 \in DOMAIN connPool /\ x \in Fds /\ y \in Fds
        /\ Len(connPool) \in Nat
    BY <1>1
  <1>3. /\ connPool' \in Seq(Fds) /\ DOMAIN connPool' = DOMAIN connPool
        /\ Len(connPool') = Len(connPool)
        /\ connPool'[h] = y /\ \A j \in DOMAIN connPool : j # h => connPool'[j] = connPool[j]
    BY <1>1, <1>2
  <1>4. \A g \in Fds : k[g] = IF x = y THEN count[g]
                              ELSE IF g = x THEN count[g] - 1
                              ELSE IF g = y THEN count[g] + 1 ELSE count[g]
    BY <1>1, <1>2 DEF Assigned, Copied, Destroyed
  <1>5. k = [g \in Fds |-> k[g]]
    BY <1>1 DEF Assigned, Copied, Destroyed
  <1>6. CountsBecome(k)
    OBVIOUS
  <1> HIDE DEF k, x, y
  <1>7. x = connPool[h] /\ y = connPool[h + 1]
    BY DEF x, y
  <1>8. \A g \in Fds : /\ k[g] = Cardinality(Copies(g)') + Locals(g)'
                       /\ k[g] \in Nat
                       /\ k[g] > 0 => count[g] > 0
    <2> TAKE g \in Fds
    <2>1. /\ IsFiniteSet(Copies(g)) /\ Cardinality(Copies(g)) \in Nat
          /\ count[g] = Cardinality(Copies(g))
      BY <1>1, CopiesFacts DEF HeldInv, OpenWhileHeld
    <2>2. CASE x = y
      <3>1. Copies(g)' = Copies(g)
        BY <1>2, <1>3, <1>7, <2>2 DEF Copies
      <3> QED BY <1>1, <1>4, <2>1, <2>2, <3>1
    <2>3. CASE x # y /\ g = x
      <3>1. Copies(g)' = Copies(g) \ {h} /\ h \in Copies(g)
        BY <1>2, <1>3, <1>7, <2>3 DEF Copies
      <3>2. Cardinality(Copies(g)') = Cardinality(Copies(g)) - 1 /\ Cardinality(Copies(g)') \in Nat
        BY <2>1, <3>1, FS_RemoveElement, FS_CardinalityType
      <3> QED BY <1>1, <1>4, <2>1, <2>3, <3>2
    <2>4. CASE x # y /\ g = y
      <3>1. Copies(g)' = Copies(g) \union {h} /\ h \notin Copies(g) /\ h + 1 \in Copies(g)
        BY <1>2, <1>3, <1>7, <2>4 DEF Copies
      <3>2. Cardinality(Copies(g) \union {h}) = Cardinality(Copies(g)) + 1
        BY <2>1, <3>1, FS_AddElement
      <3>3. Cardinality(Copies(g)) # 0
        BY <2>1, <3>1, FS_EmptySet
      <3> QED BY <1>1, <1>4, <2>1, <2>4, <3>1, <3>2, <3>3
    <2>5. CASE g # x /\ g # y
      <3>1. Copies(g)' = Copies(g)
        BY <1>2, <1>3, <1>7, <2>5 DEF Copies
      <3> QED BY <1>1, <1>4, <2>1, <2>5, <3>1
    <2> QED BY <2>2, <2>3, <2>4, <2>5
  <1>9. OpenWhileHeld' /\ CountTypeOK' /\ file' \in [Fds -> Clients \union {NoClient}]
    <2>1. k \in [Fds -> Nat]
      BY <1>5, <1>8
    <2> QED BY <1>6, <1>8, <2>1, CountsBecomeRight DEF HeldInv
  <1> QED BY <1>2, <1>3, <1>9 DEF HeldInv, NewInv

\* ... and destroys the last.
LEMMA DestroyHeld ==
  ASSUME HeldInv, connSocket = NoFd, UNCHANGED connSocket,
         NEW h \in DOMAIN connPool, h = Len(connPool),
         CountsBecome(Destroyed(count, connPool[h])),
         connPool' = SubSeq(connPool, 1, h - 1)
  PROVE  /\ HeldInv' /\ DOMAIN connPool' = DOMAIN connPool \ {h}
         /\ \A j \in DOMAIN connPool' : connPool'[j] = connPool[j]
  <1> DEFINE x == connPool[h]
             k == Destroyed(count, x)
  <1>1. /\ connPool \in Seq(Fds) /\ count \in [Fds -> Nat]
        /\ \A g \in Fds : Locals(g) = 0 /\ Locals(g)' = 0
    BY LoopAssumption DEF HeldInv, CountTypeOK, Locals
  <1>2. h \in 1 .. Len(connPool) /\ x \in Fds /\ Len(connPool) \in Nat
    BY <1>1
  <1>3. /\ connPool' \in Seq(Fds) /\ DOMAIN connPool' = DOMAIN connPool \ {h}
        /\ \A j \in DOMAIN connPool' : connPool'[j] = connPool[j]
    BY <1>1, <1>2
  <1>4. \A g \in Fds : k[g] = IF g = x THEN count[g] - 1 ELSE count[g]
    BY <1>1, <1>2 DEF Destroyed
  <1>5. k = [g \in Fds |-> k[g]]
    BY <1>1 DEF Destroyed
  <1>6. CountsBecome(k)
    OBVIOUS
  <1> HIDE DEF k, x
  <1>7. x = connPool[h]
    BY DEF x
  <1>8. \A g \in Fds : /\ k[g] = Cardinality(Copies(g)') + Locals(g)'
                       /\ k[g] \in Nat
                       /\ k[g] > 0 => count[g] > 0
    <2> TAKE g \in Fds
    <2>1. /\ IsFiniteSet(Copies(g)) /\ Cardinality(Copies(g)) \in Nat
          /\ count[g] = Cardinality(Copies(g))
      BY <1>1, CopiesFacts DEF HeldInv, OpenWhileHeld
    <2>2. CASE g = x
      <3>1. Copies(g)' = Copies(g) \ {h} /\ h \in Copies(g)
        BY <1>2, <1>3, <1>7, <2>2 DEF Copies
      <3>2. Cardinality(Copies(g)') = Cardinality(Copies(g)) - 1 /\ Cardinality(Copies(g)') \in Nat
        BY <2>1, <3>1, FS_RemoveElement, FS_CardinalityType
      <3> QED BY <1>1, <1>4, <2>1, <2>2, <3>2
    <2>3. CASE g # x
      <3>1. Copies(g)' = Copies(g)
        BY <1>2, <1>3, <1>7, <2>3 DEF Copies
      <3> QED BY <1>1, <1>4, <2>1, <2>3, <3>1
    <2> QED BY <2>2, <2>3
  <1>9. OpenWhileHeld' /\ CountTypeOK' /\ file' \in [Fds -> Clients \union {NoClient}]
    <2>1. k \in [Fds -> Nat]
      BY <1>5, <1>8
    <2> QED BY <1>6, <1>8, <2>1, CountsBecomeRight DEF HeldInv
  <1> QED BY <1>2, <1>3, <1>9 DEF HeldInv, NewInv
-----------------------------------------------------------------------------
(* The network *)

LEMMA ClientTypes ==
  ASSUME NetTypeOK, NEW c \in Clients, ClientStep(c)
  PROVE  NetTypeOK' /\ file' = file
  <1>1. CASE Connect(c)
    BY <1>1 DEF Connect, NetTypeOK
  <1>2. CASE Send(c)
    <2>1. inbox[c] + 1 \in 0 .. InCap
      BY <1>2, SocketsAssumption DEF Send, NetTypeOK
    <2> QED BY <1>2, <2>1 DEF Send, NetTypeOK
  <1>3. CASE Receive(c)
    <2>1. outbox[c] - 1 \in 0 .. OutCap
      BY <1>3, SocketsAssumption DEF Receive, NetTypeOK
    <2> QED BY <1>3, <2>1 DEF Receive, NetTypeOK
  <1>4. CASE ShutDown(c)
    BY <1>4 DEF ShutDown, NetTypeOK
  <1>5. CASE HangUp(c)
    <2>1. 0 \in 0 .. OutCap
      BY SocketsAssumption
    <2>2. PICK p \in {"fin", "finrst", "rst"} : peer' = [peer EXCEPT ![c] = p]
      BY <1>5 DEF HangUp
    <2> QED BY <1>5, <2>1, <2>2 DEF HangUp, NetTypeOK
  <1> QED BY <1>1, <1>2, <1>3, <1>4, <1>5 DEF ClientStep

LEMMA CloseTypes ==
  ASSUME NetTypeOK, NEW k, CountsBecome(k), file' \in [Fds -> Clients \union {NoClient}]
  PROVE  NetTypeOK'
  <1>1. 0 \in 0 .. InCap /\ 0 \in 0 .. OutCap
    BY SocketsAssumption
  <1> QED BY <1>1 DEF CountsBecome, NetTypeOK

LEMMA WriteTypes ==
  ASSUME NetTypeOK, NEW c, NEW n, write(c, n)
  PROVE  /\ peer' \in [Clients -> {"off", "up", "shut", "fin", "finrst", "rst", "rstseen"}]
         /\ killed' \in BOOLEAN
  BY DEF NetTypeOK, write

LEMMA DeliveredType ==
  ASSUME NetTypeOK, NEW c, NEW m \in Nat
  PROVE  Delivered(c, Least(m, Room(c))) \in [Clients -> 0 .. OutCap]
  <1>1. CASE c \in Clients
    <2>1. outbox[c] + Least(m, Room(c)) \in 0 .. OutCap
      BY <1>1, SocketsAssumption DEF NetTypeOK, Least, Room
    <2> QED BY <1>1, <2>1 DEF NetTypeOK, Delivered
  <1>2. CASE c \notin Clients
    BY <1>2 DEF NetTypeOK, Delivered
  <1> QED BY <1>1, <1>2

LEMMA InboxType ==
  ASSUME NetTypeOK, NEW c
  PROVE  InboxAfter(c) \in [Clients -> 0 .. InCap]
  <1>1. CASE c \in Clients
    <2>1. inbox[c] - Taken(c) \in 0 .. InCap
      BY <1>1, SocketsAssumption DEF NetTypeOK, Taken, Least
    <2> QED BY <1>1, <2>1 DEF NetTypeOK, InboxAfter
  <1>2. CASE c \notin Clients
    BY <1>2 DEF NetTypeOK, InboxAfter
  <1> QED BY <1>1, <1>2

LEMMA LengthTypes ==
  ASSUME NetTypeOK, NEW c \in Clients
  PROVE  WholeLength(c) \subseteq Nat /\ StringLength(c) \subseteq 0 .. BUFFER_SZ + 1
  <1>1. BUFFER_SZ \in Nat \ {0} /\ Taken(c) \in 0 .. BUFFER_SZ
    BY SocketsAssumption DEF NetTypeOK, Taken, Least
  <1>2. 0 .. Taken(c) - 1 \subseteq 0 .. BUFFER_SZ + 1
    BY <1>1
  <1>3. Taken(c) \in 0 .. BUFFER_SZ + 1 /\ Taken(c) + 1 \in 0 .. BUFFER_SZ + 1
    BY <1>1
  <1> QED BY <1>1, <1>2, <1>3 DEF WholeLength, StringLength

LEMMA EchoTypes ==
  ASSUME NetTypeOK, NEW c, NEW lengths \in SUBSET Nat,
         EchoBack(c, lengths) \/ ReadFails(c)
  PROVE  NetTypeOK' /\ UNCHANGED <<backlog, file, count>>
  <1>1. CASE EchoBack(c, lengths)
    <2>1. PICK m \in lengths : write(c, m) /\ outbox' = Delivered(c, Least(m, Room(c)))
      BY <1>1 DEF EchoBack
    <2>2. m \in Nat
      OBVIOUS
    <2> QED BY <1>1, <2>1, <2>2, WriteTypes, DeliveredType, InboxType DEF EchoBack, NetTypeOK
  <1>2. CASE ReadFails(c)
    BY <1>2 DEF ReadFails, PeerAfterError, NetTypeOK
  <1> QED BY <1>1, <1>2

LEMMA AcceptTypes ==
  ASSUME NetTypeOK, NEW fd \in Fds, Accept(fd)
  PROVE  NetTypeOK'
  <1>1. backlog # <<>> /\ file' = [file EXCEPT ![fd] = Head(backlog)] /\ backlog' = Tail(backlog)
    BY DEF Accept, AcceptsAs
  <1>2. Head(backlog) \in Clients /\ Tail(backlog) \in Seq(Clients)
    BY <1>1 DEF NetTypeOK
  <1> QED BY <1>1, <1>2 DEF NetTypeOK, Accept, ioVars
-----------------------------------------------------------------------------
(* The loop *)

LEMMA ResumeFacts ==
  ASSUME NEW S, NEW list \in Seq(S), NEW i \in Nat \ {0}, NEW marked, NEW n \in Nat,
         Resume(list, i, marked, n)
  PROVE  /\ pc' \in {"wait", "scan"} /\ iter' \in Nat \ {0} /\ nready' \in Nat
         /\ pc' = "scan" => /\ iter' \in i .. Len(list) /\ list[iter'] \in marked
                            /\ nready' = n /\ n > 0
  BY DEF Resume, Goto

\* The list of descriptors is finite.
LEMMA FdsFinite ==
  ASSUME NEW T \in SUBSET (Fds \union {ListenFd})
  PROVE  /\ IsFiniteSet(T) /\ Cardinality(T) \in Nat
         /\ T # {} => Cardinality(T) > 0
  <1>1. IsFiniteSet(Fds \union {ListenFd})
    BY SocketsAssumption, FS_AddElement
  <1>2. IsFiniteSet(T)
    BY <1>1, FS_Subset
  <1>3. Cardinality(T) \in Nat /\ (Cardinality(T) = 0 <=> T = {})
    BY <1>2, FS_CardinalityType, FS_EmptySet
  <1> QED BY <1>2, <1>3

\* What a step leaves alone of the other servers' lists.
LEMMA NotSelect == ASSUME server' # "select" PROVE SelectInv'
  BY DEF SelectInv
LEMMA NotPoll == ASSUME server' # "poll" PROVE PollInv'
  BY DEF PollInv
LEMMA NotEPoll == ASSUME EPollInv, server' # "epoll", eventList' = eventList PROVE EPollInv'
  BY DEF EPollInv, FreshInv
\* The types of the specification follow.
LEMMA TypesSuffice == Inv => TypeOK
  <1> SUFFICES ASSUME Inv PROVE TypeOK
    OBVIOUS
  <1>1. connPool \in Seq(Fds) /\ Len(connPool) \in Nat /\ DOMAIN connPool = 1 .. Len(connPool)
    BY DEF Inv, HeldInv
  <1>2. hole \in 0 .. Len(connPool)
    BY <1>1 DEF Inv, HoleInv
  <1> QED BY <1>1, <1>2 DEF Inv, Types, TypeOK, HeldInv, LoopTypes, LoopTypeOK, SelectTypes, SelectTypeOK

\* The step after which anything may follow.
LEMMA LostKeeps ==
  ASSUME Inv, pc \in {"wait", "accept", "scan"}, pc' = "undefined",
         UNCHANGED <<kernelVars, count, poolVars, iter, nready, selectVars, pollVars, epollVars,
                     unsent, server>>
  PROVE  Inv'
  <1>1. HeldInv'
    BY SameHeld DEF Inv, kernelVars, poolVars
  <1>2. Types'
    BY DEF Inv, Types, NetTypeOK, LoopTypes, SelectTypes, PollTypeOK, EPollTypeOK, BlockingTypeOK,
       kernelVars, selectVars, pollVars, epollVars
  <1>3. PcInv' /\ DistinctInv' /\ HoleInv'
    BY DEF Inv, PcInv, DistinctInv, HoleInv, Injective, poolVars, selectVars
  <1>4. Pooled' = Pooled /\ Local' = Local
    BY DEF Pooled, Local, poolVars
  <1>5. SelectInv'
    <2>1. Solid' = Solid
      BY DEF Solid, poolVars
    <2> QED BY <1>4, <2>1 DEF Inv, BookInv, SelectInv, poolVars, selectVars
  <1>6. PollInv'
    BY <1>4 DEF Inv, BookInv, PollInv, Injective, pollVars
  <1>7. EPollInv'
    BY <1>4 DEF Inv, BookInv, EPollInv, FreshInv, epollVars
  <1> QED BY <1>1, <1>2, <1>3, <1>5, <1>6, <1>7 DEF Inv, BookInv
-----------------------------------------------------------------------------
(* select *)

LEMMA SelectWaitKeeps ==
  ASSUME Inv, server = "select", SelectWait, UNCHANGED <<pollVars, epollVars, unsent, server>>
  PROVE  Inv'
  <1>1. /\ rfds' \subseteq Fds \union {ListenFd} /\ rfds' # {} /\ pc = "wait"
        /\ UNCHANGED <<kernelVars, count, poolVars, maxfd, allfds, hole>>
    BY DEF SelectWait, Inv, Types, SelectTypes
  <1>2. Cardinality(rfds') \in Nat /\ Cardinality(rfds') > 0
    BY <1>1, FdsFinite
  <1>3. HeldInv'
    BY <1>1, SameHeld DEF Inv, kernelVars, poolVars
  <1>4. connPool \in Seq(Fds)
    BY DEF Inv, HeldInv
  <1>5. /\ pc' \in {"wait", "accept", "scan"} /\ iter' \in Nat \ {0} /\ nready' \in Nat
        /\ pc' # "wait" => nready' > 0
        /\ pc' = "scan" => iter' \in 1 .. Len(connPool)
    <2>1. CASE Goto("accept", 1, Cardinality(rfds'))
      BY <1>2, <2>1 DEF Goto
    <2>2. CASE Resume(connPool, 1, rfds', Cardinality(rfds'))
      BY <1>2, <1>4, <2>2, ResumeFacts
    <2> QED BY <2>1, <2>2 DEF SelectWait
  <1>6. Types'
    BY <1>1, <1>5 DEF Inv, Types, NetTypeOK, LoopTypes, SelectTypes, PollTypeOK, EPollTypeOK, BlockingTypeOK,
       kernelVars, pollVars, epollVars
  <1>7. PcInv' /\ DistinctInv' /\ HoleInv'
    BY <1>1, <1>5 DEF Inv, PcInv, DistinctInv, HoleInv, poolVars, Injective
  <1>8. SelectInv'
    BY <1>1, <1>4, <1>5 DEF Inv, BookInv, SelectInv, Solid, Local, poolVars
  <1> QED BY <1>3, <1>6, <1>7, <1>8, NotPoll, NotEPoll DEF Inv, BookInv, epollVars

LEMMA SelectAcceptKeeps ==
  ASSUME Inv, server = "select", SelectAccept, UNCHANGED <<pollVars, epollVars, unsent, server>>
  PROVE  Inv'
  <1>1. /\ pc = "accept" /\ nready > 0 /\ nready \in Nat /\ iter \in Nat \ {0}
        /\ connSocket = NoFd /\ connPool \in Seq(Fds) /\ hole = 0
        /\ UNCHANGED <<connPool, hole>>
    BY DEF SelectAccept, Inv, PcInv, HeldInv, HoleInv, Types, LoopTypes
  <1>2. rfds' \subseteq Fds \union {ListenFd}
    BY DEF SelectAccept, KeepRfds, Inv, Types, SelectTypes
  <1>3. CASE /\ \E fd \in Fds : Accept(fd) /\ maxfd' = fd /\ allfds' = allfds \union {fd}
             /\ Goto("store", iter, nready)
    <2>1. PICK fd \in Fds : Accept(fd) /\ maxfd' = fd /\ allfds' = allfds \union {fd}
      BY <1>3
    <2>2. HeldInv' /\ ~InPool(fd) /\ connSocket' = fd /\ fd # NoFd
      BY <1>1, <2>1, AcceptHeld, LoopAssumption DEF Inv, Types
    <2>3. NetTypeOK'
      BY <2>1, AcceptTypes DEF Inv, Types
    <2>4. pc' = "store" /\ iter' = iter /\ nready' = nready
      BY <1>3 DEF Goto
    <2>5. Types'
      BY <1>1, <1>2, <2>1, <2>3, <2>4
      DEF Inv, Types, LoopTypes, SelectTypes, PollTypeOK, EPollTypeOK, BlockingTypeOK, pollVars, epollVars
    <2>6. PcInv' /\ DistinctInv' /\ HoleInv'
      BY <1>1, <2>2, <2>4 DEF Inv, PcInv, DistinctInv, HoleInv, Injective
    <2>7. SelectInv'
      <3>1. Solid = DOMAIN connPool /\ Solid' = DOMAIN connPool
        BY <1>1, <2>4 DEF Solid
      <3>2. Local = {} /\ Local' = {fd}
        BY <1>1, <2>2 DEF Local
      <3> QED BY <1>1, <2>1, <2>4, <3>1, <3>2 DEF Inv, BookInv, SelectInv
    <2> QED BY <2>2, <2>5, <2>6, <2>7, NotPoll, NotEPoll DEF Inv, BookInv, epollVars
  <1>4. CASE AcceptFails /\ UNCHANGED <<maxfd, allfds>>
    BY <1>1, <1>4, LostKeeps DEF SelectAccept, AcceptFails, Goto, KeepRfds, poolVars, selectVars
  <1> QED BY <1>3, <1>4 DEF SelectAccept

LEMMA SelectStoreKeeps ==
  ASSUME Inv, server = "select", SelectStore, UNCHANGED <<pollVars, epollVars, unsent, server>>
  PROVE  Inv'
  <1>1. /\ pc = "store" /\ nready > 0 /\ nready \in Nat
        /\ connSocket \in Fds /\ connPool \in Seq(Fds) /\ ~InPool(connSocket)
        /\ PushBack(count) /\ UNCHANGED <<maxfd, allfds, hole>> /\ hole = 0
        /\ Injective(connPool)
    BY DEF SelectStore, Inv, PcInv, HeldInv, NewInv, HoleInv, DistinctInv, Types, LoopTypes
  <1>2. /\ HeldInv' /\ connSocket' = NoFd /\ file' = file
        /\ connPool' = Append(connPool, connSocket)
    BY <1>1, PushHeld, LoopAssumption DEF Inv
  <1>3. connPool' \in Seq(Fds)
    BY <1>2 DEF HeldInv
  <1>4. Injective(connPool') /\ Pooled' = Pooled \union {connSocket}
    BY <1>1, <1>2, PoolGrows
  <1>5. /\ pc' \in {"wait", "scan"} /\ iter' \in Nat \ {0} /\ nready' \in Nat
        /\ pc' = "scan" => iter' \in 1 .. Len(connPool') /\ nready' > 0
    <2>1. nready - 1 \in Nat /\ 1 \in Nat \ {0}
      BY <1>1
    <2>2. Resume(connPool', 1, rfds, nready - 1)
      BY DEF SelectStore
    <2> QED BY <1>3, <2>1, <2>2, ResumeFacts
  <1>6. NetTypeOK'
    BY <1>1, <1>2, CloseTypes DEF PushBack, Inv, Types, HeldInv
  <1>7. rfds' \subseteq Fds \union {ListenFd}
    BY DEF SelectStore, KeepRfds, Inv, Types, SelectTypes
  <1>8. Types'
    BY <1>1, <1>5, <1>6, <1>7
    DEF Inv, Types, LoopTypes, SelectTypes, PollTypeOK, EPollTypeOK, BlockingTypeOK, pollVars, epollVars
  <1>9. PcInv' /\ DistinctInv' /\ HoleInv'
    BY <1>1, <1>2, <1>4, <1>5 DEF Inv, PcInv, DistinctInv, HoleInv
  <1>10. SelectInv'
    <2>1. Solid = DOMAIN connPool /\ Solid' = DOMAIN connPool'
      BY <1>1, <1>5 DEF Solid
    <2>2. Local = {connSocket} /\ Local' = {}
      BY <1>1, <1>2, LoopAssumption DEF Local
    <2>3. allfds = {ListenFd} \union Pooled \union Local
      BY <2>1 DEF Inv, BookInv, SelectInv, Pooled
    <2>4. allfds' = {ListenFd} \union Pooled' \union Local'
      BY <1>1, <1>4, <2>2, <2>3
    <2> QED BY <1>3, <1>4, <1>5, <2>1, <2>4 DEF SelectInv, Pooled, Injective
  <1> QED BY <1>2, <1>8, <1>9, <1>10, NotPoll, NotEPoll DEF Inv, BookInv, epollVars

LEMMA SelectEchoKeeps ==
  ASSUME Inv, server = "select", SelectEcho, UNCHANGED <<pollVars, epollVars, unsent, server>>
  PROVE  Inv'
  <1>1. /\ pc = "scan" /\ nready > 0 /\ nready \in Nat /\ iter \in Nat \ {0} /\ iter \in DOMAIN connPool
        /\ connPool \in Seq(Fds) /\ UNCHANGED <<poolVars, maxfd, allfds, hole>>
        /\ connSocket = NoFd
    BY DEF SelectEcho, Inv, PcInv, HeldInv, Types, LoopTypes, BookInv, SelectInv
  <1>2. file[Here] \in Clients
    <2>1. Here \in Fds /\ InPool(Here)
      BY <1>1 DEF Here, InPool
    <2>2. file[Here] # NoClient
      BY <1>1, <2>1, CopiesFacts, LocalsNat DEF Inv, HeldInv, OpenWhileHeld
    <2> QED BY <2>1, <2>2 DEF Inv, HeldInv
  <1>3. NetTypeOK' /\ UNCHANGED <<file, count>>
    BY <1>2, LengthTypes, EchoTypes DEF SelectEcho, Inv, Types
  <1>4. HeldInv'
    BY <1>1, <1>3, SameHeld DEF Inv, poolVars
  <1>5. /\ pc' \in {"wait", "scan"} /\ iter' \in Nat \ {0} /\ nready' \in Nat
        /\ pc' = "scan" => iter' \in 1 .. Len(connPool) /\ nready' > 0
    <2>1. nready - 1 \in Nat /\ iter + 1 \in Nat \ {0} /\ Resume(connPool, iter + 1, rfds, nready - 1)
      BY <1>1 DEF SelectEcho
    <2>2. /\ pc' \in {"wait", "scan"} /\ iter' \in Nat \ {0} /\ nready' \in Nat
          /\ pc' = "scan" => iter' \in iter + 1 .. Len(connPool) /\ nready' > 0
      BY <1>1, <2>1, ResumeFacts
    <2> QED BY <1>1, <2>2
  <1>6. rfds' \subseteq Fds \union {ListenFd}
    BY DEF SelectEcho, KeepRfds, Inv, Types, SelectTypes
  <1>7. Types'
    BY <1>1, <1>3, <1>5, <1>6
    DEF Inv, Types, LoopTypes, SelectTypes, PollTypeOK, EPollTypeOK, BlockingTypeOK, pollVars, epollVars
  <1>8. PcInv' /\ DistinctInv' /\ HoleInv'
    BY <1>1, <1>5 DEF Inv, PcInv, DistinctInv, HoleInv, Injective, poolVars
  <1>9. SelectInv'
    BY <1>1, <1>5 DEF Inv, BookInv, SelectInv, Solid, Local, poolVars
  <1> QED BY <1>4, <1>7, <1>8, <1>9, NotPoll, NotEPoll DEF Inv, BookInv, epollVars

LEMMA SelectEndKeeps ==
  ASSUME Inv, server = "select", SelectEnd, UNCHANGED <<pollVars, epollVars, unsent, server>>
  PROVE  Inv'
  <1>1. /\ pc = "scan" /\ nready > 0 /\ nready \in Nat /\ iter \in Nat \ {0} /\ iter \in DOMAIN connPool
        /\ connPool \in Seq(Fds) /\ UNCHANGED <<kernelVars, count, poolVars, maxfd, rfds>>
        /\ connSocket = NoFd /\ hole' = iter /\ allfds' = allfds \ {connPool[iter]}
        /\ pc' = "erase" /\ iter' = iter /\ nready' = nready /\ Injective(connPool)
    BY DEF SelectEnd, Goto, AllfdsAfterEnd, ClearedFrom, Here, Inv, PcInv, HeldInv, Types, LoopTypes,
           BookInv, SelectInv, DistinctInv
  <1>2. HeldInv'
    BY <1>1, SameHeld DEF Inv, kernelVars, poolVars
  <1>3. Types'
    BY <1>1
    DEF Inv, Types, NetTypeOK, LoopTypes, SelectTypes, PollTypeOK, EPollTypeOK, BlockingTypeOK,
        kernelVars, pollVars, epollVars
  <1>4. PcInv' /\ DistinctInv' /\ HoleInv'
    BY <1>1 DEF Inv, PcInv, DistinctInv, HoleInv, poolVars
  <1>5. SelectInv'
    <2>1. Solid = DOMAIN connPool /\ Solid' = DOMAIN connPool \ {iter} /\ Local = {} /\ Local' = {}
      BY <1>1 DEF Solid, Local, poolVars
    <2>2. ListenFd # connPool[iter]
      BY <1>1, LoopAssumption
    <2>3. allfds = {ListenFd} \union {connPool[i] : i \in DOMAIN connPool}
      BY <2>1 DEF Inv, BookInv, SelectInv
    <2>4. allfds' = {ListenFd} \union {connPool[i] : i \in DOMAIN connPool \ {iter}}
      BY <1>1, <2>2, <2>3 DEF Injective
    <2> QED BY <1>1, <2>1, <2>4 DEF SelectInv, Injective, poolVars
  <1> QED BY <1>2, <1>3, <1>4, <1>5, NotPoll, NotEPoll DEF Inv, BookInv, epollVars

LEMMA SelectEraseKeeps ==
  ASSUME Inv, server = "select", SelectErase, UNCHANGED <<pollVars, epollVars, unsent, server>>
  PROVE  Inv'
  <1>1. /\ pc = "erase" /\ nready > 0 /\ nready \in Nat /\ iter \in Nat \ {0}
        /\ connPool \in Seq(Fds) /\ UNCHANGED <<connSocket, maxfd, allfds>>
        /\ connSocket = NoFd /\ hole \in DOMAIN connPool /\ hole \in Nat
        /\ DOMAIN connPool = 1 .. Len(connPool) /\ Len(connPool) \in Nat
    BY DEF SelectErase, Inv, PcInv, HeldInv, HoleInv, Types, LoopTypes
  <1>2. rfds' \subseteq Fds \union {ListenFd}
    BY DEF SelectErase, KeepRfds, Inv, Types, SelectTypes
  <1>3. /\ Solid = DOMAIN connPool \ {hole} /\ Local = {} /\ Local' = {}
        /\ \A i, j \in DOMAIN connPool \ {hole} : connPool[i] = connPool[j] => i = j
        /\ allfds = {ListenFd} \union {connPool[i] : i \in DOMAIN connPool \ {hole}}
    BY <1>1 DEF Solid, Local, Inv, BookInv, SelectInv
  <1>4. CASE /\ hole < Len(connPool)
             /\ CountsBecome(Assigned(count, connPool[hole], connPool[hole + 1]))
             /\ connPool' = [connPool EXCEPT ![hole] = connPool[hole + 1]]
             /\ hole' = hole + 1
             /\ UNCHANGED <<pc, iter, nready>>
    <2>1. /\ HeldInv' /\ Len(connPool') = Len(connPool) /\ DOMAIN connPool' = DOMAIN connPool
          /\ hole + 1 \in DOMAIN connPool
      BY <1>1, <1>4, AssignHeld DEF Inv
    <2>2. NetTypeOK'
      BY <1>4, <2>1, CloseTypes DEF Inv, Types, HeldInv
    <2>3. Types'
      BY <1>1, <1>2, <1>4, <2>2
      DEF Inv, Types, LoopTypes, SelectTypes, PollTypeOK, EPollTypeOK, BlockingTypeOK, pollVars, epollVars
    <2>4. PcInv' /\ DistinctInv' /\ HoleInv'
      BY <1>1, <1>4, <2>1 DEF Inv, PcInv, DistinctInv, HoleInv
    <2>5. SelectInv'
      <3>1. Solid' = DOMAIN connPool \ {hole + 1}
        BY <1>1, <1>4, <2>1 DEF Solid
      <3>2. /\ connPool'[hole] = connPool[hole + 1]
            /\ \A i \in DOMAIN connPool : i # hole => connPool'[i] = connPool[i]
        BY <1>1, <1>4
      <3>3. \A i, j \in DOMAIN connPool \ {hole + 1} : connPool'[i] = connPool'[j] => i = j
        BY <1>1, <1>3, <2>1, <3>2
      <3>4. {connPool'[i] : i \in DOMAIN connPool \ {hole + 1}}
              = {connPool[i] : i \in DOMAIN connPool \ {hole}}
        BY <1>1, <2>1, <3>2
      <3> QED BY <1>1, <1>3, <1>4, <3>1, <3>3, <3>4 DEF SelectInv
    <2> QED BY <2>1, <2>3, <2>4, <2>5, NotPoll, NotEPoll DEF Inv, BookInv, epollVars
  <1>5. CASE /\ hole = Len(connPool)
             /\ CountsBecome(Destroyed(count, connPool[hole]))
             /\ connPool' = SubSeq(connPool, 1, hole - 1)
             /\ hole' = 0
             /\ Resume(connPool', iter, rfds, nready)
    <2>1. /\ HeldInv' /\ DOMAIN connPool' = DOMAIN connPool \ {hole}
          /\ \A j \in DOMAIN connPool' : connPool'[j] = connPool[j]
      BY <1>1, <1>5, DestroyHeld DEF Inv
    <2>2. connPool' \in Seq(Fds)
      BY <2>1 DEF HeldInv
    <2>3. NetTypeOK'
      BY <1>5, <2>1, CloseTypes DEF Inv, Types, HeldInv
    <2>4. /\ pc' \in {"wait", "scan"} /\ iter' \in Nat \ {0} /\ nready' \in Nat
          /\ pc' = "scan" => iter' \in 1 .. Len(connPool') /\ nready' > 0
      <3>1. /\ pc' \in {"wait", "scan"} /\ iter' \in Nat \ {0} /\ nready' \in Nat
            /\ pc' = "scan" => iter' \in iter .. Len(connPool') /\ nready' > 0
        BY <1>1, <1>5, <2>2, ResumeFacts
      <3> QED BY <1>1, <3>1
    <2>5. Types'
      BY <1>1, <1>2, <2>3, <2>4
      DEF Inv, Types, LoopTypes, SelectTypes, PollTypeOK, EPollTypeOK, BlockingTypeOK, pollVars, epollVars
    <2>6. Injective(connPool')
      BY <1>3, <2>1 DEF Injective
    <2>7. PcInv' /\ DistinctInv' /\ HoleInv'
      BY <1>1, <1>5, <2>4, <2>6 DEF Inv, PcInv, DistinctInv, HoleInv
    <2>8. SelectInv'
      <3>1. Solid' = DOMAIN connPool'
        BY <2>4 DEF Solid
      <3>2. {connPool'[i] : i \in DOMAIN connPool'} = {connPool[i] : i \in DOMAIN connPool \ {hole}}
        BY <2>1
      <3>3. DOMAIN connPool' = 1 .. Len(connPool')
        BY <2>2
      <3>4. allfds' = {ListenFd} \union {connPool'[i] : i \in Solid'} \union Local'
        BY <1>1, <1>3, <3>1, <3>2
      <3>5. \A i, j \in Solid' : connPool'[i] = connPool'[j] => i = j
        BY <2>6, <3>1 DEF Injective
      <3>6. pc' = "scan" => iter' \in DOMAIN connPool'
        BY <2>4, <3>3
      <3> QED BY <3>4, <3>5, <3>6 DEF SelectInv
    <2> QED BY <2>1, <2>5, <2>7, <2>8, NotPoll, NotEPoll DEF Inv, BookInv, epollVars
  <1> QED BY <1>4, <1>5 DEF SelectErase
-----------------------------------------------------------------------------
(* poll *)

\* A step that changes none of the lists of this server.
LEMMA PollSame ==
  ASSUME PollInv, server = "poll", UNCHANGED <<connPool, connSocket, pollfds>>,
         pc' = "scan" => iter' \in 2 .. Len(pollfds)
  PROVE  PollInv'
  <1>1. /\ pollfds # <<>> /\ pollfds[1] = ListenFd /\ Injective(pollfds)
        /\ {pollfds[i] : i \in DOMAIN pollfds} = {ListenFd} \union Pooled \union Local
    BY DEF PollInv
  <1>2. Injective(pollfds') /\ {pollfds'[i] : i \in DOMAIN pollfds'} = {pollfds[i] : i \in DOMAIN pollfds}
    BY <1>1
  <1>3. Pooled' = Pooled /\ Local' = Local
    BY DEF Pooled, Local
  <1> QED BY <1>1, <1>2, <1>3 DEF PollInv

LEMMA PollWaitKeeps ==
  ASSUME Inv, server = "poll", PollWait, UNCHANGED <<selectVars, epollVars, unsent, server>>
  PROVE  Inv'
  <1>1. /\ pollfds \in Seq(Fds \union {ListenFd}) /\ pc = "wait"
        /\ UNCHANGED <<kernelVars, count, poolVars, pollfds, pdRevents>>
        /\ revents' # {}
        /\ revents' = {pollfds[i] : i \in {j \in DOMAIN pollfds : Ready(pollfds[j])}}
    BY DEF PollWait, Inv, Types, PollTypeOK
  <1>2. revents' \subseteq Fds \union {ListenFd}
    BY <1>1
  <1>3. Cardinality(revents') \in Nat /\ Cardinality(revents') > 0
    BY <1>1, <1>2, FdsFinite
  <1>4. HeldInv'
    BY <1>1, SameHeld DEF Inv, kernelVars, poolVars
  <1>5. /\ pc' \in {"wait", "accept", "scan"} /\ iter' \in Nat \ {0} /\ nready' \in Nat
        /\ pc' # "wait" => nready' > 0
        /\ pc' = "scan" => iter' \in 2 .. Len(pollfds)
    <2>1. CASE Goto("accept", 2, Cardinality(revents'))
      BY <1>3, <2>1 DEF Goto
    <2>2. CASE Resume(pollfds, 2, revents', Cardinality(revents'))
      BY <1>1, <1>3, <2>2, ResumeFacts
    <2> QED BY <2>1, <2>2 DEF PollWait
  <1>6. Types'
    BY <1>1, <1>2, <1>5 DEF Inv, Types, NetTypeOK, LoopTypes, SelectTypes, PollTypeOK, EPollTypeOK, BlockingTypeOK,
       kernelVars, selectVars, epollVars
  <1>7. PcInv' /\ DistinctInv' /\ HoleInv'
    BY <1>1, <1>5 DEF Inv, PcInv, DistinctInv, HoleInv, poolVars, selectVars, Injective
  <1>8. PollInv'
    BY <1>1, <1>5, PollSame DEF Inv, BookInv, poolVars
  <1> QED BY <1>4, <1>6, <1>7, <1>8, NotSelect, NotEPoll DEF Inv, BookInv, epollVars

LEMMA PollAcceptKeeps ==
  ASSUME Inv, server = "poll", PollAccept, UNCHANGED <<selectVars, epollVars, unsent, server>>
  PROVE  Inv'
  <1>1. /\ pc = "accept" /\ nready > 0 /\ nready \in Nat /\ iter \in Nat \ {0}
        /\ connSocket = NoFd /\ connPool \in Seq(Fds) /\ hole = 0 /\ hole' = hole
        /\ UNCHANGED <<connPool, pdRevents>> /\ revents \subseteq Fds \union {ListenFd}
        /\ pollfds \in Seq(Fds \union {ListenFd})
    BY DEF PollAccept, Inv, PcInv, HeldInv, HoleInv, Types, LoopTypes, PollTypeOK, selectVars
  <1>2. /\ pollfds # <<>> /\ pollfds[1] = ListenFd /\ Injective(pollfds)
        /\ {pollfds[i] : i \in DOMAIN pollfds} = {ListenFd} \union Pooled \union Local
        /\ Local = {}
    BY <1>1 DEF Inv, BookInv, PollInv, Local
  <1>3. CASE \E fd \in Fds : /\ Accept(fd)
                             /\ pollfds' = Append(pollfds, fd)
                             /\ Goto("store", iter, nready)
                             /\ revents' = IF pdRevents THEN revents \union {fd} ELSE revents
    <2>1. PICK fd \in Fds : /\ Accept(fd)
                            /\ pollfds' = Append(pollfds, fd)
                            /\ Goto("store", iter, nready)
                            /\ revents' = IF pdRevents THEN revents \union {fd} ELSE revents
      BY <1>3
    <2>2. HeldInv' /\ ~InPool(fd) /\ connSocket' = fd /\ fd # NoFd
      BY <1>1, <2>1, AcceptHeld, LoopAssumption DEF Inv, Types
    <2>3. NetTypeOK'
      BY <2>1, AcceptTypes DEF Inv, Types
    <2>4. pc' = "store" /\ iter' = iter /\ nready' = nready
      BY <2>1 DEF Goto
    <2>5. /\ revents' \subseteq Fds \union {ListenFd} /\ pollfds' \in Seq(Fds \union {ListenFd})
      BY <1>1, <2>1
    <2>6. Types'
      BY <1>1, <2>3, <2>4, <2>5
      DEF Inv, Types, LoopTypes, SelectTypes, PollTypeOK, EPollTypeOK, BlockingTypeOK, selectVars, epollVars
    <2>7. PcInv' /\ DistinctInv' /\ HoleInv'
      BY <1>1, <2>2, <2>4 DEF Inv, PcInv, DistinctInv, HoleInv, Injective
    <2>8. PollInv'
      <3>1. fd # ListenFd /\ fd \notin Pooled
        BY <2>2, LoopAssumption DEF InPool, Pooled
      <3>2. \A i \in DOMAIN pollfds : pollfds[i] # fd
        BY <1>2, <3>1
      <3>3. /\ Injective(pollfds')
            /\ {pollfds'[i] : i \in DOMAIN pollfds'} = {pollfds[i] : i \in DOMAIN pollfds} \union {fd}
        <4> DEFINE n == Len(pollfds)
        <4>1. /\ n \in Nat
              /\ DOMAIN pollfds = 1 .. n /\ DOMAIN pollfds' = (1 .. n) \union {n + 1}
              /\ \A i \in 1 .. n : pollfds'[i] = pollfds[i]
              /\ pollfds'[n + 1] = fd
          BY <1>1, <2>1, AppendFacts
        <4> HIDE DEF n
        <4>2. \A i \in 1 .. n : pollfds[i] # fd
          BY <3>2, <4>1
        <4>3. \A i, j \in 1 .. n : pollfds[i] = pollfds[j] => i = j
          BY <1>2, <4>1 DEF Injective
        <4>4. Injective(pollfds')
          BY <4>1, <4>2, <4>3 DEF Injective
        <4>5. {pollfds'[i] : i \in DOMAIN pollfds'} = {pollfds[i] : i \in DOMAIN pollfds} \union {fd}
          BY <4>1
        <4> QED BY <4>4, <4>5
      <3>4. Local' = {fd} /\ Pooled' = Pooled
        BY <1>1, <2>2 DEF Local, Pooled
      <3>5. pollfds' # <<>> /\ pollfds'[1] = ListenFd
        BY <1>1, <1>2, <2>1
      <3> QED BY <1>2, <2>4, <3>3, <3>4, <3>5 DEF PollInv
    <2> QED BY <2>2, <2>6, <2>7, <2>8, NotSelect, NotEPoll DEF Inv, BookInv, epollVars
  <1>4. CASE AcceptFails /\ UNCHANGED <<pollfds, revents>>
    BY <1>1, <1>4, LostKeeps DEF AcceptFails, Goto, poolVars, pollVars
  <1> QED BY <1>3, <1>4 DEF PollAccept

LEMMA PollStoreKeeps ==
  ASSUME Inv, server = "poll", PollStore, UNCHANGED <<selectVars, epollVars, unsent, server>>
  PROVE  Inv'
  <1>1. /\ pc = "store" /\ nready > 0 /\ nready \in Nat
        /\ connSocket \in Fds /\ connSocket # NoFd /\ connPool \in Seq(Fds) /\ ~InPool(connSocket)
        /\ Insert /\ UNCHANGED <<pollfds, pdRevents>> /\ hole = 0 /\ hole' = hole
        /\ Injective(connPool) /\ pollfds \in Seq(Fds \union {ListenFd})
        /\ revents \subseteq Fds \union {ListenFd}
    BY LoopAssumption DEF PollStore, Inv, PcInv, HeldInv, NewInv, HoleInv, DistinctInv, Types, LoopTypes,
       PollTypeOK, selectVars
  <1>2. /\ HeldInv' /\ connSocket' = NoFd /\ file' = file
        /\ connPool' = Append(connPool, connSocket)
    BY <1>1, InsertHeld DEF Inv
  <1>3. connPool' \in Seq(Fds)
    BY <1>2 DEF HeldInv
  <1>4. Injective(connPool') /\ Pooled' = Pooled \union {connSocket}
    BY <1>1, <1>2, PoolGrows
  <1>5. /\ pc' \in {"wait", "scan"} /\ iter' \in Nat \ {0} /\ nready' \in Nat
        /\ pc' = "scan" => iter' \in 2 .. Len(pollfds) /\ nready' > 0
    <2>1. nready - 1 \in Nat /\ Resume(pollfds, 2, revents, nready - 1)
      BY <1>1 DEF PollStore
    <2> QED BY <1>1, <2>1, ResumeFacts
  <1>6. NetTypeOK'
    BY <1>1, <1>2, CloseTypes DEF Insert, PushBack, Inv, Types, HeldInv
  <1>7. Types'
    BY <1>1, <1>5, <1>6
    DEF PollStore, KeepRevents, Inv, Types, LoopTypes, SelectTypes, PollTypeOK, EPollTypeOK, BlockingTypeOK, selectVars, epollVars
  <1>8. PcInv' /\ DistinctInv' /\ HoleInv'
    BY <1>1, <1>2, <1>4, <1>5 DEF Inv, PcInv, DistinctInv, HoleInv
  <1>9. PollInv'
    <2>1. Local = {connSocket} /\ Local' = {}
      BY <1>1, <1>2 DEF Local
    <2> QED BY <1>1, <1>4, <1>5, <2>1 DEF Inv, BookInv, PollInv, Injective
  <1> QED BY <1>2, <1>7, <1>8, <1>9, NotSelect, NotEPoll DEF Inv, BookInv, epollVars

\* Where the loop stops there is a connection of the pool.
LEMMA PollEntry ==
  ASSUME Inv, server = "poll", pc = "scan"
  PROVE  /\ Entry \in Fds /\ Entry \in Pooled /\ file[Entry] \in Clients
         /\ iter \in 2 .. Len(pollfds) /\ connSocket = NoFd
  <1>1. /\ iter \in 2 .. Len(pollfds) /\ pollfds[1] = ListenFd /\ Injective(pollfds)
        /\ {pollfds[i] : i \in DOMAIN pollfds} = {ListenFd} \union Pooled \union Local
        /\ pollfds \in Seq(Fds \union {ListenFd}) /\ connSocket = NoFd /\ Local = {}
    BY DEF Inv, BookInv, PollInv, Types, PollTypeOK, PcInv, Local
  <1>2. iter \in DOMAIN pollfds /\ 1 \in DOMAIN pollfds /\ iter # 1
    BY <1>1
  <1>3. Entry \in Pooled
    BY <1>1, <1>2 DEF Entry, Injective
  <1>4. Entry \in Fds /\ InPool(Entry)
    BY <1>3 DEF Pooled, InPool, Inv, HeldInv
  <1>5. file[Entry] # NoClient
    BY <1>4, CopiesFacts, LocalsNat DEF Inv, HeldInv, OpenWhileHeld
  <1> QED BY <1>1, <1>3, <1>4, <1>5 DEF Inv, HeldInv

LEMMA PollEchoKeeps ==
  ASSUME Inv, server = "poll", PollEcho, UNCHANGED <<selectVars, epollVars, unsent, server>>
  PROVE  Inv'
  <1>1. /\ pc = "scan" /\ nready > 0 /\ nready \in Nat
        /\ UNCHANGED <<poolVars, pollfds, pdRevents>>
        /\ pollfds \in Seq(Fds \union {ListenFd}) /\ revents \subseteq Fds \union {ListenFd}
    BY DEF PollEcho, Inv, PcInv, Types, LoopTypes, PollTypeOK
  <1>2. file[Entry] \in Clients /\ connSocket = NoFd /\ iter \in 2 .. Len(pollfds)
    BY <1>1, PollEntry
  <1>3. NetTypeOK' /\ UNCHANGED <<file, count>>
    <2>1. StringLength(file[Entry]) \in SUBSET Nat
      BY <1>2, LengthTypes, SocketsAssumption DEF Inv, Types
    <2> QED BY <2>1, EchoTypes DEF PollEcho, Inv, Types
  <1>4. HeldInv'
    BY <1>1, <1>3, SameHeld DEF Inv, poolVars
  <1>5. /\ pc' \in {"wait", "scan"} /\ iter' \in Nat \ {0} /\ nready' \in Nat
        /\ pc' = "scan" => iter' \in 2 .. Len(pollfds) /\ nready' > 0
    <2>1. nready - 1 \in Nat /\ iter + 1 \in Nat \ {0} /\ Resume(pollfds, iter + 1, revents, nready - 1)
      BY <1>1, <1>2 DEF PollEcho
    <2>2. /\ pc' \in {"wait", "scan"} /\ iter' \in Nat \ {0} /\ nready' \in Nat
          /\ pc' = "scan" => iter' \in iter + 1 .. Len(pollfds) /\ nready' > 0
      BY <1>1, <2>1, ResumeFacts
    <2> QED BY <1>2, <2>2
  <1>6. Types'
    BY <1>1, <1>3, <1>5
    DEF PollEcho, KeepRevents, Inv, Types, LoopTypes, SelectTypes, PollTypeOK, EPollTypeOK, BlockingTypeOK, selectVars, epollVars
  <1>7. PcInv' /\ DistinctInv' /\ HoleInv'
    BY <1>1, <1>2, <1>5 DEF Inv, PcInv, DistinctInv, HoleInv, Injective, poolVars, selectVars
  <1>8. PollInv'
    BY <1>1, <1>5, PollSame DEF Inv, BookInv, poolVars
  <1> QED BY <1>4, <1>6, <1>7, <1>8, NotSelect, NotEPoll DEF Inv, BookInv, epollVars

LEMMA PollEndKeeps ==
  ASSUME Inv, server = "poll", PollEnd, UNCHANGED <<selectVars, epollVars, unsent, server>>
  PROVE  Inv'
  <1>1. /\ pc = "scan" /\ nready > 0 /\ nready \in Nat /\ hole = 0 /\ hole' = hole
        /\ UNCHANGED <<connSocket, pdRevents>> /\ EraseFromPool(Entry)
        /\ pollfds \in Seq(Fds \union {ListenFd}) /\ revents \subseteq Fds \union {ListenFd}
        /\ pollfds' = RemoveAt(pollfds, iter) /\ Injective(connPool)
    BY DEF PollEnd, PollfdsAfterEnd, Inv, PcInv, HoleInv, DistinctInv, Types, LoopTypes, PollTypeOK, selectVars
  <1>2. Entry \in Fds /\ connSocket = NoFd /\ iter \in 2 .. Len(pollfds)
    BY <1>1, PollEntry
  <1>3. iter \in DOMAIN pollfds /\ Len(pollfds) \in Nat
    BY <1>1, <1>2
  <1>4. HeldInv' /\ Injective(connPool') /\ Pooled' = Pooled \ {Entry}
    BY <1>1, <1>2, EraseHeld DEF Inv
  <1>5. NetTypeOK'
    BY <1>1, <1>4, CloseTypes DEF EraseFromPool, Inv, Types, HeldInv
  <1>6. pollfds' \in Seq(Fds \union {ListenFd})
    BY <1>1, <1>3, RemoveFacts
  <1>7. /\ pc' \in {"wait", "scan"} /\ iter' \in Nat \ {0} /\ nready' \in Nat
        /\ pc' = "scan" => iter' \in 2 .. Len(pollfds') /\ nready' > 0
    <2>1. iter \in Nat \ {0} /\ Resume(pollfds', iter, revents \ {Entry}, nready)
      BY <1>2 DEF PollEnd
    <2>2. /\ pc' \in {"wait", "scan"} /\ iter' \in Nat \ {0} /\ nready' \in Nat
          /\ pc' = "scan" => iter' \in iter .. Len(pollfds') /\ nready' > 0
      BY <1>1, <1>6, <2>1, ResumeFacts
    <2> QED BY <1>2, <2>2
  <1>8. revents' \subseteq Fds \union {ListenFd}
    BY <1>1 DEF PollEnd, KeepRevents
  <1>9. Types'
    BY <1>1, <1>5, <1>6, <1>7, <1>8
    DEF Inv, Types, LoopTypes, SelectTypes, PollTypeOK, EPollTypeOK, BlockingTypeOK, selectVars, epollVars
  <1>10. PcInv' /\ DistinctInv' /\ HoleInv'
    BY <1>1, <1>2, <1>4, <1>7 DEF Inv, PcInv, DistinctInv, HoleInv
  <1>11. PollInv'
    <2>1. Local = {} /\ Local' = {}
      BY <1>1, <1>2 DEF Local
    <2>2. /\ pollfds[1] = ListenFd /\ Injective(pollfds)
          /\ {pollfds[i] : i \in DOMAIN pollfds} = {ListenFd} \union Pooled
      BY <2>1 DEF Inv, BookInv, PollInv
    <2>3. /\ Injective(pollfds')
          /\ {pollfds'[i] : i \in DOMAIN pollfds'} = {pollfds[i] : i \in DOMAIN pollfds} \ {Entry}
      <3>1. /\ Injective(RemoveAt(pollfds, iter))
            /\ {RemoveAt(pollfds, iter)[i] : i \in DOMAIN RemoveAt(pollfds, iter)}
                 = {pollfds[i] : i \in DOMAIN pollfds} \ {pollfds[iter]}
        BY <1>1, <1>3, <2>2, RemoveRange
      <3> QED BY <1>1, <3>1 DEF Entry
    <2>4. Entry # ListenFd
      BY <1>2, LoopAssumption
    <2>5. pollfds' # <<>> /\ pollfds'[1] = ListenFd
      <3>1. /\ DOMAIN pollfds' = 1 .. Len(pollfds) - 1 /\ 1 \in 1 .. Len(pollfds) - 1 /\ 1 < iter
            /\ \A j \in 1 .. Len(pollfds) - 1 :
                  pollfds'[j] = IF j < iter THEN pollfds[j] ELSE pollfds[j + 1]
        <4>1. /\ DOMAIN RemoveAt(pollfds, iter) = 1 .. Len(pollfds) - 1
              /\ \A j \in 1 .. Len(pollfds) - 1 :
                    RemoveAt(pollfds, iter)[j] = IF j < iter THEN pollfds[j] ELSE pollfds[j + 1]
          BY <1>1, <1>3, RemoveFacts
        <4> QED BY <1>1, <1>2, <1>3, <4>1
      <3>2. pollfds'[1] = pollfds[1] /\ 1 \in DOMAIN pollfds'
        BY <3>1
      <3> QED BY <1>6, <2>2, <3>2
    <2> QED BY <1>4, <1>7, <2>1, <2>2, <2>3, <2>4, <2>5 DEF PollInv
  <1> QED BY <1>4, <1>9, <1>10, <1>11, NotSelect, NotEPoll DEF Inv, BookInv, epollVars
-----------------------------------------------------------------------------
(* epoll *)

Events == Fds \union {ListenFd, NoFd}

\* What epoll_wait() leaves in the list.
LEMMA WaitFills ==
  ASSUME eventList \in Seq(Events), eventList # <<>>, interest \subseteq Fds \union {ListenFd},
         EPollWait
  PROVE  /\ Reported \in Nat /\ Reported > 0
         /\ eventList' \in Seq(Events) /\ Reported <= Len(eventList') /\ eventList' # <<>>
         /\ \A i, j \in 1 .. Reported : eventList'[i] = eventList'[j] => i = j
         /\ \A i \in 1 .. Reported : eventList'[i] \in interest /\ eventList'[i] \in ReadyFds
  <1> DEFINE n == Reported
             back == IF n = Len(eventList) THEN Empty(Len(eventList)) ELSE <<>>
  <1>1. ReadyFds \subseteq interest /\ ReadyFds # {} /\ ReadyFds \subseteq Events
    BY DEF ReadyFds, EPollWait, Events
  <1>2. Cardinality(ReadyFds) \in Nat /\ Cardinality(ReadyFds) > 0
    BY <1>1, FdsFinite
  <1>3. /\ Len(eventList) \in Nat /\ Len(eventList) > 0 /\ DOMAIN eventList = 1 .. Len(eventList)
        /\ \A i \in 1 .. Len(eventList) : eventList[i] \in Events
    OBVIOUS
  <1>4. n \in Nat /\ n > 0 /\ n <= Len(eventList)
    BY <1>2, <1>3 DEF Reported, Least
  <1> HIDE DEF n
  <1>5. PICK told \in [1 .. n -> ReadyFds] :
           /\ \A i, j \in 1 .. n : told[i] = told[j] => i = j
           /\ eventList' = [i \in DOMAIN eventList |-> IF i <= n THEN told[i] ELSE eventList[i]] \o back
    BY DEF EPollWait, n
  <1> DEFINE front == [i \in DOMAIN eventList |-> IF i <= n THEN told[i] ELSE eventList[i]]
  <1>6. /\ front \in Seq(Events) /\ Len(front) = Len(eventList)
        /\ \A i \in 1 .. n : front[i] = told[i]
    <2>1. \A i \in 1 .. n : told[i] \in Events
      BY <1>1, <1>5
    <2>2. front \in [1 .. Len(eventList) -> Events]
      <3>1. \A i \in 1 .. Len(eventList) : (IF i <= n THEN told[i] ELSE eventList[i]) \in Events
        BY <1>3, <1>4, <2>1
      <3> QED BY <1>3, <3>1
    <2>3. \A i \in 1 .. n : front[i] = told[i]
      BY <1>3, <1>4
    <2> HIDE DEF front
    <2> QED BY <1>3, <2>2, <2>3
  <1>7. back \in Seq(Events) /\ Len(back) \in Nat
    <2>1. Empty(Len(eventList)) \in [1 .. Len(eventList) -> Events]
      BY DEF Empty, Events
    <2>2. Empty(Len(eventList)) \in Seq(Events) /\ Len(Empty(Len(eventList))) \in Nat
      BY <1>3, <2>1
    <2> QED BY <2>2
  <1> HIDE DEF front, back
  <1>8. /\ eventList' \in Seq(Events) /\ Len(eventList') = Len(eventList) + Len(back)
        /\ \A i \in 1 .. Len(eventList) + Len(back) :
              eventList'[i] = IF i <= Len(eventList) THEN front[i] ELSE back[i - Len(eventList)]
    <2>1. \A f, b \in Seq(Events) :
             /\ f \o b \in Seq(Events) /\ Len(f \o b) = Len(f) + Len(b)
             /\ \A i \in 1 .. Len(f) + Len(b) :
                   (f \o b)[i] = IF i <= Len(f) THEN f[i] ELSE b[i - Len(f)]
      BY ConcatProperties
    <2>2. eventList' = front \o back
      BY <1>5 DEF front
    <2>3. front \in Seq(Events) /\ back \in Seq(Events) /\ Len(front) = Len(eventList)
      BY <1>6, <1>7
    <2>4. /\ front \o back \in Seq(Events) /\ Len(front \o back) = Len(front) + Len(back)
          /\ \A i \in 1 .. Len(front) + Len(back) :
                (front \o back)[i] = IF i <= Len(front) THEN front[i] ELSE back[i - Len(front)]
      BY <2>1, <2>3
    <2> QED BY <2>2, <2>3, <2>4
  <1>9. \A i \in 1 .. n : eventList'[i] = told[i] /\ told[i] \in interest /\ told[i] \in ReadyFds
    BY <1>1, <1>3, <1>4, <1>5, <1>6, <1>7, <1>8
  <1>10. n <= Len(eventList') /\ eventList' # <<>>
    BY <1>3, <1>4, <1>7, <1>8
  <1> QED BY <1>4, <1>5, <1>8, <1>9, <1>10 DEF n

\* A step to another event, or to the end of the list, that leaves the lists alone.
LEMMA EPollSame ==
  ASSUME EPollInv, server = "epoll", pc \in {"scan", "store"},
         iter \in Nat \ {0}, nready \in Nat, UNCHANGED <<connPool, epollVars>>,
         pc' = "scan" \/ pc' = "store" => iter' \in Nat /\ iter' >= iter /\ nready' = nready
  PROVE  EPollInv'
  <1>1. /\ nready <= Len(eventList) /\ interest = {ListenFd} \union Pooled /\ eventList # <<>>
        /\ \A i, j \in iter .. nready : eventList[i] = eventList[j] => i = j
        /\ \A i \in iter .. nready : eventList[i] \in interest
    BY DEF EPollInv, FreshInv
  <1>2. Pooled' = Pooled /\ eventList' = eventList /\ interest' = interest
    BY DEF Pooled, epollVars
  <1>3. FreshInv'
    BY <1>1, <1>2 DEF FreshInv
  <1> QED BY <1>1, <1>2, <1>3 DEF EPollInv

LEMMA EPollWaitKeeps ==
  ASSUME Inv, server = "epoll", EPollWait, UNCHANGED <<selectVars, pollVars, unsent, server>>
  PROVE  Inv'
  <1>1. /\ pc = "wait" /\ UNCHANGED <<kernelVars, count, poolVars, interest>>
        /\ pc' = "scan" /\ iter' = 1 /\ nready' = Reported
    BY DEF EPollWait, Goto
  <1>2. /\ Reported \in Nat /\ Reported > 0
        /\ eventList' \in Seq(Events) /\ Reported <= Len(eventList') /\ eventList' # <<>>
        /\ \A i, j \in 1 .. Reported : eventList'[i] = eventList'[j] => i = j
        /\ \A i \in 1 .. Reported : eventList'[i] \in interest
    BY WaitFills DEF Inv, Types, EPollTypeOK, BookInv, EPollInv, Events
  <1>3. HeldInv'
    BY <1>1, SameHeld DEF Inv, kernelVars, poolVars
  <1>4. Types'
    BY <1>1, <1>2 DEF Inv, Types, NetTypeOK, LoopTypes, SelectTypes, PollTypeOK, EPollTypeOK, BlockingTypeOK,
       kernelVars, selectVars, pollVars, Events
  <1>5. PcInv' /\ DistinctInv' /\ HoleInv'
    BY <1>1, <1>2 DEF Inv, PcInv, DistinctInv, HoleInv, poolVars, selectVars, Injective
  <1>6. EPollInv'
    <2>1. FreshInv'
      BY <1>1, <1>2 DEF FreshInv
    <2> QED BY <1>1, <1>2, <2>1 DEF Inv, BookInv, EPollInv, Pooled, poolVars
  <1> QED BY <1>3, <1>4, <1>5, <1>6, NotSelect, NotPoll DEF Inv, BookInv

\* What NextEvent does.
LEMMA NextEventFacts ==
  ASSUME Inv, NextEvent
  PROVE  /\ pc' \in {"wait", "scan"} /\ iter' \in Nat \ {0} /\ nready' \in Nat
         /\ pc' = "scan" => iter' >= iter + 1 /\ nready' = nready /\ nready' > 0
  <1>1. /\ eventList \in Seq(Events) /\ iter + 1 \in Nat \ {0} /\ nready \in Nat /\ iter \in Nat
        /\ Resume(eventList, iter + 1, Fds \union {ListenFd}, nready)
    BY DEF Inv, Types, LoopTypes, EPollTypeOK, NextEvent, Events
  <1>2. /\ pc' \in {"wait", "scan"} /\ iter' \in Nat \ {0} /\ nready' \in Nat
        /\ pc' = "scan" => iter' \in iter + 1 .. Len(eventList) /\ nready' = nready /\ nready' > 0
    BY <1>1, ResumeFacts
  <1> QED BY <1>1, <1>2

LEMMA EPollAcceptKeeps ==
  ASSUME Inv, server = "epoll", EPollAccept, UNCHANGED <<selectVars, pollVars, unsent, server>>
  PROVE  Inv'
  <1>1. /\ pc = "scan" /\ nready > 0 /\ nready \in Nat /\ iter \in Nat \ {0}
        /\ connSocket = NoFd /\ hole = 0 /\ hole' = hole
        /\ UNCHANGED <<connPool, epollVars>>
    BY DEF EPollAccept, Inv, PcInv, HoleInv, Types, LoopTypes, selectVars
  <1>2. ASSUME NEW fd \in Fds, Accept(fd), Goto("store", iter, nready)
        PROVE  Inv'
    <2>1. HeldInv' /\ connSocket' = fd /\ fd # NoFd
      BY <1>1, <1>2, AcceptHeld, LoopAssumption DEF Inv, Types
    <2>2. NetTypeOK'
      BY <1>2, AcceptTypes DEF Inv, Types
    <2>3. pc' = "store" /\ iter' = iter /\ nready' = nready
      BY <1>2 DEF Goto
    <2>4. Types'
      BY <1>1, <2>2, <2>3
      DEF Inv, Types, LoopTypes, SelectTypes, PollTypeOK, EPollTypeOK, BlockingTypeOK, selectVars, pollVars, epollVars
    <2>5. PcInv' /\ DistinctInv' /\ HoleInv'
      BY <1>1, <2>1, <2>3 DEF Inv, PcInv, DistinctInv, HoleInv, Injective
    <2>6. EPollInv'
      BY <1>1, <2>3, EPollSame DEF Inv, BookInv
    <2> QED BY <2>1, <2>4, <2>5, <2>6, NotSelect, NotPoll DEF Inv, BookInv
  <1>3. ASSUME AcceptFails
        PROVE  Inv'
    BY <1>1, <1>3, LostKeeps DEF AcceptFails, Goto, poolVars
  <1> QED BY <1>2, <1>3 DEF EPollAccept

LEMMA EPollStoreKeeps ==
  ASSUME Inv, server = "epoll", EPollStore, UNCHANGED <<selectVars, pollVars, unsent, server>>
  PROVE  Inv'
  <1>1. /\ pc = "store" /\ nready > 0 /\ nready \in Nat /\ iter \in Nat \ {0}
        /\ connSocket \in Fds /\ connSocket # NoFd /\ connPool \in Seq(Fds) /\ ~InPool(connSocket)
        /\ Insert /\ NextEvent /\ hole = 0 /\ hole' = hole /\ Injective(connPool)
        /\ eventList' = eventList /\ interest' = interest \union {connSocket}
    BY LoopAssumption DEF EPollStore, Inv, PcInv, HeldInv, NewInv, HoleInv, DistinctInv, Types, LoopTypes,
       selectVars
  <1>2. /\ HeldInv' /\ connSocket' = NoFd /\ file' = file
        /\ connPool' = Append(connPool, connSocket)
    BY <1>1, InsertHeld DEF Inv
  <1>3. Injective(connPool') /\ Pooled' = Pooled \union {connSocket}
    BY <1>1, <1>2, PoolGrows
  <1>4. /\ pc' \in {"wait", "scan"} /\ iter' \in Nat \ {0} /\ nready' \in Nat
        /\ pc' = "scan" => iter' >= iter + 1 /\ nready' = nready /\ nready' > 0
    BY <1>1, NextEventFacts
  <1>5. NetTypeOK'
    BY <1>1, <1>2, CloseTypes DEF Insert, PushBack, Inv, Types, HeldInv
  <1>6. Types'
    BY <1>1, <1>4, <1>5
    DEF Inv, Types, LoopTypes, SelectTypes, PollTypeOK, EPollTypeOK, BlockingTypeOK, selectVars, pollVars
  <1>7. PcInv' /\ DistinctInv' /\ HoleInv'
    BY <1>1, <1>2, <1>3, <1>4 DEF Inv, PcInv, DistinctInv, HoleInv
  <1>8. EPollInv'
    <2>1. FreshInv'
      BY <1>1, <1>4 DEF Inv, BookInv, EPollInv, FreshInv
    <2> QED BY <1>1, <1>3, <2>1 DEF Inv, BookInv, EPollInv
  <1> QED BY <1>2, <1>6, <1>7, <1>8, NotSelect, NotPoll DEF Inv, BookInv

\* An event reported in this round finds its connection.
LEMMA FreshFinds ==
  ASSUME Inv, server = "epoll", OfConnection, iter <= nready
  PROVE  InPool(Event)
  <1>1. iter \in iter .. nready
    BY DEF Inv, Types, LoopTypes
  <1>2. eventList[iter] \in {ListenFd} \union Pooled
    BY <1>1 DEF Inv, BookInv, EPollInv, FreshInv, OfConnection
  <1> QED BY <1>2 DEF OfConnection, Event, InPool, Pooled

LEMMA EPollLostKeeps ==
  ASSUME Inv, server = "epoll", EPollLost, UNCHANGED <<selectVars, pollVars, unsent, server>>
  PROVE  Inv' /\ iter > nready
  <1>1. iter > nready
    <2>1. iter \in Nat /\ nready \in Nat
      BY DEF Inv, Types, LoopTypes
    <2> QED BY <2>1, FreshFinds DEF EPollLost
  <1>2. Inv'
    BY LostKeeps DEF EPollLost, OfConnection, Goto
  <1> QED BY <1>1, <1>2

LEMMA EPollEvent ==
  ASSUME Inv, server = "epoll", OfConnection, InPool(Event)
  PROVE  Event \in Fds /\ file[Event] \in Clients /\ connSocket = NoFd
  <1>1. Event \in Fds
    BY DEF InPool, Inv, HeldInv
  <1>2. file[Event] # NoClient
    BY <1>1, CopiesFacts, LocalsNat DEF Inv, HeldInv, OpenWhileHeld
  <1> QED BY <1>1, <1>2 DEF Inv, HeldInv, PcInv, OfConnection

LEMMA EPollEchoKeeps ==
  ASSUME Inv, server = "epoll", EPollEcho, UNCHANGED <<selectVars, pollVars, unsent, server>>
  PROVE  Inv'
  <1>1. /\ pc = "scan" /\ nready > 0 /\ nready \in Nat /\ iter \in Nat \ {0} /\ hole = 0 /\ hole' = hole
        /\ UNCHANGED <<poolVars, epollVars>> /\ NextEvent
    BY DEF EPollEcho, OfConnection, Inv, PcInv, HoleInv, Types, LoopTypes, selectVars
  <1>2. file[Event] \in Clients /\ connSocket = NoFd
    BY EPollEvent DEF EPollEcho
  <1>3. NetTypeOK' /\ UNCHANGED <<file, count>>
    BY <1>2, LengthTypes, EchoTypes DEF EPollEcho, Inv, Types
  <1>4. HeldInv'
    BY <1>1, <1>3, SameHeld DEF Inv, poolVars
  <1>5. /\ pc' \in {"wait", "scan"} /\ iter' \in Nat \ {0} /\ nready' \in Nat
        /\ pc' = "scan" => iter' >= iter + 1 /\ nready' = nready /\ nready' > 0
    BY <1>1, NextEventFacts
  <1>6. Types'
    BY <1>1, <1>3, <1>5
    DEF Inv, Types, LoopTypes, SelectTypes, PollTypeOK, EPollTypeOK, BlockingTypeOK, selectVars, pollVars, epollVars
  <1>7. PcInv' /\ DistinctInv' /\ HoleInv'
    BY <1>1, <1>2, <1>5 DEF Inv, PcInv, DistinctInv, HoleInv, Injective, poolVars
  <1>8. EPollInv'
    BY <1>1, <1>5, EPollSame DEF Inv, BookInv, poolVars
  <1> QED BY <1>4, <1>6, <1>7, <1>8, NotSelect, NotPoll DEF Inv, BookInv

LEMMA EPollEndKeeps ==
  ASSUME Inv, server = "epoll", EPollEnd, UNCHANGED <<selectVars, pollVars, unsent, server>>
  PROVE  Inv'
  <1>1. /\ pc = "scan" /\ nready > 0 /\ nready \in Nat /\ iter \in Nat \ {0} /\ hole = 0 /\ hole' = hole
        /\ UNCHANGED <<connSocket, eventList>> /\ EraseFromPool(Event) /\ NextEvent
        /\ interest' = StillOpen /\ Injective(connPool)
    BY DEF EPollEnd, OfConnection, Inv, PcInv, HoleInv, DistinctInv, Types, LoopTypes, selectVars
  <1>2. Event \in Fds /\ connSocket = NoFd
    BY EPollEvent DEF EPollEnd
  <1>3. /\ HeldInv' /\ Injective(connPool') /\ Pooled' = Pooled \ {Event}
        /\ file'[Event] = NoClient /\ \A g \in Pooled' : file'[g] # NoClient
    BY <1>1, <1>2, EraseHeld DEF Inv
  <1>4. NetTypeOK'
    BY <1>1, <1>3, CloseTypes DEF EraseFromPool, Inv, Types, HeldInv
  <1>5. /\ pc' \in {"wait", "scan"} /\ iter' \in Nat \ {0} /\ nready' \in Nat
        /\ pc' = "scan" => iter' >= iter + 1 /\ nready' = nready /\ nready' > 0
    BY <1>1, NextEventFacts
  <1>6. interest = {ListenFd} \union Pooled /\ interest' = {ListenFd} \union Pooled'
        /\ interest' = interest \ {Event}
    <2>1. interest = {ListenFd} \union Pooled
      BY DEF Inv, BookInv, EPollInv
    <2>2. ListenFd \notin Fds
      BY LoopAssumption
    <2> QED BY <1>1, <1>2, <1>3, <2>1, <2>2 DEF StillOpen
  <1>7. Types'
    BY <1>1, <1>4, <1>5, <1>6
    DEF Inv, Types, LoopTypes, SelectTypes, PollTypeOK, EPollTypeOK, BlockingTypeOK, selectVars, pollVars
  <1>8. PcInv' /\ DistinctInv' /\ HoleInv'
    BY <1>1, <1>2, <1>3, <1>5 DEF Inv, PcInv, DistinctInv, HoleInv
  <1>9. EPollInv'
    <2>1. /\ nready <= Len(eventList) /\ eventList # <<>>
          /\ \A i, j \in iter .. nready : eventList[i] = eventList[j] => i = j
          /\ \A i \in iter .. nready : eventList[i] \in interest
      BY <1>1 DEF Inv, BookInv, EPollInv, FreshInv
    <2>2. \A i \in iter + 1 .. nready : eventList[i] # Event
      BY <1>1, <2>1 DEF Event
    <2>3. FreshInv'
      BY <1>1, <1>5, <1>6, <2>1, <2>2 DEF FreshInv
    <2> QED BY <1>1, <1>6, <2>1, <2>3 DEF EPollInv
  <1> QED BY <1>3, <1>7, <1>8, <1>9, NotSelect, NotPoll DEF Inv, BookInv
-----------------------------------------------------------------------------
(* The blocking server *)

\* While a connection is served, its descriptor is open.
LEMMA BlockingPeer ==
  ASSUME Inv, connSocket # NoFd
  PROVE  connSocket \in Fds /\ Peer \in Clients
  <1>1. connSocket \in Fds /\ Locals(connSocket) = 1
    BY DEF Inv, HeldInv, Locals
  <1>2. Cardinality(Copies(connSocket)) \in Nat
    BY <1>1, CopiesFacts DEF Inv, HeldInv
  <1>3. file[connSocket] # NoClient
    BY <1>1, <1>2 DEF Inv, HeldInv, OpenWhileHeld
  <1> QED BY <1>1, <1>3 DEF Peer, Inv, HeldInv

\* A step of this server leaves the lists of the others alone.
LEMMA BlockingBooks ==
  ASSUME Inv, server = "blocking", UNCHANGED <<selectVars, pollVars, epollVars, server, connPool>>,
         pc' \in {"wait", "read", "write"}
  PROVE  DistinctInv' /\ HoleInv' /\ BookInv'
  <1>1. SelectInv' /\ PollInv' /\ EPollInv'
    BY NotSelect, NotPoll, NotEPoll DEF Inv, BookInv, epollVars
  <1> QED BY <1>1 DEF Inv, PcInv, DistinctInv, HoleInv, BookInv, Injective, selectVars

LEMMA BlockingAcceptKeeps ==
  ASSUME Inv, server = "blocking", BlockingAccept,
         UNCHANGED <<selectVars, pollVars, epollVars, server>>
  PROVE  Inv'
  <1>1. pc = "wait" /\ connSocket = NoFd /\ connPool = <<>> /\ UNCHANGED <<connPool, unsent>>
    BY DEF BlockingAccept, Inv, PcInv
  <1>2. ASSUME NEW fd \in Fds, Accept(fd), Goto("read", 1, 0)
        PROVE  Inv'
    <2>1. HeldInv' /\ connSocket' = fd /\ fd # NoFd
      BY <1>1, <1>2, AcceptHeld, LoopAssumption DEF Inv, Types
    <2>2. NetTypeOK'
      BY <1>2, AcceptTypes DEF Inv, Types
    <2>3. pc' = "read" /\ iter' = 1 /\ nready' = 0
      BY <1>2 DEF Goto
    <2>4. Types'
      BY <1>1, <2>2, <2>3
      DEF Inv, Types, LoopTypes, SelectTypes, PollTypeOK, EPollTypeOK, BlockingTypeOK, selectVars, pollVars, epollVars
    <2>5. PcInv'
      BY <1>1, <2>1, <2>3 DEF PcInv
    <2> QED BY <1>1, <2>1, <2>3, <2>4, <2>5, BlockingBooks DEF Inv
  <1>3. ASSUME AcceptFails
        PROVE  Inv'
    BY <1>1, <1>3, LostKeeps DEF AcceptFails, Goto, poolVars
  <1> QED BY <1>2, <1>3 DEF BlockingAccept

LEMMA BlockingReadKeeps ==
  ASSUME Inv, server = "blocking", BlockingRead,
         UNCHANGED <<selectVars, pollVars, epollVars, server>>
  PROVE  Inv'
  <1>1. /\ pc = "read" /\ connSocket # NoFd /\ connPool = <<>>
        /\ pc' = "write" /\ iter' = 1 /\ nready' = 0
        /\ UNCHANGED <<peer, outbox, backlog, file, limit, killed, count, poolVars>>
    BY DEF BlockingRead, Goto, Inv, PcInv
  <1>2. HeldInv'
    BY <1>1, SameHeld DEF Inv, poolVars
  <1>3. inbox' \in [Clients -> 0 .. InCap]
    BY InboxType DEF BlockingRead, Inv, Types
  <1>4. unsent' \in 0 .. BUFFER_SZ + 1
    BY <1>1, BlockingPeer, LengthTypes DEF BlockingRead, Inv, Types
  <1>5. Types'
    BY <1>1, <1>3, <1>4
    DEF Inv, Types, NetTypeOK, LoopTypes, SelectTypes, PollTypeOK, EPollTypeOK, BlockingTypeOK,
        selectVars, pollVars, epollVars
  <1>6. PcInv'
    BY <1>1 DEF PcInv, poolVars
  <1> QED BY <1>1, <1>2, <1>5, <1>6, BlockingBooks DEF Inv, poolVars

LEMMA BlockingEndKeeps ==
  ASSUME Inv, server = "blocking", BlockingEnd,
         UNCHANGED <<selectVars, pollVars, epollVars, server>>
  PROVE  Inv'
  <1>1. /\ pc = "read" /\ connSocket # NoFd /\ connPool = <<>>
        /\ pc' = "wait" /\ iter' = 1 /\ nready' = 0
        /\ CountsBecome(Destroyed(count, connSocket)) /\ connSocket' = NoFd
        /\ UNCHANGED <<connPool, unsent>>
    BY DEF BlockingEnd, Goto, Inv, PcInv
  <1>2. HeldInv'
    BY <1>1, DropHeld DEF Inv
  <1>3. NetTypeOK'
    BY <1>1, <1>2, CloseTypes DEF Inv, Types, HeldInv
  <1>4. Types'
    BY <1>1, <1>3
    DEF Inv, Types, LoopTypes, SelectTypes, PollTypeOK, EPollTypeOK, BlockingTypeOK, selectVars, pollVars, epollVars
  <1>5. PcInv'
    BY <1>1 DEF PcInv
  <1> QED BY <1>1, <1>2, <1>4, <1>5, BlockingBooks DEF Inv

LEMMA BlockingWriteKeeps ==
  ASSUME Inv, server = "blocking", BlockingWrite,
         UNCHANGED <<selectVars, pollVars, epollVars, server>>
  PROVE  Inv'
  <1>1. /\ pc = "write" /\ connSocket # NoFd /\ connPool = <<>>
        /\ UNCHANGED <<inbox, backlog, file, limit, count, poolVars>>
        /\ unsent \in 0 .. BUFFER_SZ + 1
    BY DEF BlockingWrite, Inv, PcInv, Types, BlockingTypeOK
  <1>2. /\ pc' \in {"read", "write"} /\ iter' = 1 /\ nready' = 0
        /\ unsent' \in 0 .. BUFFER_SZ + 1
        /\ peer' \in [Clients -> {"off", "up", "shut", "fin", "finrst", "rst", "rstseen"}]
        /\ killed' \in BOOLEAN /\ outbox' \in [Clients -> 0 .. OutCap]
    <2>1. CASE /\ Gone(Peer) /\ write(Peer, unsent) /\ unsent' = 0 /\ Goto("read", 1, 0)
               /\ UNCHANGED outbox
      BY <2>1, WriteTypes, SocketsAssumption DEF Goto, Inv, Types, NetTypeOK
    <2>2. CASE LET k == Least(unsent, Room(Peer))
               IN  /\ ~Gone(Peer) /\ (k > 0 \/ unsent = 0)
                   /\ outbox' = Delivered(Peer, k)
                   /\ unsent' = unsent - k
                   /\ Goto(IF k = unsent THEN "read" ELSE "write", 1, 0)
                   /\ UNCHANGED <<peer, killed>>
      <3> DEFINE k == Least(unsent, Room(Peer))
      <3>1. unsent \in Nat /\ outbox' \in [Clients -> 0 .. OutCap]
        BY <1>1, <2>2, DeliveredType, SocketsAssumption DEF Inv, Types
      <3>2. Room(Peer) \in Nat
        BY <1>1, BlockingPeer, SocketsAssumption DEF Room, Inv, Types, NetTypeOK
      <3>3. k \in 0 .. unsent
        BY <3>1, <3>2 DEF Least
      <3>4. /\ unsent' = unsent - k /\ UNCHANGED <<peer, killed>>
            /\ Goto(IF k = unsent THEN "read" ELSE "write", 1, 0)
        BY <2>2
      <3> HIDE DEF k
      <3>5. unsent' \in 0 .. BUFFER_SZ + 1
        BY <1>1, <3>1, <3>3, <3>4, SocketsAssumption
      <3> QED BY <3>1, <3>4, <3>5 DEF Goto, Inv, Types, NetTypeOK
    <2> QED BY <2>1, <2>2 DEF BlockingWrite
  <1>3. HeldInv'
    BY <1>1, SameHeld DEF Inv, poolVars
  <1>4. Types'
    BY <1>1, <1>2
    DEF Inv, Types, NetTypeOK, LoopTypes, SelectTypes, PollTypeOK, EPollTypeOK, BlockingTypeOK,
        selectVars, pollVars, epollVars
  <1>5. PcInv'
    BY <1>1, <1>2 DEF Inv, PcInv, poolVars
  <1> QED BY <1>1, <1>2, <1>3, <1>4, <1>5, BlockingBooks DEF Inv, poolVars
-----------------------------------------------------------------------------
(* All steps *)

LEMMA InitKeeps == Init => Inv
  <1> SUFFICES ASSUME Init PROVE Inv
    OBVIOUS
  <1>1. /\ pc = "wait" /\ connSocket = NoFd /\ connPool = <<>> /\ iter = 1 /\ nready = 0 /\ hole = 0
        /\ pollfds = <<ListenFd>> /\ interest = {ListenFd} /\ allfds = {ListenFd}
        /\ eventList = Empty(EventListSize)
        /\ count = [fd \in Fds |-> 0] /\ file = [fd \in Fds |-> NoClient]
    BY DEF Init, NetInit, LoopInit, SelectInit, PollInit, EPollInit
  <1>2. EventListSize \in Nat \ {0} /\ ListenFd \in Nat
    BY EPollAssumption, LoopAssumption
  <1>3. /\ eventList \in [1 .. EventListSize -> Fds \union {ListenFd, NoFd}]
        /\ eventList \in Seq(Fds \union {ListenFd, NoFd}) /\ Len(eventList) = EventListSize
    <2>1. eventList \in [1 .. EventListSize -> Fds \union {ListenFd, NoFd}]
      BY <1>1 DEF Empty
    <2> QED BY <1>2, <2>1
  <1>4. NetTypeOK
    <2>1. 0 \in 0 .. InCap /\ 0 \in 0 .. OutCap /\ <<>> \in Seq(Clients)
      BY SocketsAssumption
    <2> QED BY <2>1 DEF Init, NetInit, NetTypeOK
  <1>5. Types
    BY <1>1, <1>2, <1>3, <1>4, SocketsAssumption
    DEF Init, SelectInit, PollInit, BlockingInit, Types, LoopTypes, SelectTypes, PollTypeOK, EPollTypeOK, BlockingTypeOK
  <1>6. HeldInv
    <2>1. \A fd \in Fds : Copies(fd) = {} /\ Locals(fd) = 0
      BY <1>1, LoopAssumption DEF Copies, Locals
    <2>2. OpenWhileHeld
      <3>1. Cardinality({}) = 0
        BY FS_EmptySet
      <3>2. \A fd \in Fds : count[fd] = 0 /\ file[fd] = NoClient
        BY <1>1
      <3> QED BY <2>1, <3>1, <3>2 DEF OpenWhileHeld
    <2> QED BY <1>1, <2>2 DEF HeldInv, CountTypeOK, NewInv
  <1>7. PcInv /\ DistinctInv /\ HoleInv
    BY <1>1 DEF PcInv, DistinctInv, HoleInv, Injective
  <1>8. Pooled = {} /\ Local = {}
    BY <1>1 DEF Pooled, Local
  <1>9. BookInv
    <2>1. SelectInv
      BY <1>1, <1>8 DEF SelectInv, Solid
    <2>2. PollInv
      BY <1>1, <1>8 DEF PollInv, Injective
    <2>3. EPollInv
      BY <1>1, <1>2, <1>3, <1>8 DEF EPollInv, FreshInv
    <2> QED BY <2>1, <2>2, <2>3 DEF BookInv
  <1> QED BY <1>5, <1>6, <1>7, <1>9 DEF Inv

\* Nothing of the server changes.
ServerVars == <<count, loopVars, selectVars, pollVars, epollVars, unsent, server>>

LEMMA NetworkKeeps ==
  ASSUME Inv, NetTypeOK', file' = file, UNCHANGED ServerVars
  PROVE  Inv'
  <1>1. HeldInv'
    BY SameHeld DEF Inv, ServerVars, loopVars
  <1>2. Types'
    BY DEF Inv, Types, LoopTypes, SelectTypes, PollTypeOK, EPollTypeOK, BlockingTypeOK, ServerVars,
           loopVars, selectVars, pollVars, epollVars
  <1>3. PcInv' /\ DistinctInv' /\ HoleInv'
    BY DEF Inv, PcInv, DistinctInv, HoleInv, Injective, ServerVars, loopVars, selectVars
  <1>4. Pooled' = Pooled /\ Local' = Local
    BY DEF Pooled, Local, ServerVars, loopVars
  <1>5. SelectInv'
    BY <1>4 DEF Inv, BookInv, SelectInv, Solid, ServerVars, loopVars, selectVars
  <1>6. PollInv'
    <2>1. CASE server = "poll"
      <3>1. PollInv /\ (pc = "scan" => iter \in 2 .. Len(pollfds))
        BY <2>1 DEF Inv, BookInv, PollInv
      <3> QED BY <2>1, <3>1, PollSame DEF ServerVars, loopVars, pollVars
    <2>2. CASE server # "poll"
      BY <2>2, NotPoll DEF ServerVars
    <2> QED BY <2>1, <2>2
  <1>7. EPollInv'
    BY <1>4 DEF Inv, BookInv, EPollInv, FreshInv, ServerVars, loopVars, epollVars
  <1> QED BY <1>1, <1>2, <1>3, <1>5, <1>6, <1>7 DEF Inv, BookInv

LEMMA ServerKeeps ==
  ASSUME Inv, ServerStep
  PROVE  Inv'
  <1>1. CASE Select
    BY <1>1, SelectWaitKeeps, SelectAcceptKeeps, SelectStoreKeeps, SelectEchoKeeps, SelectEndKeeps,
       SelectEraseKeeps DEF Select, SelectStep
  <1>2. CASE Poll
    BY <1>2, PollWaitKeeps, PollAcceptKeeps, PollStoreKeeps, PollEchoKeeps, PollEndKeeps DEF Poll, PollStep
  <1>3. CASE EPoll
    BY <1>3, EPollWaitKeeps, EPollAcceptKeeps, EPollStoreKeeps, EPollLostKeeps, EPollEchoKeeps,
       EPollEndKeeps DEF EPoll, EPollStep
  <1>4. CASE Blocking
    BY <1>4, BlockingAcceptKeeps, BlockingReadKeeps, BlockingEndKeeps, BlockingWriteKeeps
    DEF Blocking, BlockingStep
  <1> QED BY <1>1, <1>2, <1>3, <1>4 DEF ServerStep

LEMMA StepKeeps ==
  ASSUME Inv, [Next]_vars
  PROVE  Inv'
  <1>1. CASE ServerStep
    BY <1>1, ServerKeeps
  <1>2. CASE Network /\ UNCHANGED ServerVars
    <2>1. PICK c \in Clients : ClientStep(c)
      BY <1>2 DEF Network
    <2>2. NetTypeOK' /\ file' = file
      BY <2>1, ClientTypes DEF Inv, Types
    <2> QED BY <1>2, <2>2, NetworkKeeps
  <1>3. CASE UNCHANGED vars
    <2>1. NetTypeOK' /\ file' = file /\ UNCHANGED ServerVars
      BY <1>3 DEF vars, kernelVars, ServerVars, Inv, Types, NetTypeOK
    <2> QED BY <2>1, NetworkKeeps
  <1> QED BY <1>1, <1>2, <1>3 DEF Next, ServerVars
-----------------------------------------------------------------------------
(* What was just reported is still so *)

\* Where accept comes next, or later in the round, on an event just reported, a
\* connection is in the queue.
HeardInv ==
    /\ pc = "accept" => backlog # <<>>
    /\ server = "epoll" /\ pc \in {"scan", "store"} =>
         \A i \in iter .. nready : eventList[i] = ListenFd /\ (pc = "store" => i # iter) => backlog # <<>>

\* What FreshEventsFind says of a step after which anything may follow.
Excused == \/ Accepting /\ (backlog # <<>> \/ server = "blocking")
           \/ server = "epoll" /\ iter > nready

\* Only accept takes a connection out of the queue.
LEMMA QueueStays ==
  ASSUME NEW k, CountsBecome(k)
  PROVE  backlog' = backlog
  BY DEF CountsBecome

LEMMA SelectHears ==
  ASSUME Inv, HeardInv, server = "select", UNCHANGED server, SelectStep
  PROVE  HeardInv' /\ (pc' = "undefined" => Excused)
  <1>1. CASE SelectWait
    <2>1. pc' \in {"wait", "scan", "accept"} /\ UNCHANGED backlog
      BY <1>1 DEF SelectWait, Resume, Goto, kernelVars
    <2>2. pc' = "accept" => Ready(ListenFd)
      BY <1>1 DEF SelectWait, Resume, Goto
    <2> QED BY <2>1, <2>2 DEF HeardInv, Ready
  <1>2. CASE SelectAccept
    <2>1. pc = "accept" /\ pc' \in {"store", "undefined"}
      BY <1>2 DEF SelectAccept, AcceptFails, Goto
    <2> QED BY <2>1 DEF HeardInv, Excused, Accepting
  <1>3. CASE SelectStore \/ SelectEcho \/ SelectEnd \/ SelectErase
    <2>1. pc' \in {"wait", "scan", "erase"}
      BY <1>3 DEF SelectStore, SelectEcho, SelectEnd, SelectErase, Resume, Goto
    <2> QED BY <2>1 DEF HeardInv
  <1> QED BY <1>1, <1>2, <1>3 DEF SelectStep

LEMMA PollHears ==
  ASSUME Inv, HeardInv, server = "poll", UNCHANGED server, PollStep
  PROVE  HeardInv' /\ (pc' = "undefined" => Excused)
  <1>1. CASE PollWait
    <2>1. pc' \in {"wait", "scan", "accept"} /\ UNCHANGED backlog
      BY <1>1 DEF PollWait, Resume, Goto, kernelVars
    <2>2. pc' = "accept" => Ready(ListenFd)
      BY <1>1 DEF PollWait, Resume, Goto
    <2> QED BY <2>1, <2>2 DEF HeardInv, Ready
  <1>2. CASE PollAccept
    <2>1. pc = "accept" /\ pc' \in {"store", "undefined"}
      BY <1>2 DEF PollAccept, AcceptFails, Goto
    <2> QED BY <2>1 DEF HeardInv, Excused, Accepting
  <1>3. CASE PollStore \/ PollEcho \/ PollEnd
    <2>1. pc' \in {"wait", "scan"}
      BY <1>3 DEF PollStore, PollEcho, PollEnd, Resume, Goto
    <2> QED BY <2>1 DEF HeardInv
  <1> QED BY <1>1, <1>2, <1>3 DEF PollStep

LEMMA EPollHears ==
  ASSUME Inv, HeardInv, server = "epoll", EPoll
  PROVE  HeardInv' /\ (pc' = "undefined" => Excused)
  <1>1. iter \in Nat /\ nready \in Nat /\ EPollStep /\ UNCHANGED <<selectVars, pollVars, unsent, server>>
    BY DEF Inv, Types, LoopTypes, EPoll
  <1>2. CASE EPollWait
    <2>1. pc' = "scan" /\ iter' = 1 /\ nready' = Reported /\ UNCHANGED backlog
      BY <1>2 DEF EPollWait, Goto, kernelVars
    <2>2. \A i \in 1 .. Reported : eventList'[i] \in ReadyFds
      BY <1>2, WaitFills DEF Inv, Types, EPollTypeOK, BookInv, EPollInv, Events
    <2>3. \A i \in 1 .. Reported : eventList'[i] = ListenFd => backlog # <<>>
      BY <2>2 DEF ReadyFds, Ready
    <2> QED BY <2>1, <2>3 DEF HeardInv
  <1>3. CASE EPollAccept
    <2>1. /\ pc = "scan" /\ eventList[iter] = ListenFd /\ UNCHANGED eventList
          /\ \/ pc' = "store" /\ iter' = iter /\ nready' = nready
             \/ pc' = "undefined"
      BY <1>3 DEF EPollAccept, AcceptFails, Goto, Event, epollVars
    <2>2. ASSUME pc' = "undefined"
          PROVE  Excused
      <3>1. CASE iter > nready
        BY <3>1 DEF Excused
      <3>2. CASE iter <= nready
        <4>1. iter \in iter .. nready
          BY <1>1, <3>2
        <4> QED BY <2>1, <4>1 DEF HeardInv, Excused, Accepting, Event
      <3> QED BY <1>1, <3>1, <3>2
    <2>3. ASSUME pc' = "store", NEW i \in iter .. nready, i # iter, eventList[i] = ListenFd
          PROVE  FALSE
      <3>1. \A h, j \in iter .. nready : eventList[h] = eventList[j] => h = j
        BY <2>1 DEF Inv, BookInv, EPollInv, FreshInv
      <3>2. iter \in iter .. nready
        BY <1>1
      <3> QED BY <2>1, <2>3, <3>1, <3>2
    <2> QED BY <2>1, <2>2, <2>3 DEF HeardInv
  <1>4. CASE EPollLost
    <2>1. pc' = "undefined" /\ iter > nready
      BY <1>1, <1>4, EPollLostKeeps DEF EPollLost, Goto
    <2> QED BY <2>1 DEF HeardInv, Excused
  <1>5. CASE EPollStore \/ EPollEcho \/ EPollEnd
    <2>1. pc \in {"scan", "store"} /\ NextEvent /\ UNCHANGED eventList
      BY <1>5 DEF EPollStore, EPollEcho, EPollEnd, OfConnection, epollVars
    <2>2. backlog' = backlog
      <3>1. CASE EPollStore
        BY <3>1, QueueStays DEF EPollStore, Insert, PushBack
      <3>2. CASE EPollEcho
        BY <3>2 DEF EPollEcho, EchoBack, ReadFails
      <3>3. CASE EPollEnd
        BY <3>3, QueueStays DEF EPollEnd, EraseFromPool
      <3> QED BY <1>5, <3>1, <3>2, <3>3
    <2>3. /\ pc' \in {"wait", "scan"} /\ iter' \in Nat
          /\ pc' = "scan" => iter' >= iter + 1 /\ nready' = nready
      BY <2>1, NextEventFacts
    <2>4. ASSUME pc' = "scan", NEW i \in iter' .. nready', eventList[i] = ListenFd
          PROVE  backlog # <<>>
      <3>1. i \in iter .. nready /\ i # iter
        BY <1>1, <2>3, <2>4
      <3> QED BY <2>1, <2>4, <3>1 DEF HeardInv
    <2> QED BY <2>1, <2>2, <2>3, <2>4 DEF HeardInv
  <1> QED BY <1>1, <1>2, <1>3, <1>4, <1>5 DEF EPollStep

LEMMA HeardStep ==
  ASSUME Inv, HeardInv, [Next]_vars
  PROVE  HeardInv' /\ [pc' = "undefined" => Excused]_vars
  <1>1. CASE Select
    BY <1>1, SelectHears DEF Select
  <1>2. CASE Poll
    BY <1>2, PollHears DEF Poll
  <1>3. CASE EPoll
    BY <1>3, EPollHears DEF EPoll
  <1>4. CASE Blocking
    <2>1. server = "blocking" /\ server' = server /\ BlockingStep
      BY <1>4 DEF Blocking
    <2>2. /\ pc' \in {"wait", "read", "write", "undefined"}
          /\ pc' = "undefined" => pc = "wait"
      BY <2>1 DEF BlockingStep, BlockingAccept, AcceptFails, BlockingRead, BlockingEnd, BlockingWrite, Goto
    <2> QED BY <2>1, <2>2 DEF HeardInv, Excused, Accepting
  <1>5. CASE Alive /\ Network /\ UNCHANGED ServerVars
    <2>1. PICK c \in Clients : ClientStep(c)
      BY <1>5 DEF Network
    <2>2. backlog # <<>> => backlog' # <<>>
      <3>1. backlog \in Seq(Clients)
        BY DEF Inv, Types, NetTypeOK
      <3>2. backlog' = backlog \/ backlog' = Append(backlog, c)
        BY <2>1 DEF ClientStep, Connect, Send, Receive, ShutDown, HangUp
      <3> QED BY <3>1, <3>2
    <2>3. UNCHANGED <<pc, iter, nready, eventList, server>> /\ pc # "undefined"
      BY <1>5 DEF Alive, ServerVars, loopVars, epollVars
    <2> QED BY <2>2, <2>3 DEF HeardInv
  <1>6. CASE UNCHANGED vars
    <2>1. UNCHANGED <<pc, iter, nready, eventList, server, backlog>>
      BY <1>6 DEF vars, kernelVars, loopVars, epollVars
    <2> QED BY <1>6, <2>1 DEF HeardInv
  <1> QED BY <1>1, <1>2, <1>3, <1>4, <1>5, <1>6 DEF Next, ServerStep, ServerVars
-----------------------------------------------------------------------------
\* The invariant holds in every reachable state.
THEOREM EchoInvariance == Spec => []Inv
  BY InitKeeps, StepKeeps, PTL DEF Spec

\* Every variable of the kernel and of the four servers keeps its type: no count of
\* a SocketGuard falls below zero, no server reads or writes a descriptor it has not.
THEOREM EchoTypesKept == Spec => []TypeOK
  BY EchoInvariance, TypesSuffice, PTL

\* The count of a SocketGuard is the number of ConnSockets that share it, and its
\* descriptor is open exactly as long: through accept, copies into the pools, the
\* assignments of vector::erase, and descriptors that are used again.
THEOREM HandlesAreCounted == Spec => []OpenWhileHeld
  <1>1. Inv => OpenWhileHeld
    BY DEF Inv, HeldInv
  <1> QED BY <1>1, EchoInvariance, PTL

\* Where a server waits, or goes through what was reported, the descriptors it
\* waits for are the listening one and those of its pool.
THEOREM ListsAgree == Spec => []BooksAgree
  <1>1. Inv => BooksAgree
    <2> SUFFICES ASSUME Inv, pc \in {"wait", "scan"}
                 PROVE  LET watched == {ListenFd} \union {connPool[i] : i \in DOMAIN connPool}
                        IN  CASE server = "select" -> allfds = watched
                              [] server = "poll" -> {pollfds[i] : i \in DOMAIN pollfds} = watched
                              [] server = "epoll" -> interest = watched
                              [] OTHER -> connPool = <<>>
      BY DEF BooksAgree
    <2>1. Local = {} /\ Solid = DOMAIN connPool
      BY DEF Local, Solid, Inv, PcInv
    <2>2. server = "select" => allfds = {ListenFd} \union Pooled
      BY <2>1 DEF Inv, BookInv, SelectInv, Pooled
    <2>3. server = "poll" => {pollfds[i] : i \in DOMAIN pollfds} = {ListenFd} \union Pooled
      BY <2>1 DEF Inv, BookInv, PollInv
    <2>4. server = "epoll" => interest = {ListenFd} \union Pooled
      BY DEF Inv, BookInv, EPollInv
    <2>5. server = "blocking" => connPool = <<>>
      BY DEF Inv, PcInv
    <2>6. server \in {"blocking", "select", "poll", "epoll"}
      BY ServersAssumption DEF Inv, Types
    <2>7. CASE server = "select"
      BY <2>2, <2>7 DEF Pooled
    <2>8. CASE server = "poll"
      BY <2>3, <2>8 DEF Pooled
    <2>9. CASE server = "epoll"
      BY <2>4, <2>9 DEF Pooled
    <2>10. CASE server = "blocking"
      BY <2>5, <2>10
    <2> QED BY <2>6, <2>7, <2>8, <2>9, <2>10
  <1> QED BY <1>1, EchoInvariance, PTL

\* An event just reported finds what it is about: accept a connection in its
\* queue, and connPool.find() of EchoServer_epoll.cpp a ConnSocket.  So the only
\* ways to undefined behaviour are an accept that fails for another reason than
\* EAGAIN, and the events that earlier calls of epoll_wait left behind.
THEOREM ReportedEventsFind == Spec => FreshEventsFind
  <1>1. Init => HeardInv
    BY DEF Init, LoopInit, HeardInv
  <1>2. Inv /\ HeardInv /\ [Next]_vars => HeardInv' /\ [pc' = "undefined" => Excused]_vars
    BY HeardStep
  <1>3. [pc' = "undefined" => Excused]_vars =>
          [pc' = "undefined" => \/ Accepting /\ (backlog # <<>> \/ server = "blocking")
                                \/ server = "epoll" /\ iter > nready]_vars
    BY DEF Excused
  <1> QED BY <1>1, <1>2, <1>3, EchoInvariance, PTL DEF Spec, FreshEventsFind
=============================================================================
