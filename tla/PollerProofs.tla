---------------------------- MODULE PollerProofs -----------------------------
(***************************************************************************)
(* Theorems about EventLoop for any channels, descriptors and event list.   *)
(*                                                                         *)
(* IInv is inductive.  Its heart is the pair StoreInv and IndexInv: a       *)
(* channel is stored under its own descriptor exactly while its mark is     *)
(* not kNew, and no two objects share a descriptor.  PollInv adds that in   *)
(* PollPoller the mark is the place of the channel's entry, in both         *)
(* directions; EPollInv that in EPollPoller the kernel's list has the same  *)
(* descriptors as the map.  A removal that swaps entries is correct because *)
(* of the first direction (the moved entry's channel is found through the   *)
(* map) and keeps both only by giving the moved channel its new place.      *)
(***************************************************************************)
EXTENDS EventLoop, FiniteSetTheorems, SequenceTheorems, TLAPS

Types == /\ ChanTypeOK
         /\ usePoll \in BOOLEAN /\ looping \in BOOLEAN
         /\ handling \in Channels \union {None}
         /\ calls \subseteq Flags
         /\ dead \subseteq Pending /\ undefined \in BOOLEAN
         /\ ready \in [Fds -> SUBSET Flags]
         /\ index \in [Channels -> Int]
         /\ eventListSize \in Nat \ {0}

\* One object to a descriptor, and only an object can be registered.
FdInv == \A c, d \in Channels : fd[c] # NoFd /\ fd[c] = fd[d] => c = d

StoreInv == \A f \in Stored : fd[channelStore[f]] = f /\ index[channelStore[f]] # kNew

IndexInv == \A c \in Channels : index[c] # kNew => fd[c] \in Stored /\ channelStore[fd[c]] = c

\* An address without an object keeps nothing of the last one.
BlankInv == \A c \in Channels : fd[c] = NoFd => events[c] = {}

\* What the loop still points to exists and has something reported, unless it
\* was deleted since.
BatchInv == /\ \A i \in DOMAIN activeChannels : activeChannels[i] \notin dead =>
                  fd[activeChannels[i]] # NoFd /\ revents[activeChannels[i]] # {}
            /\ \A i, j \in DOMAIN activeChannels :
                  activeChannels[i] = activeChannels[j] => i = j
            /\ \A i \in DOMAIN activeChannels : activeChannels[i] # handling
            /\ calls # {} => handling \in Existing \union dead
            /\ calls = {} => handling = None
            /\ ~looping => calls = {}

Pollfds == [fd : Fds, events : SUBSET Wanted]

PollInv ==
    /\ pollfdList \in Seq(Pollfds)
    /\ \A i \in DOMAIN pollfdList :
          /\ pollfdList[i].fd \in Stored
          /\ index[channelStore[pollfdList[i].fd]] = i - 1
          /\ pollfdList[i].events = events[channelStore[pollfdList[i].fd]]
    /\ \A f \in Stored : /\ index[channelStore[f]] \in 0 .. Len(pollfdList) - 1
                         /\ pollfdList[index[channelStore[f]] + 1].fd = f

EPollInv ==
    /\ DOMAIN epollSet = Stored
    /\ \A f \in Stored : epollSet[f] = [ptr |-> channelStore[f],
                                        events |-> events[channelStore[f]]]
    /\ index \in [Channels -> {kNew, kAdded}]

MapInv == StoreInv /\ IndexInv
KernelInv == IF usePoll THEN PollInv ELSE EPollInv

IInv == Types /\ FdInv /\ MapInv /\ BlankInv /\ BatchInv /\ KernelInv

-----------------------------------------------------------------------------
\* Sequences are functions.
LEMMA SeqFacts ==
  ASSUME NEW S, NEW s \in Seq(S)
  PROVE  Len(s) \in Nat /\ DOMAIN s = 1 .. Len(s) /\ s \in [1 .. Len(s) -> S]
  OBVIOUS

\* A function on 1 .. n with values in S is a sequence.
LEMMA FunctionIsSeq ==
  ASSUME NEW S, NEW n \in Nat, NEW s \in [1 .. n -> S]
  PROVE  s \in Seq(S) /\ Len(s) = n /\ DOMAIN s = 1 .. n
  OBVIOUS

\* An empty poller satisfies the invariant.
LEMMA InitIInv == Init => IInv
  <1>1. SUFFICES ASSUME Init PROVE IInv
    OBVIOUS
  <1>2. channelStore = <<>> /\ DOMAIN channelStore = {} /\ activeChannels = <<>>
        /\ pollfdList = <<>> /\ epollSet = <<>>
    BY <1>1 DEF Init, ChanInit
  <1>3. Types
    <2>1. channelStore \in [Stored -> Channels] /\ Stored = {} /\ activeChannels \in Seq(Channels)
      <3>1. <<>> \in Seq(Channels) /\ Len(<<>>) = 0 /\ 1 .. 0 = {}
        OBVIOUS
      <3>2. <<>> \in [{} -> Channels]
        BY <3>1, SeqFacts
      <3> QED BY <1>2, <3>1, <3>2 DEF Stored
    <2>2. ChanTypeOK
      BY <1>1, <2>1 DEF Init, ChanInit, ChanTypeOK
    <2>3. usePoll \in BOOLEAN /\ looping \in BOOLEAN
      BY <1>1 DEF Init
    <2>4. /\ handling \in Channels \union {None} /\ calls \subseteq Flags
          /\ ready \in [Fds -> SUBSET Flags] /\ dead = {} /\ undefined = FALSE
          /\ index \in [Channels -> Int] /\ eventListSize \in Nat \ {0}
      BY <1>1, SizeAssumption DEF Init, ChanInit, kNew
    <2> QED BY <2>2, <2>3, <2>4 DEF Types
  <1>4. FdInv /\ MapInv /\ BlankInv
    BY <1>1, <1>2 DEF Init, ChanInit, FdInv, MapInv, StoreInv, IndexInv, BlankInv, Stored
  <1>5. BatchInv
    BY <1>1, <1>2 DEF Init, BatchInv
  <1>6. PollInv
    BY <1>1, <1>2 DEF PollInv, Stored
  <1>7. EPollInv
    BY <1>1, <1>2 DEF Init, ChanInit, EPollInv, Stored
  <1> QED BY <1>3, <1>4, <1>5, <1>6, <1>7 DEF IInv, KernelInv
-----------------------------------------------------------------------------
(* PollPoller: the array and the map *)

\* PollPoller::update_channel of an unregistered channel.
LEMMA PollAddKeeps ==
  ASSUME Types, FdInv, MapInv, PollInv, NEW c \in Existing, NEW ev \in SUBSET Wanted,
         events' = [events EXCEPT ![c] = ev], UNCHANGED fd, PollAdd(c, ev)
  PROVE  MapInv' /\ PollInv' /\ index' \in [Channels -> Int]
         /\ Stored' \subseteq Fds /\ channelStore' \in [Stored' -> Channels]
  <1> USE DEF IndexOfPushed, LastIndex
  <1> DEFINE n == Len(pollfdList)
             p == Pollfd(c, ev)
  <1>1. c \in Channels /\ fd[c] \in Fds
    BY DEF Existing, Types, ChanTypeOK
  <1>2. fd[c] \notin Stored
    <2> SUFFICES ASSUME fd[c] \in Stored PROVE FALSE
      OBVIOUS
    <2>1. channelStore[fd[c]] \in Channels /\ fd[channelStore[fd[c]]] = fd[c]
      BY DEF MapInv, StoreInv, Types, ChanTypeOK
    <2>2. channelStore[fd[c]] = c
      BY <2>1, <1>1, FdsAssumption DEF FdInv
    <2>3. index[c] \in 0 .. n - 1
      BY <2>2 DEF PollInv
    <2> QED BY <2>3 DEF PollAdd
  <1>3. n \in Nat /\ pollfdList \in [1 .. n -> Pollfds] /\ DOMAIN pollfdList = 1 .. n
    BY SeqFacts DEF PollInv
  <1>4. /\ channelStore' = [g \in Stored \union {fd[c]} |-> IF g = fd[c] THEN c ELSE channelStore[g]]
        /\ Stored' = Stored \union {fd[c]}
    BY DEF PollAdd, StoreInsert, Stored
  <1>5. index' = [index EXCEPT ![c] = n] /\ index \in [Channels -> Int]
    BY DEF PollAdd, Types
  <1>6. /\ p \in Pollfds /\ p.fd = fd[c] /\ p.events = ev
        /\ pollfdList' = Append(pollfdList, p)
    BY <1>1 DEF Pollfd, Pollfds, PollAdd
  <1>7. /\ Len(pollfdList') = n + 1
        /\ pollfdList' \in Seq(Pollfds)
        /\ DOMAIN pollfdList' = 1 .. n + 1
        /\ \A i \in 1 .. n : pollfdList'[i] = pollfdList[i]
        /\ pollfdList'[n + 1] = p
    BY <1>3, <1>6 DEF PollInv
  <1>8. \A f \in Stored : channelStore[f] \in Channels /\ channelStore[f] # c
    BY <1>2 DEF MapInv, StoreInv, Types, ChanTypeOK
  <1>9. events \in [Channels -> SUBSET Wanted] /\ Stored \subseteq Fds
    BY DEF Types, ChanTypeOK
  <1>10. Stored' \subseteq Fds /\ channelStore' \in [Stored' -> Channels]
    BY <1>1, <1>4, <1>8, <1>9
  <1>11. MapInv'
    <2>1. StoreInv'
      BY <1>1, <1>3, <1>4, <1>5, <1>8 DEF MapInv, StoreInv, kNew
    <2>2. IndexInv'
      BY <1>1, <1>2, <1>4, <1>5 DEF MapInv, IndexInv
    <2> QED BY <2>1, <2>2 DEF MapInv
  <1>12. PollInv'
    <2>1. ASSUME NEW i \in DOMAIN pollfdList'
          PROVE  /\ pollfdList'[i].fd \in Stored'
                 /\ index'[channelStore'[pollfdList'[i].fd]] = i - 1
                 /\ pollfdList'[i].events = events'[channelStore'[pollfdList'[i].fd]]
      <3>1. CASE i = n + 1
        BY <3>1, <1>1, <1>3, <1>4, <1>5, <1>6, <1>7, <1>9
      <3>2. CASE i \in 1 .. n
        <4>1. /\ pollfdList[i].fd \in Stored
              /\ index[channelStore[pollfdList[i].fd]] = i - 1
              /\ pollfdList[i].events = events[channelStore[pollfdList[i].fd]]
          BY <3>2, <1>3 DEF PollInv
        <4> QED BY <4>1, <3>2, <1>2, <1>4, <1>5, <1>7, <1>8, <1>9
      <3> QED BY <2>1, <1>3, <1>7, <3>1, <3>2
    <2>2. ASSUME NEW f \in Stored'
          PROVE  /\ index'[channelStore'[f]] \in 0 .. Len(pollfdList') - 1
                 /\ pollfdList'[index'[channelStore'[f]] + 1].fd = f
      <3>1. CASE f = fd[c]
        BY <3>1, <1>1, <1>3, <1>4, <1>5, <1>6, <1>7
      <3>2. CASE f \in Stored
        <4>1. /\ index[channelStore[f]] \in 0 .. n - 1
              /\ pollfdList[index[channelStore[f]] + 1].fd = f
          BY <3>2 DEF PollInv
        <4>2. channelStore'[f] = channelStore[f] /\ index'[channelStore[f]] = index[channelStore[f]]
          BY <3>2, <1>2, <1>4, <1>5, <1>8
        <4> QED BY <4>1, <4>2, <1>3, <1>7
      <3> QED BY <1>4, <3>1, <3>2
    <2> QED BY <2>1, <2>2, <1>7 DEF PollInv
  <1> QED BY <1>1, <1>3, <1>5, <1>10, <1>11, <1>12

\* PollPoller::update_channel of a registered channel.
LEMMA PollModifyKeeps ==
  ASSUME Types, FdInv, MapInv, PollInv, NEW c \in Existing, NEW ev \in SUBSET Wanted,
         events' = [events EXCEPT ![c] = ev], UNCHANGED fd, PollModify(c, ev)
  PROVE  MapInv' /\ PollInv' /\ UNCHANGED <<channelStore, index>>
  <1> DEFINE n == Len(pollfdList)
             k == index[c] + 1
  <1>1. c \in Channels /\ index[c] # kNew
    BY DEF Existing, PollModify, kNew
  <1>2. fd[c] \in Stored /\ channelStore[fd[c]] = c
    BY <1>1 DEF MapInv, IndexInv
  <1>3. k \in 1 .. n /\ pollfdList[k].fd = fd[c] /\ n \in Nat
    BY <1>2 DEF PollInv
  <1>4. UNCHANGED <<channelStore, index, Stored>>
    BY DEF PollModify, Stored
  <1>5. MapInv'
    BY <1>4 DEF MapInv, StoreInv, IndexInv
  <1>6. pollfdList \in [1 .. n -> Pollfds] /\ DOMAIN pollfdList = 1 .. n
    BY SeqFacts DEF PollInv
  <1>7. pollfdList' = [pollfdList EXCEPT ![k].events = ev]
    BY DEF PollModify
  <1>8. /\ pollfdList' \in [1 .. n -> Pollfds]
        /\ \A i \in 1 .. n : pollfdList'[i].fd = pollfdList[i].fd
        /\ \A i \in 1 .. n : pollfdList'[i].events = IF i = k THEN ev ELSE pollfdList[i].events
    BY <1>3, <1>6, <1>7 DEF Pollfds
  <1>9. pollfdList' \in Seq(Pollfds) /\ Len(pollfdList') = n
        /\ DOMAIN pollfdList' = 1 .. n
    BY <1>3, <1>8, FunctionIsSeq
  <1>10. events \in [Channels -> SUBSET Wanted] /\ channelStore \in [Stored -> Channels]
    BY DEF Types, ChanTypeOK
  <1>11. ASSUME NEW i \in 1 .. n
         PROVE  /\ pollfdList'[i].fd \in Stored'
                /\ index'[channelStore'[pollfdList'[i].fd]] = i - 1
                /\ pollfdList'[i].events = events'[channelStore'[pollfdList'[i].fd]]
    <2>1. /\ pollfdList[i].fd \in Stored
          /\ index[channelStore[pollfdList[i].fd]] = i - 1
          /\ pollfdList[i].events = events[channelStore[pollfdList[i].fd]]
      BY <1>6 DEF PollInv
    <2>2. channelStore[pollfdList[i].fd] = c <=> i = k
      BY <2>1, <1>2, <1>3
    <2> QED BY <2>1, <2>2, <1>1, <1>4, <1>8, <1>10
  <1>12. \A f \in Stored' : /\ index'[channelStore'[f]] \in 0 .. Len(pollfdList') - 1
                            /\ pollfdList'[index'[channelStore'[f]] + 1].fd = f
    BY <1>3, <1>4, <1>8, <1>9 DEF PollInv
  <1>13. PollInv'
    BY <1>9, <1>11, <1>12 DEF PollInv
  <1> QED BY <1>4, <1>5, <1>13

\* PollPoller::remove_channel: the last entry may move to the hole.
LEMMA PollRemoveKeeps ==
  ASSUME Types, FdInv, MapInv, PollInv, NEW c \in Registered,
         UNCHANGED <<fd, events>>, PollRemove(c)
  PROVE  /\ MapInv' /\ PollInv' /\ index' \in [Channels -> Int]
         /\ Stored' \subseteq Fds /\ channelStore' \in [Stored' -> Channels]
  <1> USE DEF IndexAfterRemove
  <1> DEFINE n == Len(pollfdList)
             k == index[c] + 1
             m == channelStore[LastEntry.fd]
  <1>1. /\ c \in Channels /\ fd[c] \in Stored /\ channelStore[fd[c]] = c /\ index[c] # kNew
        /\ channelStore \in [Stored -> Channels] /\ Stored \subseteq Fds
    BY DEF Registered, MapInv, StoreInv, Types, ChanTypeOK
  <1>2. n \in Nat /\ pollfdList \in [1 .. n -> Pollfds] /\ DOMAIN pollfdList = 1 .. n
    BY SeqFacts DEF PollInv
  <1>3. k \in 1 .. n /\ pollfdList[k].fd = fd[c] /\ index[c] = k - 1
    BY <1>1, <1>2 DEF PollInv
  <1>4. n \in 1 .. n /\ LastEntry = pollfdList[n]
    BY <1>2, <1>3 DEF LastEntry
  <1>5. /\ LastEntry \in Pollfds /\ LastEntry.fd \in Stored /\ m \in Channels
        /\ index[m] = n - 1 /\ LastEntry.events = events[m]
    BY <1>1, <1>2, <1>4 DEF PollInv
  <1>6. m = c <=> k = n
    BY <1>1, <1>2, <1>3, <1>4, <1>5
  <1>7. index' = [index EXCEPT ![m] = index[c], ![c] = kNew] /\ index \in [Channels -> Int]
    BY DEF PollRemove, MovedTakesIndex, Types
  <1>8. /\ index'[c] = kNew
        /\ m # c => index'[m] = k - 1
        /\ \A d \in Channels : d # c /\ d # m => index'[d] = index[d]
        /\ index' \in [Channels -> Int]
    BY <1>1, <1>3, <1>5, <1>7 DEF kNew
  <1>9. Stored' = Stored \ {fd[c]} /\ channelStore' = [g \in Stored \ {fd[c]} |-> channelStore[g]]
    BY DEF PollRemove, StoreErase, Stored
  <1>10. \A f \in Stored' : channelStore[f] # c /\ channelStore'[f] = channelStore[f]
    BY <1>1, <1>9 DEF MapInv, StoreInv
  <1>11. MapInv'
    <2>1. StoreInv'
      <3> SUFFICES ASSUME NEW f \in Stored'
                   PROVE  fd[channelStore[f]] = f /\ index'[channelStore[f]] # kNew
        BY <1>10 DEF StoreInv
      <3>1. f \in Stored /\ channelStore[f] \in Channels
        BY <1>1, <1>9
      <3>2. fd[channelStore[f]] = f /\ index[channelStore[f]] # kNew
        BY <3>1 DEF MapInv, StoreInv
      <3> QED BY <3>1, <3>2, <1>2, <1>3, <1>8, <1>10 DEF kNew
    <2>2. IndexInv'
      <3> SUFFICES ASSUME NEW d \in Channels, index'[d] # kNew
                   PROVE  fd[d] \in Stored' /\ channelStore'[fd[d]] = d
        BY DEF IndexInv
      <3>1. d # c
        BY <1>8
      <3>2. index[d] # kNew
        BY <3>1, <1>2, <1>4, <1>5, <1>8 DEF kNew
      <3>3. fd[d] \in Stored /\ channelStore[fd[d]] = d
        BY <3>2 DEF MapInv, IndexInv
      <3>4. fd[d] # fd[c]
        BY <3>1, <3>3, <1>1
      <3> QED BY <3>3, <3>4, <1>9
    <2> QED BY <2>1, <2>2 DEF MapInv
  <1> DEFINE swapped == [pollfdList EXCEPT ![k] = LastEntry]
  <1>12. /\ pollfdList' \in [1 .. n - 1 -> Pollfds]
         /\ \A i \in 1 .. n - 1 : pollfdList'[i] = IF i = k THEN pollfdList[n] ELSE pollfdList[i]
    <2>1. swapped \in [1 .. n -> Pollfds]
      BY <1>2, <1>3, <1>5
    <2>2. swapped \in Seq(Pollfds) /\ Len(swapped) = n
      BY <2>1, <1>2, FunctionIsSeq
    <2>3. pollfdList' = SubSeq(swapped, 1, n - 1)
      BY <2>2 DEF PollRemove, PopBack
    <2>4. pollfdList' = [i \in 1 .. n - 1 |-> swapped[i]]
      BY <2>1, <2>2, <2>3, <1>2, <1>4
    <2> QED BY <2>1, <2>4, <1>2, <1>3, <1>4
  <1>13. n - 1 \in Nat /\ pollfdList' \in Seq(Pollfds) /\ Len(pollfdList') = n - 1
         /\ DOMAIN pollfdList' = 1 .. n - 1
    <2>1. n - 1 \in Nat
      BY <1>2, <1>4
    <2> QED BY <2>1, <1>12, FunctionIsSeq
  <1>14. ASSUME NEW i \in 1 .. n - 1
         PROVE  /\ pollfdList'[i].fd \in Stored'
                /\ index'[channelStore'[pollfdList'[i].fd]] = i - 1
                /\ pollfdList'[i].events = events[channelStore'[pollfdList'[i].fd]]
    <2>1. CASE i = k
      <3>1. m # c /\ LastEntry.fd # fd[c]
        BY <2>1, <1>1, <1>2, <1>6
      <3>2. LastEntry.fd \in Stored' /\ channelStore'[LastEntry.fd] = m
        BY <3>1, <1>5, <1>9
      <3> QED BY <2>1, <3>1, <3>2, <1>4, <1>5, <1>8, <1>12
    <2>2. CASE i # k
      <3> DEFINE f == pollfdList[i].fd
      <3>1. f \in Stored /\ index[channelStore[f]] = i - 1
            /\ pollfdList[i].events = events[channelStore[f]]
        BY <1>2 DEF PollInv
      <3>2. channelStore[f] # c /\ channelStore[f] # m /\ f # fd[c] /\ channelStore[f] \in Channels
        BY <2>2, <3>1, <1>1, <1>2, <1>3, <1>5
      <3>3. f \in Stored' /\ channelStore'[f] = channelStore[f]
        BY <3>1, <3>2, <1>9
      <3> QED BY <2>2, <3>1, <3>2, <3>3, <1>8, <1>12
    <2> QED BY <2>1, <2>2
  <1>15. ASSUME NEW f \in Stored'
         PROVE  /\ index'[channelStore'[f]] \in 0 .. n - 2
                /\ pollfdList'[index'[channelStore'[f]] + 1].fd = f
    <2> DEFINE d == channelStore[f]
    <2>1. /\ f \in Stored /\ d \in Channels /\ d # c /\ channelStore'[f] = d /\ fd[d] = f
      BY <1>1, <1>9, <1>10 DEF MapInv, StoreInv
    <2>2. index[d] \in 0 .. n - 1 /\ pollfdList[index[d] + 1].fd = f
      BY <2>1 DEF PollInv
    <2>3. CASE d = m
      <3>1. index'[d] = k - 1 /\ k # n
        BY <2>1, <2>3, <1>6, <1>8
      <3>2. pollfdList'[k] = pollfdList[n] /\ k \in 1 .. n - 1
        BY <3>1, <1>2, <1>3, <1>12
      <3>3. pollfdList[n].fd = f
        BY <2>2, <2>3, <1>2, <1>5
      <3> QED BY <2>1, <3>1, <3>2, <3>3, <1>2, <1>3
    <2>4. CASE d # m
      <3>1. index'[d] = index[d]
        BY <2>1, <2>4, <1>8
      <3>2. index[d] + 1 # k
        BY <2>1, <2>2, <1>1, <1>3
      <3>3. index[d] + 1 # n
        <4> SUFFICES ASSUME index[d] + 1 = n PROVE FALSE
          OBVIOUS
        <4>1. LastEntry.fd = f
          BY <2>2, <1>4
        <4> QED BY <4>1, <2>4
      <3> QED BY <2>1, <2>2, <3>1, <3>2, <3>3, <1>2, <1>12
    <2> QED BY <2>3, <2>4
  <1>16. PollInv'
    BY <1>13, <1>14, <1>15 DEF PollInv
  <1>17. Stored' \subseteq Fds /\ channelStore' \in [Stored' -> Channels]
    BY <1>1, <1>9
  <1> QED BY <1>8, <1>11, <1>16, <1>17
-----------------------------------------------------------------------------
(* EPollPoller: the kernel's list and the map *)

\* EPollPoller::update_channel, of a new or a registered channel.
LEMMA EPollUpdateKeeps ==
  ASSUME Types, FdInv, MapInv, EPollInv, NEW c \in Existing, NEW ev \in SUBSET Wanted,
         events' = [events EXCEPT ![c] = ev], UNCHANGED fd, EPollUpdate(c, ev)
  PROVE  MapInv' /\ EPollInv' /\ index' \in [Channels -> Int]
         /\ Stored' \subseteq Fds /\ channelStore' \in [Stored' -> Channels]
  <1>1. /\ c \in Channels /\ fd[c] \in Fds /\ index \in [Channels -> {kNew, kAdded}]
        /\ events \in [Channels -> SUBSET Wanted]
        /\ Stored \subseteq Fds /\ channelStore \in [Stored -> Channels]
    BY DEF Existing, Types, ChanTypeOK, EPollInv
  <1>2. /\ epollSet' = CtlSet(c, ev)
        /\ Stored' = Stored \union {fd[c]}
        /\ channelStore' = [g \in Stored \union {fd[c]} |->
                              IF g = fd[c] THEN c ELSE channelStore[g]]
        /\ index' = [index EXCEPT ![c] = kAdded]
    <2>1. CASE EPollAdd(c, ev)
      BY <2>1 DEF EPollAdd, StoreInsert, Stored
    <2>2. CASE EPollModify(c, ev)
      <3>1. index[c] = kAdded /\ fd[c] \in Stored /\ channelStore[fd[c]] = c
        BY <2>2, <1>1 DEF EPollModify, MapInv, IndexInv
      <3>2. UNCHANGED <<Stored, channelStore, index>> /\ epollSet' = CtlSet(c, ev)
        BY <2>2 DEF EPollModify, Stored
      <3>3. Stored \union {fd[c]} = Stored
        BY <3>1
      <3>4. channelStore = [g \in Stored |-> IF g = fd[c] THEN c ELSE channelStore[g]]
        BY <3>1, <1>1
      <3> QED BY <3>1, <3>2, <3>3, <3>4, <1>1
    <2> QED BY <2>1, <2>2 DEF EPollUpdate
  <1>3. \A f \in Stored : f # fd[c] => channelStore[f] \in Channels /\ channelStore[f] # c
    BY <1>1 DEF MapInv, StoreInv
  <1>4. StoreInv'
    BY <1>1, <1>2, <1>3 DEF MapInv, StoreInv, kNew, kAdded
  <1>5. IndexInv'
    <2> SUFFICES ASSUME NEW d \in Channels, index'[d] # kNew
                 PROVE  fd[d] \in Stored' /\ channelStore'[fd[d]] = d
      BY DEF IndexInv
    <2>1. CASE d = c
      BY <2>1, <1>1, <1>2
    <2>2. CASE d # c
      <3>1. index[d] # kNew
        BY <2>2, <1>1, <1>2
      <3>2. fd[d] \in Stored /\ channelStore[fd[d]] = d
        BY <3>1 DEF MapInv, IndexInv
      <3>3. fd[d] # fd[c]
        BY <2>2, <3>2, <1>1, FdsAssumption DEF FdInv
      <3> QED BY <3>2, <3>3, <1>2
    <2> QED BY <2>1, <2>2
  <1>6. EPollInv'
    <2>1. DOMAIN epollSet' = Stored'
      BY <1>2 DEF CtlSet, EPollInv
    <2>2. \A f \in Stored' : epollSet'[f] = [ptr |-> channelStore'[f],
                                             events |-> events'[channelStore'[f]]]
      BY <1>1, <1>2, <1>3 DEF CtlSet, EPollInv
    <2>3. index' \in [Channels -> {kNew, kAdded}]
      BY <1>1, <1>2
    <2> QED BY <2>1, <2>2, <2>3 DEF EPollInv
  <1>7. Stored' \subseteq Fds /\ channelStore' \in [Stored' -> Channels]
    BY <1>1, <1>2
  <1>8. index' \in [Channels -> Int]
    BY <1>1, <1>2 DEF kNew, kAdded
  <1> QED BY <1>4, <1>5, <1>6, <1>7, <1>8 DEF MapInv

\* EPollPoller::remove_channel.
LEMMA EPollRemoveKeeps ==
  ASSUME Types, FdInv, MapInv, EPollInv, NEW c \in Registered,
         UNCHANGED <<fd, events>>, EPollRemove(c)
  PROVE  MapInv' /\ EPollInv' /\ index' \in [Channels -> Int]
         /\ Stored' \subseteq Fds /\ channelStore' \in [Stored' -> Channels]
  <1>1. /\ c \in Channels /\ fd[c] \in Stored /\ channelStore[fd[c]] = c
        /\ index \in [Channels -> {kNew, kAdded}]
        /\ Stored \subseteq Fds /\ channelStore \in [Stored -> Channels]
    BY DEF Registered, MapInv, StoreInv, Types, ChanTypeOK, EPollInv
  <1>2. /\ epollSet' = CtlDel(c)
        /\ Stored' = Stored \ {fd[c]}
        /\ channelStore' = [g \in Stored \ {fd[c]} |-> channelStore[g]]
        /\ index' = [index EXCEPT ![c] = kNew]
    BY DEF EPollRemove, WatchedAfterRemove, StopsWatching, StoreErase, Stored
  <1>3. \A f \in Stored' : /\ f \in Stored /\ channelStore'[f] = channelStore[f]
                           /\ channelStore[f] \in Channels /\ channelStore[f] # c
    BY <1>1, <1>2 DEF MapInv, StoreInv
  <1>4. StoreInv'
    BY <1>1, <1>2, <1>3 DEF MapInv, StoreInv
  <1>5. IndexInv'
    BY <1>1, <1>2 DEF MapInv, IndexInv
  <1>6. EPollInv'
    BY <1>1, <1>2, <1>3 DEF CtlDel, EPollInv
  <1>7. index' \in [Channels -> Int]
    BY <1>1, <1>2 DEF kNew, kAdded
  <1> QED BY <1>1, <1>2, <1>4, <1>5, <1>6, <1>7 DEF MapInv
-----------------------------------------------------------------------------
(* The program's steps *)

\* enable_reading and its siblings, with either poller.
LEMMA SetInterestStep == IInv /\ SetInterest => IInv'
  <1> SUFFICES ASSUME IInv, SetInterest PROVE IInv'
    OBVIOUS
  <1>0. PICK c \in Existing, e \in Wanted : \E ev \in {Enable(c, e), Disable(c, e)} :
           events' = [events EXCEPT ![c] = ev] /\ Update(c, ev)
    BY DEF SetInterest
  <1>1. PICK ev \in {Enable(c, e), Disable(c, e)} :
           events' = [events EXCEPT ![c] = ev] /\ Update(c, ev)
    BY <1>0
  <1>2. UNCHANGED <<fd, revents, activeChannels, usePoll, looping, handling, calls, dead,
                    undefined, ready>>
    BY DEF SetInterest, loopVars
  <1>3. /\ Types /\ FdInv /\ MapInv /\ BlankInv /\ BatchInv /\ KernelInv
        /\ c \in Channels /\ fd[c] # NoFd /\ events \in [Channels -> SUBSET Wanted]
    BY DEF IInv, Types, ChanTypeOK, Existing
  <1>4. ev \in SUBSET Wanted
    BY <1>0, <1>1, <1>3 DEF Enable, Disable
  <1>5. /\ MapInv' /\ KernelInv' /\ index' \in [Channels -> Int] /\ UNCHANGED eventListSize
        /\ Stored' \subseteq Fds /\ channelStore' \in [Stored' -> Channels]
    <2>1. CASE usePoll
      <3>1. PollInv /\ PollUpdate(c, ev) /\ UNCHANGED eventListSize
        BY <2>1, <1>1, <1>3 DEF KernelInv, Update
      <3>2. CASE PollAdd(c, ev)
        BY <3>1, <3>2, <2>1, <1>1, <1>2, <1>3, <1>4, PollAddKeeps DEF KernelInv
      <3>3. CASE PollModify(c, ev)
        <4>1. MapInv' /\ PollInv' /\ UNCHANGED <<channelStore, index>>
          BY <3>1, <3>3, <1>1, <1>2, <1>3, <1>4, PollModifyKeeps
        <4> QED BY <4>1, <3>1, <2>1, <1>2, <1>3 DEF KernelInv, Types, ChanTypeOK, Stored
      <3> QED BY <3>1, <3>2, <3>3 DEF PollUpdate
    <2>2. CASE ~usePoll
      <3>1. EPollInv /\ EPollUpdate(c, ev) /\ UNCHANGED eventListSize
        BY <2>2, <1>1, <1>3 DEF KernelInv, Update
      <3> QED BY <3>1, <2>2, <1>1, <1>2, <1>3, <1>4, EPollUpdateKeeps DEF KernelInv
    <2> QED BY <2>1, <2>2
  <1>6. Types'
    BY <1>1, <1>2, <1>3, <1>4, <1>5 DEF Types, ChanTypeOK, Pending, Batch
  <1>7. FdInv' /\ BlankInv' /\ BatchInv'
    BY <1>1, <1>2, <1>3 DEF FdInv, BlankInv, BatchInv, Existing
  <1> QED BY <1>5, <1>6, <1>7 DEF IInv

\* Channel::remove, with either poller.
LEMMA RemoveChannelStep == IInv /\ RemoveChannel => IInv'
  <1> SUFFICES ASSUME IInv, RemoveChannel PROVE IInv'
    OBVIOUS
  <1>1. PICK c \in Registered : Remove(c)
    BY DEF RemoveChannel
  <1>2. UNCHANGED <<fd, events, revents, activeChannels, usePoll, looping, handling, calls, dead,
                    undefined, ready>>
    BY DEF RemoveChannel, loopVars
  <1>3. Types /\ FdInv /\ MapInv /\ BlankInv /\ BatchInv /\ KernelInv
    BY DEF IInv
  <1>4. /\ MapInv' /\ KernelInv' /\ index' \in [Channels -> Int] /\ UNCHANGED eventListSize
        /\ Stored' \subseteq Fds /\ channelStore' \in [Stored' -> Channels]
    <2>1. CASE usePoll
      <3>1. PollInv /\ PollRemove(c) /\ UNCHANGED eventListSize
        BY <2>1, <1>1, <1>3 DEF KernelInv, Remove
      <3> QED BY <3>1, <2>1, <1>2, <1>3, PollRemoveKeeps DEF KernelInv
    <2>2. CASE ~usePoll
      <3>1. EPollInv /\ EPollRemove(c) /\ UNCHANGED eventListSize
        BY <2>2, <1>1, <1>3 DEF KernelInv, Remove
      <3> QED BY <3>1, <2>2, <1>2, <1>3, EPollRemoveKeeps DEF KernelInv
    <2> QED BY <2>1, <2>2
  <1>5. Types'
    BY <1>2, <1>3, <1>4 DEF Types, ChanTypeOK, Pending, Batch
  <1>6. FdInv' /\ BlankInv' /\ BatchInv'
    BY <1>2, <1>3 DEF FdInv, BlankInv, BatchInv, Existing
  <1> QED BY <1>4, <1>5, <1>6 DEF IInv

\* What a step that touches neither the marks nor what is wanted keeps.
LEMMA FrameMap ==
  ASSUME MapInv, KernelInv,
         UNCHANGED <<fd, events, index, channelStore, pollfdList, epollSet, usePoll>>
  PROVE  MapInv' /\ KernelInv'
  BY DEF MapInv, StoreInv, IndexInv, KernelInv, PollInv, EPollInv, Stored

\* A new channel takes a free descriptor.
LEMMA NewChannelStep == IInv /\ NewChannel => IInv'
  <1> SUFFICES ASSUME IInv, NewChannel PROVE IInv'
    OBVIOUS
  <1>1. PICK c \in Channels \ Existing, f \in LowestFree : Construct(c, f)
    BY DEF NewChannel
  <1>2. UNCHANGED <<events, index, channelStore, activeChannels, pollfdList,
                    epollSet, eventListSize, usePoll, looping, handling, calls, dead,
                    undefined, ready>>
    BY DEF NewChannel, loopVars
  <1>3. /\ Types /\ FdInv /\ StoreInv /\ IndexInv /\ BlankInv /\ BatchInv /\ KernelInv
        /\ fd \in [Channels -> Fds \union {NoFd}] /\ revents \in [Channels -> SUBSET Flags]
        /\ Stored \subseteq Fds /\ channelStore \in [Stored -> Channels]
        /\ activeChannels \in Seq(Channels)
    BY DEF IInv, MapInv, Types, ChanTypeOK
  <1>4. /\ c \in Channels /\ fd[c] = NoFd /\ f \in Fds /\ f # NoFd
        /\ \A d \in Channels : fd[d] # NoFd => fd[d] # f
        /\ fd' = [fd EXCEPT ![c] = f] /\ revents' = [revents EXCEPT ![c] = {}]
    BY <1>1, FdsAssumption DEF Construct, LowestFree, FreeFds, Existing
  <1>5. Types'
    <2>1. fd' \in [Channels -> Fds \union {NoFd}] /\ revents' \in [Channels -> SUBSET Flags]
      BY <1>3, <1>4
    <2>2. Pending' = Pending
      BY <1>2 DEF Pending, Batch, None
    <2> QED BY <1>2, <1>3, <2>1, <2>2 DEF Types, ChanTypeOK, Stored
  <1>6. FdInv' /\ BlankInv'
    BY <1>2, <1>3, <1>4 DEF FdInv, BlankInv
  <1>7. UNCHANGED Stored /\ \A g \in Stored : channelStore[g] \in Channels /\ channelStore[g] # c
    BY <1>2, <1>3, <1>4, FdsAssumption DEF StoreInv, Stored
  <1>8. StoreInv'
    BY <1>2, <1>3, <1>4, <1>7 DEF StoreInv
  <1>9. IndexInv'
    <2>1. index[c] = kNew
      BY <1>3, <1>4, FdsAssumption DEF IndexInv
    <2>2. \A d \in Channels : d # c => fd'[d] = fd[d]
      BY <1>3, <1>4
    <2> QED BY <1>2, <1>3, <1>7, <2>1, <2>2 DEF IndexInv
  <1>10. BatchInv'
    <2>1. DOMAIN activeChannels = 1 .. Len(activeChannels)
          /\ activeChannels \in [1 .. Len(activeChannels) -> Channels]
      BY <1>3, SeqFacts
    <2>2. \A i \in DOMAIN activeChannels :
             activeChannels[i] \in Channels /\ (activeChannels[i] \notin dead => activeChannels[i] # c)
      BY <2>1, <1>3, <1>4 DEF BatchInv
    <2> QED BY <2>2, <1>2, <1>3, <1>4 DEF BatchInv, Existing
  <1>11. KernelInv'
    BY <1>2, <1>3, <1>7 DEF KernelInv, PollInv, EPollInv
  <1> QED BY <1>5, <1>6, <1>8, <1>9, <1>10, <1>11 DEF IInv, MapInv

\* A channel that is removed may be deleted, and is dead while the loop still
\* points to it.
LEMMA DeleteChannelStep == IInv /\ DeleteChannel => IInv'
  <1> SUFFICES ASSUME IInv, DeleteChannel PROVE IInv'
    OBVIOUS
  <1>1. PICK c \in Existing \ Registered :
          /\ fd' = [fd EXCEPT ![c] = NoFd]
          /\ events' = [events EXCEPT ![c] = {}]
          /\ revents' = [revents EXCEPT ![c] = {}]
          /\ ready' = [ready EXCEPT ![fd[c]] = {}]
          /\ dead' = dead \union ({c} \intersect Pending)
    BY DEF DeleteChannel
  <1>2. UNCHANGED <<index, channelStore, activeChannels, pollfdList, epollSet, eventListSize,
                    usePoll, looping, handling, calls, undefined>>
    BY DEF DeleteChannel
  <1>3. /\ Types /\ FdInv /\ StoreInv /\ IndexInv /\ BlankInv /\ BatchInv /\ KernelInv
        /\ fd \in [Channels -> Fds \union {NoFd}] /\ revents \in [Channels -> SUBSET Flags]
        /\ events \in [Channels -> SUBSET Wanted]
        /\ Stored \subseteq Fds /\ channelStore \in [Stored -> Channels]
        /\ activeChannels \in Seq(Channels)
    BY DEF IInv, MapInv, Types, ChanTypeOK
  <1>4. /\ c \in Channels /\ fd[c] \in Fds
        /\ UNCHANGED Stored
        /\ \A g \in Stored : channelStore[g] \in Channels /\ channelStore[g] # c
        /\ \A i \in DOMAIN activeChannels : activeChannels[i] \in Channels
                                            /\ activeChannels[i] \in Batch
    BY <1>2, <1>3, SeqFacts DEF Existing, Registered, Batch, Stored
  <1>5. Types'
    <2>1. ChanTypeOK'
      BY <1>1, <1>2, <1>3, <1>4 DEF Types, ChanTypeOK
    <2>2. ready' \in [Fds -> SUBSET Flags]
      BY <1>1, <1>3, <1>4 DEF Types
    <2>3. dead' \subseteq Pending'
      BY <1>1, <1>2, <1>3 DEF Types, Pending, Batch
    <2> QED BY <2>1, <2>2, <2>3, <1>2, <1>3 DEF Types
  <1>6. FdInv' /\ BlankInv'
    BY <1>1, <1>3, <1>4 DEF FdInv, BlankInv
  <1>7. StoreInv'
    BY <1>1, <1>2, <1>3, <1>4 DEF StoreInv
  <1>8. index[c] = kNew
    BY <1>3, <1>4 DEF IndexInv
  <1>9. IndexInv'
    BY <1>1, <1>2, <1>3, <1>4, <1>8 DEF IndexInv
  <1>10. BatchInv'
    <2>1. ASSUME NEW i \in DOMAIN activeChannels', activeChannels'[i] \notin dead'
          PROVE  fd'[activeChannels'[i]] # NoFd /\ revents'[activeChannels'[i]] # {}
      <3>1. activeChannels[i] # c /\ activeChannels[i] \notin dead
        BY <2>1, <1>1, <1>2, <1>4 DEF Pending
      <3> QED BY <3>1, <2>1, <1>1, <1>2, <1>3, <1>4 DEF BatchInv
    <2>2. /\ calls' # {} => handling' \in Existing' \union dead'
          /\ calls' = {} => handling' = None
          /\ ~looping' => calls' = {}
      <3>1. ASSUME calls # {} PROVE handling \in Existing' \union dead'
        <4>1. CASE handling = c
          BY <4>1, <1>1, <1>4, FdsAssumption DEF Pending, None
        <4>2. CASE handling # c
          BY <4>2, <3>1, <1>1, <1>3 DEF BatchInv, Existing
        <4> QED BY <4>1, <4>2
      <3> QED BY <3>1, <1>2, <1>3 DEF BatchInv
    <2> QED BY <2>1, <2>2, <1>2, <1>3 DEF BatchInv
  <1>11. KernelInv'
    <2>1. \A g \in Stored : events'[channelStore[g]] = events[channelStore[g]]
      BY <1>1, <1>3, <1>4
    <2>2. ASSUME PollInv PROVE PollInv'
      BY <2>1, <2>2, <1>2, <1>4 DEF PollInv
    <2>3. ASSUME EPollInv PROVE EPollInv'
      BY <2>1, <2>3, <1>2, <1>4 DEF EPollInv
    <2> QED BY <2>2, <2>3, <1>2, <1>3 DEF KernelInv
  <1> QED BY <1>5, <1>6, <1>7, <1>9, <1>10, <1>11 DEF IInv, MapInv
-----------------------------------------------------------------------------
(* The loop's steps *)

\* What a poll can find on each descriptor.
LEMMA GotType == Types => Got \in [Fds -> SUBSET Flags]
  BY DEF Types, Got

\* poll() of either kind lists distinct channels that exist and have something
\* reported.
LEMMA PollReportKeeps ==
  ASSUME Types, MapInv, PollInv, NEW got \in [Fds -> SUBSET Flags], PollReport(got)
  PROVE  /\ activeChannels' \in Seq(Registered) /\ activeChannels' # <<>>
         /\ \A i \in DOMAIN activeChannels' : \E f \in Stored :
               /\ channelStore[f] = activeChannels'[i]
               /\ revents'[activeChannels'[i]] = got[f] /\ got[f] # {}
         /\ \A i, j \in DOMAIN activeChannels' :
               activeChannels'[i] = activeChannels'[j] => i = j
         /\ revents' \in [Channels -> SUBSET Flags]
  <1> DEFINE n == Len(pollfdList)
             hits == {i \in DOMAIN pollfdList : got[pollfdList[i].fd] # {}}
             Chan(i) == channelStore[pollfdList[i].fd]
             mine(c) == {i \in hits : Chan(i) = c}
  <1>1. /\ n \in Nat /\ DOMAIN pollfdList = 1 .. n /\ pollfdList \in [1 .. n -> Pollfds]
        /\ Stored \subseteq Fds /\ channelStore \in [Stored -> Channels]
        /\ revents \in [Channels -> SUBSET Flags]
    BY SeqFacts DEF PollInv, Types, ChanTypeOK
  <1>2. /\ hits \subseteq 1 .. n /\ IsFiniteSet(hits)
        /\ Cardinality(hits) \in Nat /\ Cardinality(hits) # 0
    <2>1. hits \subseteq 1 .. n
      BY <1>1
    <2>2. IsFiniteSet(1 .. n)
      BY <1>1, FS_Interval
    <2>3. IsFiniteSet(hits)
      BY <2>1, <2>2, FS_Subset
    <2>4. hits # {}
      BY DEF PollReport
    <2> QED BY <2>1, <2>3, <2>4, FS_CardinalityType, FS_EmptySet
  <1>3. PICK order \in Orders(hits) :
          activeChannels' = [i \in DOMAIN order |-> channelStore[pollfdList[order[i]].fd]]
    BY DEF PollReport
  <1>4. revents' = [c \in Channels |-> IF mine(c) = {} THEN revents[c]
                                       ELSE got[pollfdList[CHOOSE i \in mine(c) : TRUE].fd]]
    BY DEF PollReport
  <1>5. \A i \in 1 .. n : /\ pollfdList[i].fd \in Stored /\ pollfdList[i].fd \in Fds
                          /\ Chan(i) \in Registered /\ Chan(i) \in Channels
                          /\ index[Chan(i)] = i - 1
    BY <1>1 DEF PollInv, Registered
  <1>6. /\ DOMAIN order = 1 .. Cardinality(hits)
        /\ \A i \in DOMAIN order : order[i] \in hits
        /\ \A i, j \in DOMAIN order : order[i] = order[j] => i = j
    BY DEF Orders
  <1>7. activeChannels' \in [1 .. Cardinality(hits) -> Registered]
    BY <1>2, <1>3, <1>5, <1>6
  <1>8. /\ activeChannels' \in Seq(Registered) /\ activeChannels' # <<>>
        /\ DOMAIN activeChannels' = DOMAIN order
    <2>1. /\ activeChannels' \in Seq(Registered)
          /\ Len(activeChannels') = Cardinality(hits)
          /\ DOMAIN activeChannels' = DOMAIN order
      BY <1>2, <1>6, <1>7, FunctionIsSeq
    <2> QED BY <2>1, <1>2, EmptySeq
  <1>9. revents' \in [Channels -> SUBSET Flags]
    <2> SUFFICES ASSUME NEW c \in Channels, mine(c) # {}
                 PROVE  got[pollfdList[CHOOSE i \in mine(c) : TRUE].fd] \in SUBSET Flags
      BY <1>1, <1>4
    <2>1. (CHOOSE i \in mine(c) : TRUE) \in 1 .. n
      BY <1>2, SMTT(30)
    <2> QED BY <2>1, <1>5, SMTT(30)
  <1>10. ASSUME NEW k \in DOMAIN activeChannels'
         PROVE  \E f \in Stored : /\ channelStore[f] = activeChannels'[k]
                                   /\ revents'[activeChannels'[k]] = got[f] /\ got[f] # {}
    <2> DEFINE c == Chan(order[k])
               j == CHOOSE i \in mine(c) : TRUE
    <2>1. activeChannels'[k] = c /\ order[k] \in mine(c) /\ c \in Channels
      BY <1>2, <1>3, <1>5, <1>6, <1>8
    <2>2. j \in hits /\ Chan(j) = c
      BY <2>1
    <2>3. revents'[c] = got[pollfdList[j].fd]
      BY <2>1, <1>4
    <2> QED BY <2>1, <2>2, <2>3, <1>2, <1>5
  <1>11. ASSUME NEW i \in DOMAIN activeChannels', NEW j \in DOMAIN activeChannels',
                activeChannels'[i] = activeChannels'[j]
         PROVE  i = j
    <2>1. Chan(order[i]) = Chan(order[j]) /\ order[i] \in 1 .. n /\ order[j] \in 1 .. n
      BY <1>2, <1>3, <1>6, <1>8, <1>11
    <2>2. order[i] = order[j]
      BY <2>1, <1>1, <1>5
    <2> QED BY <2>2, <1>6, <1>8
  <1> QED BY <1>8, <1>9, <1>10, <1>11

\* EPollPoller::poll and fill_active_channels.
LEMMA EPollReportKeeps ==
  ASSUME Types, MapInv, EPollInv, NEW got \in [Fds -> SUBSET Flags], EPollReport(got)
  PROVE  /\ activeChannels' \in Seq(Registered) /\ activeChannels' # <<>>
         /\ \A i \in DOMAIN activeChannels' : \E f \in Stored :
               /\ channelStore[f] = activeChannels'[i]
               /\ revents'[activeChannels'[i]] = got[f] /\ got[f] # {}
         /\ \A i, j \in DOMAIN activeChannels' :
               activeChannels'[i] = activeChannels'[j] => i = j
         /\ revents' \in [Channels -> SUBSET Flags]
         /\ eventListSize' \in Nat \ {0}
  <1> DEFINE hits == {f \in DOMAIN epollSet : got[f] # {}}
  <1>1. /\ DOMAIN epollSet = Stored /\ Stored \subseteq Fds /\ IsFiniteSet(Stored)
        /\ channelStore \in [Stored -> Channels]
        /\ \A f \in Stored : epollSet[f].ptr = channelStore[f] /\ fd[channelStore[f]] = f
        /\ revents \in [Channels -> SUBSET Flags] /\ eventListSize \in Nat \ {0}
    <2>1. Stored \subseteq Fds
      BY DEF Types, ChanTypeOK
    <2>2. IsFiniteSet(Stored)
      BY <2>1, FdsAssumption, FS_Subset
    <2> QED BY <2>1, <2>2 DEF EPollInv, MapInv, StoreInv, Types, ChanTypeOK
  <1>2. PICK S \in SUBSET hits :
          /\ Cardinality(S) > 0
          /\ \E order \in Orders(S) :
                activeChannels' = [i \in DOMAIN order |-> epollSet[order[i]].ptr]
          /\ revents' = [c \in Channels |->
                LET mine == {f \in S : epollSet[f].ptr = c}
                IN  IF mine = {} THEN revents[c] ELSE got[CHOOSE f \in mine : TRUE]]
    <2> DEFINE n == IF Cardinality(hits) < eventListSize THEN Cardinality(hits)
                    ELSE eventListSize
    <2>1. n > 0 /\ \E T \in {T \in SUBSET hits : Cardinality(T) = n} :
             /\ \E order \in Orders(T) :
                   activeChannels' = [i \in DOMAIN order |-> epollSet[order[i]].ptr]
             /\ revents' = [c \in Channels |->
                   LET mine == {f \in T : epollSet[f].ptr = c}
                   IN  IF mine = {} THEN revents[c] ELSE got[CHOOSE f \in mine : TRUE]]
      BY DEF EPollReport
    <2> HIDE DEF n, hits
    <2>2. PICK T \in {T \in SUBSET hits : Cardinality(T) = n} :
             /\ \E order \in Orders(T) :
                   activeChannels' = [i \in DOMAIN order |-> epollSet[order[i]].ptr]
             /\ revents' = [c \in Channels |->
                   LET mine == {f \in T : epollSet[f].ptr = c}
                   IN  IF mine = {} THEN revents[c] ELSE got[CHOOSE f \in mine : TRUE]]
      BY <2>1, Zenon
    <2>3. T \in SUBSET hits /\ Cardinality(T) > 0
      BY <2>1, <2>2
    <2> QED BY <2>2, <2>3, Zenon
  <1>3. PICK order \in Orders(S) :
          activeChannels' = [i \in DOMAIN order |-> epollSet[order[i]].ptr]
    BY <1>2
  <1>4. S \subseteq Stored /\ IsFiniteSet(S) /\ Cardinality(S) \in Nat
    <2>1. S \subseteq Stored
      BY <1>1
    <2>2. IsFiniteSet(S)
      BY <1>1, <2>1, FS_Subset
    <2> QED BY <2>1, <2>2, FS_CardinalityType
  <1> DEFINE mine(c) == {f \in S : epollSet[f].ptr = c}
  <1>5. revents' = [c \in Channels |-> IF mine(c) = {} THEN revents[c]
                                       ELSE got[CHOOSE f \in mine(c) : TRUE]]
    BY <1>2
  <1>6. \A f \in S : /\ channelStore[f] \in Registered /\ channelStore[f] \in Channels
                     /\ epollSet[f].ptr = channelStore[f] /\ f \in Fds
    BY <1>1, <1>4 DEF Registered
  <1>7. /\ DOMAIN order = 1 .. Cardinality(S)
        /\ \A i \in DOMAIN order : order[i] \in S
        /\ \A i, j \in DOMAIN order : order[i] = order[j] => i = j
    BY DEF Orders
  <1>8. activeChannels' \in [1 .. Cardinality(S) -> Registered]
    BY <1>3, <1>6, <1>7
  <1>9. /\ activeChannels' \in Seq(Registered) /\ activeChannels' # <<>>
        /\ DOMAIN activeChannels' = DOMAIN order
    <2>1. /\ activeChannels' \in Seq(Registered)
          /\ Len(activeChannels') = Cardinality(S)
          /\ DOMAIN activeChannels' = DOMAIN order
      BY <1>4, <1>7, <1>8, FunctionIsSeq
    <2> QED BY <2>1, <1>2, EmptySeq
  <1>10. revents' \in [Channels -> SUBSET Flags]
    <2> SUFFICES ASSUME NEW c \in Channels, mine(c) # {}
                 PROVE  got[CHOOSE f \in mine(c) : TRUE] \in SUBSET Flags
      BY <1>1, <1>5
    <2>1. (CHOOSE f \in mine(c) : TRUE) \in S
      OBVIOUS
    <2> QED BY <2>1, <1>6
  <1>11. ASSUME NEW k \in DOMAIN activeChannels'
         PROVE  \E f \in Stored : /\ channelStore[f] = activeChannels'[k]
                                   /\ revents'[activeChannels'[k]] = got[f] /\ got[f] # {}
    <2> DEFINE c == epollSet[order[k]].ptr
               g == CHOOSE f \in mine(c) : TRUE
    <2>1. activeChannels'[k] = c /\ order[k] \in mine(c) /\ c \in Channels
      BY <1>3, <1>6, <1>7, <1>9
    <2>2. g \in S /\ epollSet[g].ptr = c /\ got[g] # {}
      BY <2>1
    <2>3. revents'[c] = got[g]
      BY <2>1, <1>5
    <2> QED BY <2>1, <2>2, <2>3, <1>4, <1>6
  <1>12. ASSUME NEW i \in DOMAIN activeChannels', NEW j \in DOMAIN activeChannels',
                activeChannels'[i] = activeChannels'[j]
         PROVE  i = j
    <2>1. channelStore[order[i]] = channelStore[order[j]] /\ order[i] \in S /\ order[j] \in S
      BY <1>3, <1>6, <1>7, <1>9, <1>12
    <2>2. order[i] = order[j]
      BY <2>1, <1>1, <1>4
    <2> QED BY <2>2, <1>7, <1>9
  <1>13. eventListSize' \in Nat \ {0}
    <2>1. eventListSize' = eventListSize \/ eventListSize' = 2 * eventListSize
      BY DEF EPollReport, SizeAfter, DoubleWhenFull
    <2> QED BY <2>1, <1>1
  <1> QED BY <1>9, <1>10, <1>11, <1>12, <1>13

\* Between two batches the loop points to no channel.
LEMMA NothingPending ==
  ASSUME BatchInv, calls = {}, activeChannels = <<>>
  PROVE  Pending = {}
  BY DEF BatchInv, Pending, Batch

\* poll() of either class.
LEMMA PollStep == IInv /\ Poll => IInv'
  <1> SUFFICES ASSUME IInv, Poll PROVE IInv'
    OBVIOUS
  <1>1. UNCHANGED <<fd, events, index, channelStore, pollfdList, epollSet,
                    usePoll, looping, handling, calls, dead, undefined, ready>>
    BY DEF Poll, loopVars
  <1>2. /\ Types /\ FdInv /\ MapInv /\ BlankInv /\ BatchInv /\ KernelInv
        /\ looping /\ calls = {} /\ activeChannels = <<>>
    BY DEF IInv, Poll, AtPoll, InLoop
  <1>3. /\ activeChannels' \in Seq(Registered)
        /\ \A i \in DOMAIN activeChannels' : revents'[activeChannels'[i]] # {}
        /\ \A i, j \in DOMAIN activeChannels' :
              activeChannels'[i] = activeChannels'[j] => i = j
        /\ revents' \in [Channels -> SUBSET Flags]
        /\ eventListSize' \in Nat \ {0}
    <2>1. CASE usePoll
      <3>1. PollInv /\ PollReport(Got) /\ UNCHANGED eventListSize
        BY <2>1, <1>2 DEF KernelInv, Poll
      <3> QED BY <3>1, <1>2, GotType, PollReportKeeps DEF Types
    <2>2. CASE ~usePoll
      <3>1. EPollInv /\ EPollReport(Got)
        BY <2>2, <1>2 DEF KernelInv, Poll
      <3> QED BY <3>1, <1>2, GotType, EPollReportKeeps
    <2> QED BY <2>1, <2>2
  <1>4. Registered \subseteq Channels /\ \A c \in Registered : fd[c] # NoFd
    BY <1>2, FdsAssumption DEF Registered, MapInv, StoreInv, Types, ChanTypeOK
  <1>5. activeChannels' \in Seq(Channels)
        /\ \A i \in DOMAIN activeChannels' : activeChannels'[i] \in Registered
    <2>1. \A i \in DOMAIN activeChannels' : activeChannels'[i] \in Registered
      BY <1>3, SeqFacts
    <2>2. activeChannels' \in [1 .. Len(activeChannels') -> Channels]
          /\ Len(activeChannels') \in Nat
      BY <2>1, <1>3, <1>4, SeqFacts
    <2> QED BY <2>1, <2>2, FunctionIsSeq
  <1>6. Types'
    <2>1. ChanTypeOK'
      BY <1>1, <1>2, <1>3, <1>5 DEF Types, ChanTypeOK, Stored
    <2>2. dead' = {}
      BY <1>1, <1>2, NothingPending DEF Types
    <2> QED BY <2>1, <2>2, <1>1, <1>2, <1>3 DEF Types
  <1>7. BatchInv'
    <2>1. \A i \in DOMAIN activeChannels' : activeChannels'[i] # handling'
      BY <1>1, <1>2, <1>4, <1>5, FdsAssumption DEF BatchInv, None
    <2> QED BY <2>1, <1>1, <1>2, <1>3, <1>4, <1>5 DEF BatchInv, Existing
  <1>8. FdInv' /\ BlankInv' /\ MapInv' /\ KernelInv'
    BY <1>1, <1>2, FrameMap DEF FdInv, BlankInv
  <1> QED BY <1>6, <1>7, <1>8 DEF IInv

\* A step into undefined behaviour changes nothing else.
LEMMA UndefinedStep == IInv /\ Undefined => IInv'
  <1> SUFFICES ASSUME IInv, Undefined PROVE IInv'
    OBVIOUS
  <1>1. undefined' = TRUE
        /\ UNCHANGED <<pollerBooks, usePoll, looping, handling, calls, dead, ready>>
    BY DEF Undefined
  <1>2. MapInv' /\ KernelInv'
    BY <1>1, FrameMap DEF IInv, pollerBooks, chanVars
  <1>3. Types'
    BY <1>1 DEF IInv, pollerBooks, chanVars, Types, ChanTypeOK, Stored, Pending, Batch
  <1> QED BY <1>1, <1>2, <1>3 DEF IInv, pollerBooks, chanVars, FdInv, BlankInv, BatchInv, Existing

\* The loop takes the next channel of the batch, which exists.
LEMMA HandleEventStep ==
  ASSUME IInv, InLoop, activeChannels # <<>>, Head(activeChannels) \notin dead,
         HandleEvent(Head(activeChannels))
  PROVE  IInv'
  <1> DEFINE h == Head(activeChannels)
             n == Len(activeChannels)
  <1>1. /\ UNCHANGED <<fd, events, index, channelStore, pollfdList, epollSet,
                       eventListSize, usePoll, looping, dead, undefined, ready>>
        /\ handling' = h /\ calls' = revents[h] /\ activeChannels' = Tail(activeChannels)
        /\ revents' = [revents EXCEPT ![h] = {}]
        /\ looping /\ calls = {} /\ activeChannels # <<>> /\ h \notin dead
    BY DEF HandleEvent, InLoop
  <1>2. /\ Types /\ FdInv /\ MapInv /\ BlankInv /\ BatchInv /\ KernelInv
        /\ activeChannels \in Seq(Channels) /\ revents \in [Channels -> SUBSET Flags]
    BY DEF IInv, Types, ChanTypeOK
  <1>3. /\ n \in Nat \ {0} /\ DOMAIN activeChannels = 1 .. n
        /\ activeChannels \in [1 .. n -> Channels]
        /\ h = activeChannels[1] /\ h \in Channels
        /\ activeChannels' \in Seq(Channels)
        /\ DOMAIN activeChannels' = 1 .. n - 1
        /\ \A i \in 1 .. n - 1 : activeChannels'[i] = activeChannels[i + 1]
    <2>1. n \in Nat \ {0} /\ DOMAIN activeChannels = 1 .. n
          /\ activeChannels \in [1 .. n -> Channels]
      BY <1>1, <1>2, SeqFacts, EmptySeq
    <2>2. activeChannels' \in Seq(Channels) /\ Len(activeChannels') = n - 1
      BY <1>1, <1>2, <2>1
    <2>3. DOMAIN activeChannels' = 1 .. n - 1
      BY <2>2, SeqFacts
    <2>4. \A i \in 1 .. n - 1 : activeChannels'[i] = activeChannels[i + 1]
      BY <1>1, <1>2, <2>1
    <2>5. h = activeChannels[1] /\ h \in Channels
      BY <1>1, <1>2, <2>1
    <2> QED BY <2>1, <2>2, <2>3, <2>4, <2>5
  <1>4. \A i \in 1 .. n - 1 : /\ activeChannels'[i] \in Channels /\ activeChannels'[i] # h
                              /\ activeChannels'[i] \notin dead =>
                                    /\ fd[activeChannels'[i]] # NoFd
                                    /\ revents[activeChannels'[i]] # {}
    BY <1>2, <1>3, SMTT(30) DEF BatchInv
  <1>5. fd[h] # NoFd /\ revents[h] # {} /\ revents[h] \subseteq Flags
    BY <1>1, <1>2, <1>3 DEF BatchInv
  <1>6. Types'
    <2>1. ChanTypeOK'
      BY <1>1, <1>2, <1>3 DEF Types, ChanTypeOK, Stored
    <2>2. ASSUME NEW d \in dead PROVE d \in Batch'
      <3>1. handling = None /\ d \in Batch /\ d # h
        BY <1>1, <1>2 DEF BatchInv, Types, Pending
      <3>2. PICK i \in 1 .. n : d = activeChannels[i]
        BY <3>1, <1>3 DEF Batch
      <3>3. i - 1 \in 1 .. n - 1 /\ (i - 1) + 1 = i
        BY <3>1, <3>2, <1>3
      <3>4. activeChannels'[i - 1] = d
        BY <3>2, <3>3, <1>3
      <3> QED BY <3>3, <3>4, <1>3 DEF Batch
    <2>3. dead' \subseteq Pending'
      BY <2>2, <1>1 DEF Pending
    <2> QED BY <2>1, <2>3, <1>1, <1>2, <1>3, <1>5 DEF Types
  <1>7. BatchInv'
    <2>1. \A i \in DOMAIN activeChannels' : activeChannels'[i] \notin dead' =>
             fd'[activeChannels'[i]] # NoFd /\ revents'[activeChannels'[i]] # {}
      BY <1>1, <1>2, <1>3, <1>4
    <2>2. ASSUME NEW i \in 1 .. n - 1, NEW j \in 1 .. n - 1,
                 activeChannels'[i] = activeChannels'[j]
          PROVE  i = j
      <3>1. i + 1 \in 1 .. n /\ j + 1 \in 1 .. n
        BY <1>3
      <3>2. activeChannels[i + 1] = activeChannels[j + 1]
        BY <2>2, <1>3
      <3>3. i + 1 = j + 1
        BY <3>1, <3>2, <1>2, <1>3 DEF BatchInv
      <3> QED BY <3>3, <1>3
    <2>3. handling' \in Existing' /\ calls' # {}
      BY <1>1, <1>3, <1>5 DEF Existing
    <2>4. \A i \in DOMAIN activeChannels' : activeChannels'[i] # handling'
      BY <1>1, <1>3, <1>4
    <2> QED BY <2>1, <2>2, <2>3, <2>4, <1>1, <1>3 DEF BatchInv
  <1>8. FdInv' /\ BlankInv' /\ MapInv' /\ KernelInv'
    BY <1>1, <1>2, FrameMap DEF FdInv, BlankInv
  <1> QED BY <1>6, <1>7, <1>8 DEF IInv

\* The next step of the loop, whether its channel exists or not.
LEMMA DispatchStep == IInv /\ Dispatch => IInv'
  BY UndefinedStep, HandleEventStep DEF Dispatch

\* A callback returns to a channel that exists.
LEMMA ReturnToLivingStep == IInv /\ calls # {} /\ ReturnToLiving => IInv'
  <1> SUFFICES ASSUME IInv, calls # {}, ReturnToLiving PROVE IInv'
    OBVIOUS
  <1>1. /\ UNCHANGED <<pollerBooks, usePoll, looping, dead, undefined>>
        /\ calls' = calls \ {NextCall} /\ handling \notin dead
        /\ handling' = IF calls = {NextCall} THEN None ELSE handling
        /\ ready' \in {ready, [ready EXCEPT ![fd[handling]] = @ \ {NextCall}]}
    BY DEF ReturnToLiving
  <1>2. Types /\ FdInv /\ MapInv /\ BlankInv /\ BatchInv /\ KernelInv
    BY DEF IInv
  <1>3. NextCall \in calls
    <2>1. calls \subseteq {"read", "write", "error"}
      BY <1>2, WantedAssumption DEF Types, Flags
    <2> QED BY <2>1 DEF NextCall
  <1>4. Types'
    <2>1. ChanTypeOK'
      BY <1>1, <1>2 DEF pollerBooks, chanVars, Types, ChanTypeOK, Stored
    <2>2. handling \in Channels /\ fd[handling] \in Fds
      BY <1>1, <1>2 DEF BatchInv, Existing, Types, ChanTypeOK
    <2>3. ready' \in [Fds -> SUBSET Flags]
      BY <1>1, <1>2, <2>2 DEF Types
    <2>4. handling' \in Channels \union {None} /\ calls' \subseteq Flags
      BY <1>1, <1>2 DEF Types
    <2>5. dead' \subseteq Pending'
      <3>1. dead \subseteq Batch
        BY <1>1, <1>2 DEF Types, Pending
      <3> QED BY <3>1, <1>1 DEF Pending, Batch, pollerBooks, chanVars
    <2> QED BY <2>1, <2>3, <2>4, <2>5, <1>1, <1>2 DEF Types, pollerBooks, chanVars
  <1>5. BatchInv'
    <2>1. UNCHANGED <<fd, revents, activeChannels, dead, looping>>
      BY <1>1 DEF pollerBooks, chanVars
    <2>2. \A i \in DOMAIN activeChannels : activeChannels[i] # handling'
      <3>1. \A i \in DOMAIN activeChannels : activeChannels[i] \in Channels
        BY <1>2, SeqFacts DEF Types, ChanTypeOK
      <3> QED BY <3>1, <1>1, <1>2, FdsAssumption DEF BatchInv, None
    <2>3. /\ calls' # {} => handling' \in Existing' \union dead'
          /\ calls' = {} => handling' = None
          /\ ~looping' => calls' = {}
      BY <2>1, <1>1, <1>2, <1>3 DEF BatchInv, Existing
    <2> QED BY <2>1, <2>2, <2>3, <1>2 DEF BatchInv
  <1>6. FdInv' /\ BlankInv' /\ MapInv' /\ KernelInv'
    BY <1>1, <1>2, FrameMap DEF FdInv, BlankInv, pollerBooks, chanVars
  <1> QED BY <1>4, <1>5, <1>6 DEF IInv

\* The close callback of a deleted channel returns: the loop lets go of it.
LEMMA ReturnToDeadStep == IInv /\ ReturnToDead => IInv'
  <1> SUFFICES ASSUME IInv, ReturnToDead, ~Undefined PROVE IInv'
    BY UndefinedStep
  <1>1. /\ UNCHANGED <<pollerBooks, usePoll, looping, undefined, ready>>
        /\ calls' = {} /\ handling' = None /\ dead' = dead \ {handling}
        /\ handling \in dead /\ calls = {"error"}
    BY DEF ReturnToDead
  <1>2. Types /\ FdInv /\ MapInv /\ BlankInv /\ BatchInv /\ KernelInv
        /\ \A i \in DOMAIN activeChannels : activeChannels[i] \in Channels
    BY SeqFacts DEF IInv, Types, ChanTypeOK
  <1>3. Types'
    <2>1. ChanTypeOK'
      BY <1>1, <1>2 DEF pollerBooks, chanVars, Types, ChanTypeOK, Stored
    <2>2. dead' \subseteq Pending'
      BY <1>1, <1>2 DEF Types, Pending, Batch, pollerBooks, chanVars
    <2> QED BY <2>1, <2>2, <1>1, <1>2 DEF Types, pollerBooks, chanVars
  <1>4. BatchInv'
    BY <1>1, <1>2, FdsAssumption DEF BatchInv, pollerBooks, chanVars, None
  <1>5. FdInv' /\ BlankInv' /\ MapInv' /\ KernelInv'
    BY <1>1, <1>2, FrameMap DEF FdInv, BlankInv, pollerBooks, chanVars
  <1> QED BY <1>3, <1>4, <1>5 DEF IInv
-----------------------------------------------------------------------------
LEMMA NextIInv == IInv /\ [Next]_vars => IInv'
  <1> SUFFICES ASSUME IInv, [Next]_vars PROVE IInv'
    OBVIOUS
  <1>1. CASE NewChannel
    BY <1>1, NewChannelStep
  <1>2. CASE SetInterest
    BY <1>2, SetInterestStep
  <1>3. CASE RemoveChannel
    BY <1>3, RemoveChannelStep
  <1>4. CASE DeleteChannel
    BY <1>4, DeleteChannelStep
  <1>5. CASE EnterLoop
    <2>1. UNCHANGED <<pollerBooks, usePoll, handling, calls, dead, undefined, ready>>
          /\ looping' = TRUE
      BY <1>5 DEF EnterLoop
    <2>2. MapInv' /\ KernelInv'
      BY <2>1, FrameMap DEF IInv, pollerBooks, chanVars
    <2>3. Types'
      BY <2>1 DEF IInv, pollerBooks, chanVars, Types, ChanTypeOK, Stored, Pending, Batch
    <2> QED BY <2>1, <2>2, <2>3 DEF IInv, pollerBooks, chanVars, FdInv, BlankInv, BatchInv, Existing
  <1>6. CASE Poll
    BY <1>6, PollStep
  <1>7. CASE PollNothing \/ UNCHANGED vars
    <2>1. UNCHANGED vars
      BY <1>7 DEF PollNothing, AtPoll, vars, pollerBooks, chanVars
    <2>2. MapInv' /\ KernelInv'
      BY <2>1, FrameMap DEF IInv, vars, pollerBooks, chanVars, loopVars
    <2> QED BY <2>1, <2>2 DEF IInv, vars, pollerBooks, chanVars, loopVars, Types, ChanTypeOK,
                              Stored, Pending, Batch, FdInv, BlankInv, BatchInv, Existing
  <1>8. CASE Dispatch
    BY <1>8, DispatchStep
  <1>9. CASE Return
    BY <1>9, ReturnToLivingStep, ReturnToDeadStep DEF Return
  <1>10. CASE Happens
    <2>1. /\ UNCHANGED <<pollerBooks, loopVars>>
          /\ \E c \in Existing, e \in Flags : ready' = [ready EXCEPT ![fd[c]] = @ \union {e}]
      BY <1>10 DEF Happens
    <2>2. MapInv' /\ KernelInv'
      BY <2>1, FrameMap DEF IInv, pollerBooks, chanVars, loopVars
    <2>3. Types'
      BY <2>1 DEF IInv, pollerBooks, chanVars, loopVars, Types, ChanTypeOK, Stored, Existing,
                  Pending, Batch
    <2> QED BY <2>1, <2>2, <2>3 DEF IInv, pollerBooks, chanVars, loopVars, FdInv, BlankInv,
                                    BatchInv, Existing
  <1>11. CASE SystemCallFails
    BY <1>11, UndefinedStep DEF SystemCallFails
  <1> QED BY <1>1, <1>2, <1>3, <1>4, <1>5, <1>6, <1>7, <1>8, <1>9, <1>10, <1>11 DEF Next

\* The inductive invariant holds in every reachable state.
THEOREM PollerInvariance == Spec => []IInv
  <1> QED BY InitIInv, NextIInv, PTL DEF Spec
-----------------------------------------------------------------------------
\* The types of the loop, of the shared members and of the poller in use: in
\* PollPoller an index is always within the array, however it was reordered.
THEOREM PollerTypes == Spec => []TypeOK
  <1>1. IInv => TypeOK
    <2> SUFFICES ASSUME IInv PROVE TypeOK
      OBVIOUS
    <2>1. /\ ChanTypeOK /\ usePoll \in BOOLEAN /\ looping \in BOOLEAN
          /\ handling \in Channels \union {None} /\ calls \subseteq Flags
          /\ dead \subseteq Pending /\ undefined \in BOOLEAN
          /\ ready \in [Fds -> SUBSET Flags]
      BY DEF IInv, Types
    <2>2. ASSUME usePoll PROVE PollTypeOK
      <3>1. PollInv /\ IndexInv /\ index \in [Channels -> Int]
        BY <2>2 DEF IInv, KernelInv, MapInv, Types
      <3>2. Len(pollfdList) \in Nat
        BY <3>1, SeqFacts DEF PollInv
      <3>3. ASSUME NEW c \in Channels PROVE index[c] \in -1 .. Len(pollfdList) - 1
        BY <3>1, <3>2 DEF PollInv, IndexInv, kNew
      <3> QED BY <3>1, <3>3 DEF PollTypeOK, PollInv, Pollfds
    <2>3. ASSUME ~usePoll PROVE EPollTypeOK
      <3>1. EPollInv /\ Types
        BY <2>3 DEF IInv, KernelInv
      <3> QED BY <3>1 DEF EPollTypeOK, EPollInv, Types, ChanTypeOK
    <2> QED BY <2>1, <2>2, <2>3 DEF TypeOK
  <1> QED BY <1>1, PollerInvariance, PTL

\* No assert of update_channel, remove_channel or fill_active_channels can
\* fail, with any number of channels: an index is the place of its own entry.
THEOREM AssertsNeverFail == Spec => []AssertsHold
  <1>1. IInv => AssertsHold
    <2> SUFFICES ASSUME IInv PROVE AssertsHold
      OBVIOUS
    <2>1. /\ FdInv /\ StoreInv /\ IndexInv /\ KernelInv /\ index \in [Channels -> Int]
          /\ Stored \subseteq Fds /\ channelStore \in [Stored -> Channels]
      BY DEF IInv, MapInv, Types, ChanTypeOK
    <2>2. ASSUME usePoll PROVE PollAsserts
      <3> SUFFICES ASSUME NEW c \in Existing, index[c] >= 0
                   PROVE  index[c] < Len(pollfdList) /\ pollfdList[index[c] + 1].fd = fd[c]
        BY DEF PollAsserts
      <3>1. c \in Channels /\ index[c] # kNew
        BY DEF Existing, kNew
      <3>2. fd[c] \in Stored /\ channelStore[fd[c]] = c
        BY <3>1, <2>1 DEF IndexInv
      <3>3. PollInv /\ Len(pollfdList) \in Nat
        BY <2>1, <2>2, SeqFacts DEF KernelInv, PollInv
      <3>4. index[c] \in 0 .. Len(pollfdList) - 1 /\ pollfdList[index[c] + 1].fd = fd[c]
        BY <3>2, <3>3 DEF PollInv
      <3> QED BY <3>3, <3>4
    <2>3. ASSUME ~usePoll PROVE EPollAsserts
      BY <2>1, <2>3 DEF KernelInv, EPollInv, StoreInv, EPollAsserts
    <2>4. ASSUME NEW c \in Existing
          PROVE  IF index[c] = kNew THEN fd[c] \notin Stored
                 ELSE fd[c] \in Stored /\ channelStore[fd[c]] = c
      <3>1. c \in Channels /\ fd[c] # NoFd
        BY DEF Existing
      <3>2. CASE index[c] = kNew
        <4> SUFFICES ASSUME fd[c] \in Stored PROVE FALSE
          BY <3>2
        <4>1. channelStore[fd[c]] \in Channels /\ fd[channelStore[fd[c]]] = fd[c]
              /\ index[channelStore[fd[c]]] # kNew
          BY <2>1 DEF StoreInv
        <4>2. channelStore[fd[c]] = c
          BY <4>1, <3>1, <2>1 DEF FdInv
        <4> QED BY <4>1, <4>2, <3>2
      <3>3. CASE index[c] # kNew
        BY <3>1, <3>3, <2>1 DEF IndexInv
      <3> QED BY <3>2, <3>3
    <2> QED BY <2>2, <2>3, <2>4 DEF AssertsHold
  <1> QED BY <1>1, PollerInvariance, PTL

\* The kernel watches what the program asked for, neither more nor less.
THEOREM KernelKnowsInterest == Spec => []KernelSeesInterest
  <1>1. IInv => KernelSeesInterest
    <2> SUFFICES ASSUME IInv PROVE KernelSeesInterest
      OBVIOUS
    <2>1. KernelInv
      BY DEF IInv
    <2>2. CASE usePoll
      <3>1. PollInv
        BY <2>1, <2>2 DEF KernelInv
      <3>2. Len(pollfdList) \in Nat /\ DOMAIN pollfdList = 1 .. Len(pollfdList)
        BY <3>1, SeqFacts DEF PollInv
      <3>3. {pollfdList[i].fd : i \in DOMAIN pollfdList} = Stored
        <4>1. ASSUME NEW f \in Stored
              PROVE  \E i \in DOMAIN pollfdList : pollfdList[i].fd = f
          <5>1. index[channelStore[f]] + 1 \in DOMAIN pollfdList
            BY <3>1, <3>2 DEF PollInv
          <5> QED BY <5>1, <3>1 DEF PollInv
        <4> QED BY <4>1, <3>1 DEF PollInv
      <3>4. ASSUME NEW f \in Stored
            PROVE  pollfdList[CHOOSE j \in DOMAIN pollfdList : pollfdList[j].fd = f].events
                     = events[channelStore[f]]
        <4> DEFINE j == CHOOSE j \in DOMAIN pollfdList : pollfdList[j].fd = f
        <4>1. j \in DOMAIN pollfdList /\ pollfdList[j].fd = f
          BY <3>3
        <4> QED BY <4>1, <3>1 DEF PollInv
      <3>5. PollWatches = [f \in Stored |-> events[channelStore[f]]]
        BY <3>3, <3>4 DEF PollWatches
      <3> QED BY <2>2, <3>5 DEF KernelSeesInterest, Watches
    <2>3. CASE ~usePoll
      <3>1. EPollInv
        BY <2>1, <2>3 DEF KernelInv
      <3>2. EPollWatches = [f \in Stored |-> events[channelStore[f]]]
        BY <3>1 DEF EPollWatches, EPollInv
      <3> QED BY <2>3, <3>2 DEF KernelSeesInterest, Watches
    <2> QED BY <2>2, <2>3
  <1> QED BY <1>1, PollerInvariance, PTL

\* With any number of channels, poll() returns only pointers to objects: the
\* program has to delete a channel inside the batch for the loop to read one
\* that is gone.
THEOREM BatchIsAlive == Spec => []NoDanglingChannel
  <1>1. IInv => NoDanglingChannel
    <2> SUFFICES ASSUME IInv PROVE NoDanglingChannel
      OBVIOUS
    <2>1. BatchInv /\ StoreInv /\ activeChannels \in Seq(Channels)
      BY DEF IInv, MapInv, Types, ChanTypeOK
    <2>2. \A i \in DOMAIN activeChannels : activeChannels[i] \in Channels
      BY <2>1, SeqFacts
    <2>3. Batch \subseteq Existing \union dead
      BY <2>1, <2>2 DEF Batch, Existing, BatchInv
    <2>4. handling # None => handling \in Existing \union dead
      BY <2>1 DEF BatchInv
    <2> QED BY <2>1, <2>3, <2>4 DEF NoDanglingChannel, Pending, StoreInv
  <1> QED BY <1>1, PollerInvariance, PTL
-----------------------------------------------------------------------------
(* Both pollers implement Poller *)

Interest == [c \in Registered |-> events[c]]
Told == [c \in Batch \ dead |-> revents[c]]

\* The batch and the registered channels are channels.
LEMMA BatchType == IInv => Batch \subseteq Channels /\ Registered \subseteq Channels
  BY SeqFacts DEF IInv, Types, ChanTypeOK, Batch, Registered

\* update_channel registers its channel with its interest, and no other.
LEMMA UpdateRegisters ==
  ASSUME IInv, NEW c \in Existing, NEW ev, Update(c, ev)
  PROVE  Registered' = Registered \union {c}
  <1>1. /\ FdInv /\ StoreInv /\ IndexInv /\ c \in Channels /\ fd[c] # NoFd
        /\ channelStore \in [Stored -> Channels]
    BY DEF IInv, MapInv, Types, ChanTypeOK, Existing
  <1>2. CASE channelStore' = StoreInsert(fd[c], c)
    <2>1. /\ Stored' = Stored \union {fd[c]}
          /\ \A g \in Stored' : channelStore'[g] = IF g = fd[c] THEN c ELSE channelStore[g]
      BY <1>2 DEF StoreInsert, Stored
    <2>2. fd[c] \in Stored => channelStore[fd[c]] = c
      BY <1>1 DEF FdInv, StoreInv
    <2> QED BY <2>1, <2>2 DEF Registered
  <1>3. CASE UNCHANGED channelStore /\ index[c] # kNew
    <2>1. c \in Registered
      BY <1>1, <1>3 DEF IndexInv, Registered
    <2> QED BY <2>1, <1>3 DEF Registered, Stored
  <1>4. \/ channelStore' = StoreInsert(fd[c], c)
        \/ UNCHANGED channelStore /\ index[c] # kNew
    BY DEF Update, PollUpdate, PollAdd, PollModify, EPollUpdate, EPollAdd, EPollModify, kNew
  <1> QED BY <1>2, <1>3, <1>4

\* remove_channel unregisters its channel, and no other.
LEMMA RemoveUnregisters ==
  ASSUME IInv, NEW c \in Registered, Remove(c)
  PROVE  Registered' = Registered \ {c}
  <1>1. StoreInv /\ channelStore \in [Stored -> Channels]
    BY DEF IInv, MapInv, Types, ChanTypeOK
  <1>2. channelStore' = StoreErase(fd[c])
    BY DEF Remove, PollRemove, EPollRemove
  <1>3. /\ Stored' = Stored \ {fd[c]}
        /\ \A g \in Stored' : channelStore'[g] = channelStore[g]
    BY <1>2 DEF StoreErase, Stored
  <1>4. fd[c] \in Stored /\ channelStore[fd[c]] = c
    BY <1>1 DEF StoreInv, Registered
  <1>5. \A g \in Stored : channelStore[g] = c => g = fd[c]
    BY <1>1 DEF StoreInv
  <1> QED BY <1>3, <1>4, <1>5 DEF Registered

\* The empty poller is an empty abstract one.
LEMMA InitRefines == Init => UsesPoller!Init
  <1> SUFFICES ASSUME Init PROVE UsesPoller!Init
    OBVIOUS
  <1>1. channelStore = <<>> /\ activeChannels = <<>> /\ DOMAIN activeChannels = {}
        /\ DOMAIN channelStore = {}
    BY DEF Init, ChanInit
  <1>2. Registered = {} /\ Batch = {}
    BY <1>1 DEF Registered, Stored, Batch
  <1>3. Interest = <<>> /\ Told = <<>>
    BY <1>2 DEF Interest, Told
  <1> QED BY <1>3 DEF UsesPoller!Init, Interest, Told

\* An update is an Ask.
LEMMA SetInterestRefines ==
  ASSUME IInv, SetInterest
  PROVE  \E c \in Channels, ev \in SUBSET Wanted : UsesPoller!Ask(c, ev)
  <1>0. PICK c \in Existing, e \in Wanted : \E ev \in {Enable(c, e), Disable(c, e)} :
           events' = [events EXCEPT ![c] = ev] /\ Update(c, ev)
    BY DEF SetInterest
  <1>1. PICK ev \in {Enable(c, e), Disable(c, e)} :
           events' = [events EXCEPT ![c] = ev] /\ Update(c, ev)
    BY <1>0
  <1>2. /\ c \in Channels /\ events \in [Channels -> SUBSET Wanted] /\ ev \in SUBSET Wanted
        /\ UNCHANGED <<revents, activeChannels, dead>>
    BY <1>0, <1>1 DEF SetInterest, loopVars, IInv, Types, ChanTypeOK, Existing, Enable, Disable
  <1>3. Registered' = Registered \union {c}
    BY <1>1, UpdateRegisters
  <1>4. Interest' = [d \in DOMAIN Interest \union {c} |-> IF d = c THEN ev ELSE Interest[d]]
    BY <1>1, <1>2, <1>3, BatchType DEF Interest
  <1>5. UNCHANGED Told
    BY <1>2 DEF Told, Batch
  <1>6. UsesPoller!Ask(c, ev)
    BY <1>4, <1>5 DEF UsesPoller!Ask, Interest, Told
  <1> QED BY <1>2, <1>6

\* A removal is a Forget.
LEMMA RemoveRefines ==
  ASSUME IInv, RemoveChannel
  PROVE  \E c \in Channels : UsesPoller!Forget(c)
  <1>1. PICK c \in Registered : Remove(c)
    BY DEF RemoveChannel
  <1>2. UNCHANGED <<events, revents, activeChannels, dead>> /\ c \in Channels
    BY BatchType DEF RemoveChannel, loopVars
  <1>3. Registered' = Registered \ {c}
    BY <1>1, RemoveUnregisters
  <1>4. c \in DOMAIN Interest /\ Interest' = [d \in DOMAIN Interest \ {c} |-> Interest[d]]
    BY <1>2, <1>3 DEF Interest
  <1>5. UNCHANGED Told
    BY <1>2 DEF Told, Batch
  <1>6. UsesPoller!Forget(c)
    BY <1>4, <1>5 DEF UsesPoller!Forget, Interest, Told
  <1> QED BY <1>2, <1>6

\* A poll is a Report.
LEMMA PollRefines ==
  ASSUME IInv, KernelSeesInterest, Poll
  PROVE  UsesPoller!Report
  <1>1. /\ UNCHANGED <<events, channelStore>> /\ activeChannels = <<>> /\ dead' = {}
        /\ Types /\ MapInv /\ KernelInv
    BY NothingPending DEF Poll, AtPoll, InLoop, loopVars, IInv, Types
  <1>2. UNCHANGED <<Interest, Registered>> /\ DOMAIN Told = {}
    BY <1>1 DEF Interest, Registered, Stored, Told, Batch
  <1>3. /\ activeChannels' \in Seq(Registered) /\ activeChannels' # <<>>
        /\ \A i \in DOMAIN activeChannels' : \E f \in Stored :
              /\ channelStore[f] = activeChannels'[i]
              /\ revents'[activeChannels'[i]] = Got[f] /\ Got[f] # {}
    <2>1. CASE usePoll
      <3>1. PollInv /\ PollReport(Got)
        BY <2>1, <1>1 DEF KernelInv, Poll
      <3> QED BY <3>1, <1>1, GotType, PollReportKeeps
    <2>2. CASE ~usePoll
      <3>1. EPollInv /\ EPollReport(Got)
        BY <2>2, <1>1 DEF KernelInv, Poll
      <3> QED BY <3>1, <1>1, GotType, EPollReportKeeps
    <2> QED BY <2>1, <2>2
  <1>4. \A f \in Stored : Got[f] \subseteq events[channelStore[f]] \union {"error"}
    BY <1>1 DEF Got, KernelSeesInterest, Types, ChanTypeOK
  <1>5. DOMAIN Told' = Batch' /\ Batch' = {activeChannels'[i] : i \in DOMAIN activeChannels'}
    BY <1>1 DEF Told, Batch
  <1>6. ASSUME NEW c \in Batch'
        PROVE  /\ c \in Registered /\ revents'[c] # {}
               /\ revents'[c] \subseteq events[c] \union {"error"}
    <2>1. PICK f \in Stored : channelStore[f] = c /\ revents'[c] = Got[f] /\ Got[f] # {}
      BY <1>3, <1>5
    <2> QED BY <2>1, <1>4 DEF Registered
  <1>7. Batch' # {}
    <2>1. Len(activeChannels') \in Nat \ {0} /\ DOMAIN activeChannels' = 1 .. Len(activeChannels')
      BY <1>3, EmptySeq, SeqFacts
    <2>2. 1 \in DOMAIN activeChannels'
      BY <2>1
    <2> QED BY <2>2, <1>5
  <1>8. /\ DOMAIN Told' # {} /\ DOMAIN Told' \subseteq DOMAIN Interest
        /\ \A c \in DOMAIN Told' : /\ Told'[c] # {}
                                   /\ Told'[c] \subseteq Interest[c] \union {"error"}
    BY <1>5, <1>6, <1>7 DEF Told, Interest
  <1> QED BY <1>2, <1>8 DEF UsesPoller!Report, Interest, Told

\* The next channel is a Handle.
LEMMA HandleEventRefines ==
  ASSUME IInv, activeChannels # <<>>, Head(activeChannels) \notin dead,
         HandleEvent(Head(activeChannels))
  PROVE  \E c \in Channels : UsesPoller!Handle(c)
  <1> DEFINE h == Head(activeChannels)
             n == Len(activeChannels)
  <1>1. /\ UNCHANGED <<events, channelStore>> /\ activeChannels' = Tail(activeChannels)
        /\ revents' = [revents EXCEPT ![h] = {}] /\ UNCHANGED dead
        /\ BatchInv /\ activeChannels \in Seq(Channels) /\ revents \in [Channels -> SUBSET Flags]
    BY DEF HandleEvent, IInv, Types, ChanTypeOK
  <1>2. n \in Nat \ {0} /\ DOMAIN activeChannels = 1 .. n
        /\ activeChannels \in [1 .. n -> Channels]
    BY <1>1, SeqFacts, EmptySeq
  <1>3. /\ h = activeChannels[1] /\ h \in Channels
        /\ activeChannels' \in Seq(Channels) /\ Len(activeChannels') = n - 1
        /\ \A i \in 1 .. n - 1 : activeChannels'[i] = activeChannels[i + 1]
    BY <1>1, <1>2
  <1>4. DOMAIN activeChannels' = 1 .. n - 1
    BY <1>3, SeqFacts
  <1>5. \A i \in 1 .. n : i # 1 => activeChannels[i] # h
    BY <1>1, <1>2, <1>3 DEF BatchInv
  <1>6. Batch' = Batch \ {h} /\ h \in Batch
    <2>1. ASSUME NEW c \in Batch' PROVE c \in Batch \ {h}
      <3>1. PICK i \in 1 .. n - 1 : c = activeChannels[i + 1]
        BY <1>3, <1>4 DEF Batch
      <3>2. i + 1 \in 1 .. n /\ i + 1 # 1
        BY <1>2
      <3> QED BY <3>1, <3>2, <1>2, <1>5 DEF Batch
    <2>2. ASSUME NEW c \in Batch \ {h} PROVE c \in Batch'
      <3>1. PICK i \in 1 .. n : c = activeChannels[i]
        BY <1>2 DEF Batch
      <3>2. i - 1 \in 1 .. n - 1 /\ (i - 1) + 1 = i
        BY <3>1, <1>2, <1>3
      <3>3. activeChannels'[i - 1] = c
        BY <3>1, <3>2, <1>3
      <3> QED BY <3>2, <3>3, <1>4 DEF Batch
    <2>3. h \in Batch
      BY <1>2, <1>3 DEF Batch
    <2> QED BY <2>1, <2>2, <2>3
  <1>7. h \in DOMAIN Told /\ Told' = [d \in DOMAIN Told \ {h} |-> Told[d]]
    BY <1>1, <1>6, BatchType DEF Told
  <1>8. UNCHANGED Interest
    BY <1>1 DEF Interest, Registered, Stored
  <1>9. PICK c \in Channels : c = h
    BY <1>3
  <1> SUFFICES UsesPoller!Handle(c)
    OBVIOUS
  <1> QED BY <1>7, <1>8, <1>9 DEF UsesPoller!Handle, Interest, Told

\* Deleting a channel of the batch drops what it was told, as Handle does.
LEMMA DeleteRefines ==
  ASSUME IInv, DeleteChannel
  PROVE  [UsesPoller!Next]_<<Interest, Told>>
  <1>1. PICK c \in Existing \ Registered :
           /\ events' = [events EXCEPT ![c] = {}] /\ revents' = [revents EXCEPT ![c] = {}]
           /\ dead' = dead \union ({c} \intersect Pending)
    BY DEF DeleteChannel
  <1>2. UNCHANGED <<channelStore, activeChannels>> /\ c \in Channels
    BY DEF DeleteChannel, Existing
  <1>3. UNCHANGED Interest
    BY <1>1, <1>2, BatchType DEF Interest, Registered, Stored, IInv, Types, ChanTypeOK
  <1>4. Batch' \ dead' = (Batch \ dead) \ {c}
    BY <1>1, <1>2 DEF Batch, Pending
  <1>5. Told' = [d \in DOMAIN Told \ {c} |-> Told[d]]
    BY <1>1, <1>2, <1>4, BatchType DEF Told, IInv, Types, ChanTypeOK
  <1>6. CASE c \in DOMAIN Told
    BY <1>2, <1>3, <1>5, <1>6 DEF UsesPoller!Next, UsesPoller!Handle, Interest, Told
  <1>7. CASE c \notin DOMAIN Told
    BY <1>3, <1>5, <1>7 DEF Told
  <1> QED BY <1>6, <1>7

\* Every step is one of the abstract Poller, or changes nothing it sees.
LEMMA StepRefines ==
  ASSUME IInv, KernelSeesInterest, [Next]_vars
  PROVE  [UsesPoller!Next]_<<Interest, Told>>
  <1>1. CASE SetInterest
    BY <1>1, SetInterestRefines DEF UsesPoller!Next
  <1>2. CASE RemoveChannel
    BY <1>2, RemoveRefines DEF UsesPoller!Next
  <1>3. CASE Poll
    BY <1>3, PollRefines DEF UsesPoller!Next
  <1>4. CASE Dispatch /\ ~Undefined
    BY <1>4, HandleEventRefines DEF Dispatch, UsesPoller!Next
  <1>5. CASE NewChannel
    <2>1. PICK c \in Channels \ Existing : revents' = [revents EXCEPT ![c] = {}]
      BY <1>5 DEF NewChannel, Construct
    <2>2. UNCHANGED <<events, channelStore, activeChannels, dead>>
      BY <1>5 DEF NewChannel, loopVars
    <2>3. \A d \in Batch \ dead : d # c
      BY <2>1 DEF IInv, BatchInv, Batch, Existing
    <2>4. UNCHANGED Told
      BY <2>1, <2>2, <2>3, BatchType DEF Told, Batch, IInv, Types, ChanTypeOK
    <2> QED BY <2>2, <2>4 DEF Interest, Registered, Stored
  <1>6. CASE DeleteChannel
    BY <1>6, DeleteRefines
  <1>7. CASE \/ EnterLoop \/ PollNothing \/ SystemCallFails \/ Return \/ Happens \/ Undefined
             \/ UNCHANGED vars
    <2>1. UNCHANGED <<events, revents, channelStore, activeChannels>>
      BY <1>7 DEF EnterLoop, PollNothing, AtPoll, SystemCallFails, Return, ReturnToLiving,
                  ReturnToDead, Happens, Undefined, vars, pollerBooks, chanVars
    <2>2. UNCHANGED (Batch \ dead)
      <3>1. CASE UNCHANGED dead
        BY <2>1, <3>1 DEF Batch
      <3>2. CASE Return /\ ~UNCHANGED dead
        <4>1. dead' = dead \ {handling} /\ handling \in dead
          BY <3>2 DEF Return, ReturnToLiving, ReturnToDead, Undefined
        <4>2. handling \notin Batch
          BY DEF IInv, BatchInv, Batch
        <4> QED BY <4>1, <4>2, <2>1 DEF Batch
      <3> QED BY <3>1, <3>2, <1>7 DEF EnterLoop, PollNothing, SystemCallFails, Happens, Undefined,
                                      vars, loopVars
    <2> QED BY <2>1, <2>2 DEF Interest, Told, Registered, Stored
  <1> QED BY <1>1, <1>2, <1>3, <1>4, <1>5, <1>6, <1>7 DEF Next

\* PollPoller and EPollPoller implement the abstract Poller: a batch holds only
\* channels registered when poll() returned, each with events it asked for.
THEOREM BothPollersPromise == Spec => PollerPromise
  <1>1. IInv /\ KernelSeesInterest /\ [Next]_vars
          => [UsesPoller!Next]_(UsesPoller!pollerVars)
    BY StepRefines DEF UsesPoller!pollerVars, Interest, Told
  <1> QED BY <1>1, InitRefines, PollerInvariance, KernelKnowsInterest, PTL
      DEF Spec, PollerPromise, UsesPoller!Spec
=============================================================================
