----------------------------- MODULE EPollPoller -----------------------------
(***************************************************************************)
(* tools/poller/EPollPoller: the kernel keeps the interest list, each entry *)
(* with the address of its channel; epoll_wait fills at most m_eventList,   *)
(* which doubles after a call that filled it.                               *)
(***************************************************************************)
EXTENDS Channel

CONSTANT kEventListSize
ASSUME SizeAssumption == kEventListSize \in Nat \ {0}

VARIABLES epollSet,        \* the kernel's interest list
          eventListSize    \* m_eventList.size()

kAdded == 1

EPollTypeOK ==
    /\ DOMAIN epollSet \subseteq Fds
    /\ \A f \in DOMAIN epollSet : epollSet[f] \in [ptr : Channels, events : SUBSET Wanted]
    /\ eventListSize \in Nat \ {0}
    /\ index \in [Channels -> {kNew, kAdded}]

\* epoll_ctl(EPOLL_CTL_ADD), (EPOLL_CTL_MOD) and (EPOLL_CTL_DEL)
CtlSet(c, ev) == [f \in DOMAIN epollSet \union {fd[c]} |->
                    IF f = fd[c] THEN [ptr |-> c, events |-> ev] ELSE epollSet[f]]
CtlDel(c) == [f \in DOMAIN epollSet \ {fd[c]} |-> epollSet[f]]

\* update_channel, called with m_events = ev.
EPollAdd(c, ev) ==
    /\ index[c] = kNew
    /\ channelStore' = StoreInsert(fd[c], c)
    /\ index' = [index EXCEPT ![c] = kAdded]
    /\ epollSet' = CtlSet(c, ev)

EPollModify(c, ev) ==
    /\ index[c] # kNew
    /\ epollSet' = CtlSet(c, ev)
    /\ UNCHANGED <<channelStore, index>>

EPollUpdate(c, ev) == EPollAdd(c, ev) \/ EPollModify(c, ev)

\* remove_channel
StaysWatched(c) == epollSet
StopsWatching(c) == CtlDel(c)
WatchedAfterRemove(c) == StopsWatching(c)

EPollRemove(c) ==
    /\ channelStore' = StoreErase(fd[c])
    /\ epollSet' = WatchedAfterRemove(c)
    /\ index' = [index EXCEPT ![c] = kNew]

\* poll(): the kernel returns reports from some of the ready descriptors, as
\* many as fit, in an order of its own; a full list is doubled.
SameSize(n) == eventListSize
DoubleWhenFull(n) == IF n = eventListSize THEN 2 * eventListSize ELSE eventListSize
SizeAfter(n) == DoubleWhenFull(n)

EPollReport(got) ==
    LET ready == {f \in DOMAIN epollSet : got[f] # {}}
        n == IF Cardinality(ready) < eventListSize THEN Cardinality(ready) ELSE eventListSize
    IN  /\ n > 0
        /\ \E S \in {T \in SUBSET ready : Cardinality(T) = n} :
              /\ \E order \in Orders(S) :
                    activeChannels' = [i \in DOMAIN order |-> epollSet[order[i]].ptr]
              /\ revents' = [c \in Channels |->
                    LET mine == {f \in S : epollSet[f].ptr = c}
                    IN  IF mine = {} THEN revents[c] ELSE got[CHOOSE f \in mine : TRUE]]
        /\ eventListSize' = SizeAfter(n)

\* What the kernel watches, as a map from descriptor to events.
EPollWatches == [f \in DOMAIN epollSet |-> epollSet[f].events]

\* The asserts of update_channel, remove_channel and fill_active_channels.
EPollAsserts ==
    \A f \in DOMAIN epollSet : LET c == epollSet[f].ptr
                               IN  fd[c] = f /\ f \in Stored /\ channelStore[f] = c
=============================================================================
