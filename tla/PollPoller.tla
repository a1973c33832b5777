----------------------------- MODULE PollPoller -----------------------------
(***************************************************************************)
(* tools/poller/PollPoller: the descriptors are kept in the array poll(2)   *)
(* takes, each channel's index is its place in that array, and a removed    *)
(* entry is replaced by the last one.  The kernel writes every revents of   *)
(* the array before anyone reads it, so the array here holds fd and events. *)
(***************************************************************************)
EXTENDS Channel

VARIABLE pollfdList    \* m_pollfdList

PollTypeOK == /\ pollfdList \in Seq([fd : Fds, events : SUBSET Wanted])
              /\ index \in [Channels -> -1 .. Len(pollfdList) - 1]

Pollfd(c, ev) == [fd |-> fd[c], events |-> ev]

\* The mark of a channel just pushed back: m_pollfdList.size()-1.
SizeIndex == Len(pollfdList) + 1
LastIndex == Len(pollfdList)
IndexOfPushed == LastIndex

\* update_channel, called with m_events = ev.
PollAdd(c, ev) ==
    /\ index[c] < 0
    /\ channelStore' = StoreInsert(fd[c], c)
    /\ pollfdList' = Append(pollfdList, Pollfd(c, ev))
    /\ index' = [index EXCEPT ![c] = IndexOfPushed]

PollModify(c, ev) ==
    /\ index[c] >= 0
    /\ pollfdList' = [pollfdList EXCEPT ![index[c] + 1].events = ev]
    /\ UNCHANGED <<channelStore, index>>

PollUpdate(c, ev) == PollAdd(c, ev) \/ PollModify(c, ev)

\* remove_channel: the last entry moves to the place of the removed one.
PopBack(s) == SubSeq(s, 1, Len(s) - 1)
LastEntry == pollfdList[Len(pollfdList)]

MovedKeepsIndex(c) == [index EXCEPT ![c] = kNew]
MovedTakesIndex(c) == [index EXCEPT ![channelStore[LastEntry.fd]] = index[c], ![c] = kNew]
IndexAfterRemove(c) == MovedTakesIndex(c)

PollRemove(c) ==
    /\ channelStore' = StoreErase(fd[c])
    /\ pollfdList' = PopBack([pollfdList EXCEPT ![index[c] + 1] = LastEntry])
    /\ index' = IndexAfterRemove(c)

\* poll(): got[f] is what the kernel reports for descriptor f.
\* fill_active_channels takes the entries hit, from the first to the last.
PollReport(got) ==
    LET hits == {i \in DOMAIN pollfdList : got[pollfdList[i].fd] # {}}
    IN  /\ hits # {}
        /\ \E order \in Orders(hits) :
              /\ \A i, j \in DOMAIN order : i < j => order[i] < order[j]
              /\ activeChannels' =
                    [i \in DOMAIN order |-> channelStore[pollfdList[order[i]].fd]]
        /\ revents' = [c \in Channels |->
              LET mine == {i \in hits : channelStore[pollfdList[i].fd] = c}
              IN  IF mine = {} THEN revents[c]
                  ELSE got[pollfdList[CHOOSE i \in mine : TRUE].fd]]

\* What the kernel watches, as a map from descriptor to events.
PollWatches == [f \in {pollfdList[i].fd : i \in DOMAIN pollfdList} |->
                  LET i == CHOOSE j \in DOMAIN pollfdList : pollfdList[j].fd = f
                  IN  pollfdList[i].events]

\* The asserts of update_channel, remove_channel and fill_active_channels:
\* each channel's index is a place in the array, that of its own descriptor.
PollAsserts == \A c \in Existing : index[c] >= 0 =>
    index[c] < Len(pollfdList) /\ pollfdList[index[c] + 1].fd = fd[c]
=============================================================================
