------------------------------- MODULE Channel -------------------------------
(***************************************************************************)
(* tools/poller/Channel and the members of the base class Poller.  A        *)
(* Channel object stands for one file descriptor: what the program wants to *)
(* hear of it (m_events), what poll reported (m_revents) and the poller's   *)
(* mark (m_index).  Objects are created and deleted by the program, so an   *)
(* address and a descriptor may be used again.                              *)
(***************************************************************************)
EXTENDS Integers, Sequences, FiniteSets

CONSTANTS Channels,   \* addresses Channel objects may have
          Fds,        \* file descriptors
          NoFd,       \* no object at this address
          Wanted      \* events a program enables: a subset of {"read", "write"}

ASSUME FdsAssumption == /\ Fds \subseteq Nat /\ IsFiniteSet(Fds)
                        /\ NoFd \notin Fds /\ NoFd \notin Channels
ASSUME WantedAssumption == Wanted \subseteq {"read", "write"}

VARIABLES fd,               \* m_fd
          events, revents,  \* m_events, m_revents
          index,            \* m_index
          channelStore,     \* m_channelStore
          activeChannels    \* the list poll() returned, not yet handled

chanVars == <<fd, events, revents, index, channelStore, activeChannels>>

\* POLLERR, POLLHUP and POLLNVAL are reported whether asked for or not.
Flags == Wanted \union {"error"}
kNew == -1

Existing == {c \in Channels : fd[c] # NoFd}
Stored == DOMAIN channelStore
Registered == {channelStore[f] : f \in Stored}
FreeFds == Fds \ {fd[c] : c \in Existing}
LowestFree == {f \in FreeFds : \A g \in FreeFds : f <= g}

ChanTypeOK == /\ fd \in [Channels -> Fds \union {NoFd}]
              /\ events \in [Channels -> SUBSET Wanted]
              /\ revents \in [Channels -> SUBSET Flags]
              /\ Stored \subseteq Fds
              /\ channelStore \in [Stored -> Channels]
              /\ activeChannels \in Seq(Channels)

ChanInit == /\ fd = [c \in Channels |-> NoFd]
            /\ events = [c \in Channels |-> {}]
            /\ revents = [c \in Channels |-> {}]
            /\ index = [c \in Channels |-> kNew]
            /\ channelStore = <<>>
            /\ activeChannels = <<>>

\* The map with and without an entry.
StoreInsert(f, c) == [g \in Stored \union {f} |-> IF g = f THEN c ELSE channelStore[g]]
StoreErase(f) == [g \in Stored \ {f} |-> channelStore[g]]

\* The members the constructor sets.
Construct(c, f) == /\ fd' = [fd EXCEPT ![c] = f]
                   /\ revents' = [revents EXCEPT ![c] = {}]

\* The ways to list a set, each element once.
Orders(S) == {s \in [1 .. Cardinality(S) -> S] : \A i, j \in DOMAIN s : s[i] = s[j] => i = j}
=============================================================================
