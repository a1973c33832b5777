------------------------------ MODULE EventLoop ------------------------------
(***************************************************************************)
(* A program around a Poller, in the shape of examples/echo/EchoServer_     *)
(* poller.cpp: it sets up channels, then forever calls poll() and           *)
(* handle_event() on a copy of the list returned.  Its callbacks may change *)
(* what channels want, remove them, open new ones and delete old ones, also *)
(* the one whose handle_event runs, as on_message there does, or one that   *)
(* the batch still holds; they run in the loop's thread, between two steps  *)
(* of the loop.  What the program does once the loop reads a deleted object *)
(* is undefined, and so is what the log does with a failed system call (its *)
(* errno is formatted with %s, log.cpp:55): the model stops there.          *)
(*                                                                         *)
(* Poller::create_poller chooses the class from the environment: usePoll.   *)
(***************************************************************************)
EXTENDS PollPoller, EPollPoller

VARIABLES usePoll,
          looping,    \* main has entered for(;;)
          handling,   \* the channel whose handle_event runs, or None,
          calls,      \*   and the callbacks it still has to call
          dead,       \* deleted since poll() returned, and still to be read
          undefined,  \* the program has done what has no defined outcome
          ready       \* the kernel: what has happened on each descriptor

pollerBooks == <<chanVars, pollfdList, epollSet, eventListSize>>
loopVars == <<usePoll, looping, handling, calls, dead, undefined>>
vars == <<pollerBooks, loopVars, ready>>

None == NoFd

Watches == IF usePoll THEN PollWatches ELSE EPollWatches
Batch == {activeChannels[i] : i \in DOMAIN activeChannels}

\* The channels whose objects the loop will still read.
Pending == Batch \union ({handling} \ {None})

TypeOK == /\ ChanTypeOK
          /\ IF usePoll THEN PollTypeOK ELSE EPollTypeOK
          /\ usePoll \in BOOLEAN /\ looping \in BOOLEAN
          /\ handling \in Channels \union {None}
          /\ calls \subseteq Flags
          /\ dead \subseteq Pending /\ undefined \in BOOLEAN
          /\ ready \in [Fds -> SUBSET Flags]

Init == /\ ChanInit
        /\ pollfdList = <<>>
        /\ epollSet = <<>> /\ eventListSize = kEventListSize
        /\ usePoll \in BOOLEAN
        /\ looping = FALSE /\ handling = None /\ calls = {}
        /\ dead = {} /\ undefined = FALSE
        /\ ready = [f \in Fds |-> {}]

\* handle_event calls back for reading, then for writing, then for errors.
NextCall == IF "read" \in calls THEN "read" ELSE IF "write" \in calls THEN "write" ELSE "error"

\* The program's code runs: before the loop, or in a callback.
InProgram == ~undefined /\ (~looping \/ calls # {})
InLoop == ~undefined /\ looping /\ calls = {}
AtPoll == InLoop /\ activeChannels = <<>>

Update(c, ev) ==
    IF usePoll THEN PollUpdate(c, ev) /\ UNCHANGED <<epollSet, eventListSize>>
               ELSE EPollUpdate(c, ev) /\ UNCHANGED <<pollfdList, eventListSize>>

Remove(c) ==
    IF usePoll THEN PollRemove(c) /\ UNCHANGED <<epollSet, eventListSize>>
               ELSE EPollRemove(c) /\ UNCHANGED <<pollfdList, eventListSize>>
-----------------------------------------------------------------------------
(* The program *)

\* new Channel(poller, f) for a descriptor the kernel has just opened: it gives
\* the lowest free one.
NewChannel == /\ InProgram
              /\ \E c \in Channels \ Existing, f \in LowestFree : Construct(c, f)
              /\ UNCHANGED <<events, index, channelStore, activeChannels, pollfdList,
                             epollSet, eventListSize, loopVars, ready>>

\* enable_reading and its three siblings set or clear one event and update.
Enable(c, e) == events[c] \union {e}
Disable(c, e) == events[c] \ {e}

SetInterest ==
    /\ InProgram
    /\ \E c \in Existing, e \in Wanted : \E ev \in {Enable(c, e), Disable(c, e)} :
          /\ events' = [events EXCEPT ![c] = ev]
          /\ Update(c, ev)
    /\ UNCHANGED <<fd, revents, activeChannels, loopVars, ready>>

\* channel->remove() of a registered channel, its own or another one.
RemoveChannel ==
    /\ InProgram
    /\ \E c \in Registered : Remove(c)
    /\ UNCHANGED <<fd, events, revents, activeChannels, loopVars, ready>>

\* delete of a removed channel and close of its descriptor.  It may be the one
\* whose handle_event runs or one in the batch: the loop keeps the pointer.
DeleteChannel ==
    /\ InProgram
    /\ \E c \in Existing \ Registered :
          /\ fd' = [fd EXCEPT ![c] = NoFd]
          /\ events' = [events EXCEPT ![c] = {}]
          /\ revents' = [revents EXCEPT ![c] = {}]
          /\ ready' = [ready EXCEPT ![fd[c]] = {}]
          /\ dead' = dead \union ({c} \intersect Pending)
    /\ UNCHANGED <<index, channelStore, activeChannels, pollfdList, epollSet, eventListSize,
                   usePoll, looping, handling, calls, undefined>>

EnterLoop == /\ ~looping /\ ~undefined
             /\ looping' = TRUE
             /\ UNCHANGED <<pollerBooks, usePoll, handling, calls, dead, undefined, ready>>
-----------------------------------------------------------------------------
(* The loop *)

Undefined == undefined' = TRUE
             /\ UNCHANGED <<pollerBooks, usePoll, looping, handling, calls, dead, ready>>

Got == [f \in Fds |-> IF f \in DOMAIN Watches
                      THEN ready[f] \intersect (Watches[f] \union {"error"}) ELSE {}]

Poll == /\ AtPoll
        /\ IF usePoll THEN PollReport(Got) /\ UNCHANGED eventListSize
                      ELSE EPollReport(Got)
        /\ UNCHANGED <<fd, events, index, channelStore, pollfdList, epollSet, loopVars, ready>>

\* poll(2) or epoll_wait times out or is interrupted: an empty list.
PollNothing == /\ AtPoll
               /\ activeChannels' = <<>>
               /\ UNCHANGED <<fd, events, revents, index, channelStore, pollfdList, epollSet,
                              eventListSize, loopVars, ready>>

\* poll(2) or epoll_wait fails, or epoll_ctl in a call the program makes:
\* LOG_SYSERR or LOG_SYSFATAL, which do not survive their errno.
SystemCallFails == (AtPoll \/ (InProgram /\ ~usePoll)) /\ Undefined

\* handle_event of the next channel.  Nothing else reads m_revents, so it is
\* dropped here: calls is what follows from it.
HandleEvent(c) == /\ handling' = c
                  /\ calls' = revents[c]
                  /\ activeChannels' = Tail(activeChannels)
                  /\ revents' = [revents EXCEPT ![c] = {}]
                  /\ UNCHANGED <<fd, events, index, channelStore, pollfdList, epollSet,
                                 eventListSize, usePoll, looping, dead, undefined, ready>>

Dispatch == /\ InLoop /\ activeChannels # <<>>
            /\ IF Head(activeChannels) \in dead THEN Undefined
                                                ELSE HandleEvent(Head(activeChannels))

\* A callback returns to an object that exists; it may or may not have used up
\* the event it was told of.
ReturnToLiving ==
    /\ handling \notin dead
    /\ calls' = calls \ {NextCall}
    /\ handling' = IF calls = {NextCall} THEN None ELSE handling
    /\ ready' \in {ready, [ready EXCEPT ![fd[handling]] = @ \ {NextCall}]}
    /\ UNCHANGED <<pollerBooks, usePoll, looping, dead, undefined>>

\* Or to one that it or a callback before it has deleted, whose m_revents
\* handle_event goes on to test, unless it was m_closeCallback, the last call.
ReturnToDead ==
    /\ handling \in dead
    /\ \/ Undefined
       \/ /\ calls = {"error"}
          /\ calls' = {} /\ handling' = None /\ dead' = dead \ {handling}
          /\ UNCHANGED <<pollerBooks, usePoll, looping, undefined, ready>>

Return == ~undefined /\ calls # {} /\ (ReturnToLiving \/ ReturnToDead)

\* Something happens on an open descriptor.  What happens during a callback
\* is seen at the next poll, like what happens just before it.
Happens == /\ AtPoll
           /\ \E c \in Existing, e \in Flags : ready' = [ready EXCEPT ![fd[c]] = @ \union {e}]
           /\ UNCHANGED <<pollerBooks, loopVars>>

Next == \/ NewChannel \/ SetInterest \/ RemoveChannel \/ DeleteChannel \/ EnterLoop
        \/ Poll \/ PollNothing \/ SystemCallFails \/ Dispatch \/ Return \/ Happens

Spec == Init /\ [][Next]_vars

\* The program's thread runs, and callbacks return.
FairSpec == Spec /\ WF_vars(Poll) /\ WF_vars(Dispatch) /\ WF_vars(Return)
-----------------------------------------------------------------------------
(* Safety *)

\* No assert of the poller in use fails on the next call: every index names the
\* channel's own entry, and an unregistered channel's descriptor is not stored.
AssertsHold ==
    /\ IF usePoll THEN PollAsserts ELSE EPollAsserts
    /\ \A c \in Existing : IF index[c] = kNew THEN fd[c] \notin Stored
                           ELSE fd[c] \in Stored /\ channelStore[fd[c]] = c

\* The kernel watches exactly the registered descriptors, each for the events
\* its channel wants now, whichever poller keeps the book.
KernelSeesInterest == Watches = [f \in Stored |-> events[channelStore[f]]]

\* poll() never returns a channel that is gone, however addresses and
\* descriptors are used again: one the loop points to without an object was
\* deleted by a callback of this very batch.  The map holds existing channels
\* under their own descriptors.
NoDanglingChannel ==
    /\ Pending \subseteq Existing \union dead
    /\ \A f \in Stored : fd[channelStore[f]] = f

\* A batch only ever holds channels registered when poll() returned it: one
\* that is not registered now was removed by a callback of this batch, and one
\* that was deleted has nothing left to be told.
UsesPoller == INSTANCE Poller WITH
    interest <- [c \in Registered |-> events[c]],
    told <- [c \in Batch \ dead |-> revents[c]]

PollerPromise == UsesPoller!Spec
-----------------------------------------------------------------------------
(* Liveness, under FairSpec *)

Reportable(f) == f \in DOMAIN Watches /\ ready[f] \intersect (Watches[f] \union {"error"}) # {}
Handled(f) == calls # {} /\ handling \notin dead /\ fd[handling] = f

\* What has happened on a descriptor reaches its channel's handle_event, unless
\* the program stops watching: however many descriptors are ready at once and
\* whatever order the kernel prefers, a full event list makes room.  A program
\* that has run into undefined behaviour promises nothing.
ReadyIsHandled ==
    \A f \in Fds : looping /\ Reportable(f) ~> Handled(f) \/ ~Reportable(f) \/ undefined
=============================================================================
