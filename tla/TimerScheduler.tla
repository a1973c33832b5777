--------------------------- MODULE TimerScheduler ---------------------------
(***************************************************************************)
(* tools/timer/TimerScheduler: timers driven by one loop thread that polls  *)
(* a timerfd and an eventfd.  The loop thread owns the two sets of timers;  *)
(* other threads add and cancel by queueing a functor under m_mutex and     *)
(* writing the eventfd.                                                     *)
(*                                                                         *)
(* The heap is explicit: a Timer has an address, a deleted one leaves its   *)
(* bytes behind, and new may reuse the address.  Time is a counter of ticks *)
(* of 100us, the shortest delay the timerfd is armed with.  Callers stop    *)
(* using the scheduler once its loop has ended and it is destroyed.         *)
(***************************************************************************)
EXTENDS Integers, Sequences, FiniteSets

CONSTANTS Addr,        \* the addresses new Timer can return
          Threads,     \* the threads other than the loop thread
          Delays,      \* delays passed to run_after
          Interval,    \* the period of a repeating timer
          MaxTimers,   \* bound: timers created
          MaxTime,     \* bound: timers are made before it, and past it the clock
                       \* runs on for timers due by then
          MaxPending,  \* bound: length of m_pendingFunctors
          NoAlarm      \* the timerfd is disarmed

ASSUME TimerAssumption == /\ Delays \subseteq Nat \ {0}
                          /\ Interval \in Nat \ {0}
                          /\ MaxTimers \in Nat /\ MaxTime \in Nat /\ MaxPending \in Nat
                          /\ NoAlarm \notin Nat

VARIABLES heap,             \* what lies at each address
          numCreated,       \* Timer::m_sNumCreated
          timers,           \* m_timers: (expiration, address)
          activeTimers,     \* m_activeTimers: (address, sequence)
          cancelingTimers,
          batch, todo,      \* expiredTimers, and those not yet run
          eventNow,         \* now in handle_event
          pendingFunctors,
          functors,         \* the vector handle_pending_functor swapped out
          eventfd,          \* TRUE: readable
          alarm,            \* when the timerfd becomes readable
          now, quit,
          pc, ready,        \* the loop thread; channels poll returned
          threadPc, made,   \* other threads; the timer a thread's add_timer made
          ids,              \* TimerIds handed to the program
          stopped           \* history: ids cancel_timer found scheduled or expired

setVars == <<timers, activeTimers, cancelingTimers, heap, alarm>>
loopVars == <<batch, todo, eventNow, functors, ready>>
shareVars == <<pendingFunctors, eventfd>>
threadVars == <<threadPc, made>>
vars == <<setVars, loopVars, shareVars, threadVars, stopped, ids,
          numCreated, now, quit, pc>>

Seqs == 0 .. MaxTimers
Times == Nat
TimerIds == Addr \X Seqs
NoId == <<>>
Functor == [op : {"insert"}, timer : Addr] \union [op : {"cancel"}, id : TimerIds]

Cell == [live : BOOLEAN, seq : Seqs, exp : Times, rep : BOOLEAN]

TypeOK == /\ heap \in [Addr -> Cell]
          /\ numCreated \in Seqs
          /\ timers \subseteq Times \X Addr
          /\ activeTimers \subseteq TimerIds
          /\ cancelingTimers \subseteq TimerIds
          /\ batch \subseteq Times \X Addr /\ todo \subseteq batch
          /\ eventNow \in Times /\ now \in Times
          /\ pendingFunctors \in Seq(Functor) /\ functors \in Seq(Functor)
          /\ eventfd \in BOOLEAN /\ quit \in BOOLEAN
          /\ alarm \in Times \union {NoAlarm}
          /\ pc \in {"setup", "check", "poll", "dispatch", "callbacks", "callback",
                     "swap", "functors", "dead"}
          /\ ready \subseteq {"timerfd", "eventfd"}
          /\ threadPc \in [Threads -> {"idle", "writeAdd", "readSeq", "write"}]
          /\ made \in [Threads -> TimerIds \union {NoId}]
          /\ ids \subseteq TimerIds
          /\ stopped \subseteq TimerIds

NoCell == [live |-> FALSE, seq |-> 0, exp |-> 0, rep |-> FALSE]

Init == /\ heap = [a \in Addr |-> NoCell]
        /\ numCreated = 0
        /\ timers = {} /\ activeTimers = {} /\ cancelingTimers = {}
        /\ batch = {} /\ todo = {} /\ eventNow = 0 /\ now = 1
        /\ pendingFunctors = <<>> /\ functors = <<>>
        /\ eventfd = FALSE /\ quit = FALSE /\ alarm = NoAlarm
        /\ pc = "setup" /\ ready = {}
        /\ threadPc = [t \in Threads |-> "idle"]
        /\ made = [t \in Threads |-> NoId]
        /\ ids = {} /\ stopped = {}

Id(a) == <<a, heap[a].seq>>
Entry(a) == <<heap[a].exp, a>>
Deleted(a) == [heap EXCEPT ![a].live = FALSE]
-----------------------------------------------------------------------------
(* The operations the loop thread applies to the sets *)

\* reset_timerfd: the alarm is set for e, and never sooner than one tick from
\* now (timerfd_settime takes no negative delay).
Unclamped(e) == IF e > now THEN e ELSE e - now
ArmedFor(e) == IF e > now THEN e ELSE now + 1

EarliestIn(T, e) == \A x \in T : e < x[1]
EmptyOnly(T, e) == T = {}

ArmsFor(T, e) == EarliestIn(T, e)

\* insert(timer): cell c lies at address a.
InsertCell(a, c) ==
    /\ alarm' = IF ArmsFor(timers, c.exp) THEN ArmedFor(c.exp) ELSE alarm
    /\ timers' = timers \union {<<c.exp, a>>}
    /\ activeTimers' = activeTimers \union {<<a, c.seq>>}

\* m_callingExpiredTimer.
Calling == pc \in {"callbacks", "callback"}

ForgetsEntry(id) == timers
DropsEntry(id) == timers \ {Entry(id[1])}
TimersWithout(id) == DropsEntry(id)

CancelActive(id) == /\ id \in activeTimers
                    /\ timers' = TimersWithout(id)
                    /\ activeTimers' = activeTimers \ {id}
                    /\ heap' = Deleted(id[1])
                    /\ stopped' = stopped \union {id}
                    /\ UNCHANGED <<cancelingTimers, alarm>>

InFunctors(s) == {s[i].timer : i \in {j \in DOMAIN s : s[j].op = "insert"}}

Expired == {Id(x[2]) : x \in batch}

CancelDeletes(id) == /\ id \notin activeTimers /\ Calling
                     /\ cancelingTimers' = cancelingTimers \union {id}
                     /\ heap' = Deleted(id[1])
                     /\ stopped' = stopped \union (Expired \intersect {id})
                     /\ UNCHANGED <<timers, activeTimers, alarm>>

\* Not in the sets, but perhaps expired and about to be reset.
CancelExpired(id) == /\ id \notin activeTimers /\ Calling
                     /\ cancelingTimers' = cancelingTimers \union {id}
                     /\ stopped' = stopped \union (Expired \intersect {id})
                     /\ UNCHANGED <<timers, activeTimers, heap, alarm>>

CancelUnknown(id) == /\ id \notin activeTimers /\ ~Calling
                     /\ UNCHANGED <<setVars, stopped>>

CancelTimer(id) == CancelActive(id) \/ CancelExpired(id) \/ CancelUnknown(id)
-----------------------------------------------------------------------------
(* The program's code in the loop thread: before start(), and in callbacks *)

InLoopThread == pc \in {"setup", "callback"}

New(a, e, r) == [live |-> TRUE, seq |-> numCreated + 1, exp |-> e, rep |-> r]

\* run_after and run_every: one-shot after d, or repeating.
NewTimer(a, e, r) == /\ ~heap[a].live
                     /\ numCreated < MaxTimers /\ now < MaxTime
                     /\ numCreated' = numCreated + 1
                     /\ heap' = [heap EXCEPT ![a] = New(a, e, r)]

Requests == {<<now + d, FALSE>> : d \in Delays} \union {<<now + Interval, TRUE>>}

LoopAdd == /\ InLoopThread
           /\ \E a \in Addr, q \in Requests :
                 /\ NewTimer(a, q[1], q[2])
                 /\ InsertCell(a, New(a, q[1], q[2]))
                 /\ ids' = ids \union {<<a, numCreated + 1>>}
           /\ UNCHANGED <<cancelingTimers, loopVars, shareVars, threadVars, stopped>>
           /\ UNCHANGED <<now, quit, pc>>

LoopCancel == /\ InLoopThread
              /\ \E id \in ids : CancelTimer(id)
              /\ UNCHANGED <<loopVars, shareVars, threadVars, ids>>
              /\ UNCHANGED <<numCreated, now, quit, pc>>

LoopQuit == /\ pc = "callback"
            /\ quit' = TRUE
            /\ UNCHANGED <<setVars, loopVars, shareVars, threadVars, stopped>>
            /\ UNCHANGED <<ids, numCreated, now, pc>>

LoopUser == LoopAdd \/ LoopCancel \/ LoopQuit
-----------------------------------------------------------------------------
(* start(): the loop *)

Start == /\ pc = "setup"
         /\ quit' = FALSE
         /\ pc' = "check"
         /\ UNCHANGED <<setVars, loopVars, shareVars, threadVars, stopped>>
         /\ UNCHANGED <<ids, numCreated, now>>

Continue == /\ pc = "check" /\ ~quit
            /\ pc' = "poll"
            /\ UNCHANGED <<setVars, loopVars, shareVars, threadVars, stopped>>
            /\ UNCHANGED <<ids, numCreated, now, quit>>

\* The loop ends and the scheduler is destroyed: ~TimerScheduler deletes the
\* timers of m_timers; those of functors still pending are leaked.
End == /\ pc = "check" /\ quit
       /\ pc' = "dead"
       /\ heap' = [a \in Addr |-> IF \E x \in timers : x[2] = a
                                  THEN [heap[a] EXCEPT !.live = FALSE] ELSE heap[a]]
       /\ timers' = {} /\ activeTimers' = {} /\ alarm' = NoAlarm
       /\ UNCHANGED <<cancelingTimers, loopVars, shareVars, threadVars, stopped>>
       /\ UNCHANGED <<ids, numCreated, now, quit>>

Due == alarm # NoAlarm /\ alarm <= now

Readable == (IF Due THEN {"timerfd"} ELSE {}) \union (IF eventfd THEN {"eventfd"} ELSE {})

Poll == /\ pc = "poll"
        /\ Readable # {}
        /\ ready' = Readable
        /\ pc' = "dispatch"
        /\ UNCHANGED <<setVars, shareVars, threadVars, stopped>>
        /\ UNCHANGED <<batch, todo, eventNow, functors, ids, numCreated, now, quit>>

\* kPollTimeMs passes with nothing readable.
PollTimeout == /\ pc = "poll"
               /\ Readable = {}
               /\ pc' = "swap"
               /\ UNCHANGED <<setVars, loopVars, shareVars, threadVars, stopped>>
               /\ UNCHANGED <<ids, numCreated, now, quit>>

ReadEventfd == /\ pc = "dispatch" /\ "eventfd" \in ready
               /\ eventfd' = FALSE
               /\ ready' = ready \ {"eventfd"}
               /\ UNCHANGED <<setVars, threadVars, stopped, pendingFunctors>>
               /\ UNCHANGED <<batch, todo, eventNow, functors, ids, numCreated, now, quit, pc>>

ExpiredAt(t) == {x \in timers : x[1] <= t}

\* handle_event up to the loop over the callbacks: read the timerfd and take
\* the expired timers out of both sets.
HandleEvent == /\ pc = "dispatch" /\ "timerfd" \in ready
               /\ ready' = ready \ {"timerfd"}
               /\ eventNow' = now
               /\ alarm' = NoAlarm
               /\ batch' = ExpiredAt(now) /\ todo' = ExpiredAt(now)
               /\ timers' = timers \ ExpiredAt(now)
               /\ activeTimers' = activeTimers \ {Id(x[2]) : x \in ExpiredAt(now)}
               /\ cancelingTimers' = {}
               /\ pc' = "callbacks"
               /\ UNCHANGED <<heap, shareVars, threadVars, stopped>>
               /\ UNCHANGED <<functors, ids, numCreated, now, quit>>

\* The batch is in the order of m_timers; addresses break ties.
RunNext == /\ pc = "callbacks"
           /\ \E x \in todo : /\ \A y \in todo : x[1] <= y[1]
                              /\ todo' = todo \ {x}
           /\ pc' = "callback"
           /\ UNCHANGED <<setVars, shareVars, threadVars, stopped>>
           /\ UNCHANGED <<batch, eventNow, functors, ready, ids, numCreated, now, quit>>

CallbackReturns == /\ pc = "callback"
                   /\ pc' = "callbacks"
                   /\ UNCHANGED <<setVars, loopVars, shareVars, threadVars, stopped>>
                   /\ UNCHANGED <<ids, numCreated, now, quit>>

RepeatsAlways(a) == heap[a].rep
RepeatsUncancelled(a) == heap[a].rep /\ Id(a) \notin cancelingTimers
Repeats(a) == RepeatsUncancelled(a)

Again == {x[2] : x \in {y \in batch : Repeats(y[2])}}
Done == {x[2] : x \in batch} \ Again

SomeEarliest(T) == {x \in T : \A y \in T : x[1] <= y[1]}

RearmsIfArmed(T) == alarm
Rearms(T) == IF T = {} THEN alarm
             ELSE ArmedFor((CHOOSE x \in SomeEarliest(T) : TRUE)[1])
Rearmed(T) == Rearms(T)

\* Timer::restart(now)
Restarted == eventNow + Interval

\* reset(expiredTimers, now): repeat or delete each, then arm for the earliest.
Reset == /\ pc = "callbacks" /\ todo = {}
         /\ heap' = [a \in Addr |->
                       IF a \in Again THEN [heap[a] EXCEPT !.exp = Restarted]
                       ELSE IF a \in Done THEN [heap[a] EXCEPT !.live = FALSE]
                       ELSE heap[a]]
         /\ timers' = timers \union {<<Restarted, a>> : a \in Again}
         /\ activeTimers' = activeTimers \union {Id(a) : a \in Again}
         /\ alarm' = Rearmed(timers')
         /\ batch' = {} /\ eventNow' = 0
         /\ pc' = "dispatch"
         /\ UNCHANGED <<cancelingTimers, shareVars, threadVars, stopped>>
         /\ UNCHANGED <<todo, functors, ready, ids, numCreated, now, quit>>

Dispatched == /\ pc = "dispatch" /\ ready = {}
              /\ pc' = "swap"
              /\ UNCHANGED <<setVars, loopVars, shareVars, threadVars, stopped>>
              /\ UNCHANGED <<ids, numCreated, now, quit>>

\* handle_pending_functor: swap under the mutex, then run without it.
SwapPending == /\ pc = "swap"
               /\ functors' = pendingFunctors
               /\ pendingFunctors' = <<>>
               /\ pc' = "functors"
               /\ UNCHANGED <<setVars, threadVars, stopped, eventfd>>
               /\ UNCHANGED <<batch, todo, eventNow, ready, ids, numCreated, now, quit>>

RunInsert == /\ Head(functors).op = "insert"
             /\ LET a == Head(functors).timer IN InsertCell(a, heap[a])
             /\ UNCHANGED <<heap, cancelingTimers, stopped>>

RunCancel == /\ Head(functors).op = "cancel"
             /\ CancelTimer(Head(functors).id)

RunFunctor == /\ pc = "functors" /\ functors # <<>>
              /\ RunInsert \/ RunCancel
              /\ functors' = Tail(functors)
              /\ UNCHANGED <<shareVars, threadVars>>
              /\ UNCHANGED <<batch, todo, eventNow, ready, ids, numCreated, now, quit, pc>>

FunctorsDone == /\ pc = "functors" /\ functors = <<>>
                /\ pc' = "check"
                /\ UNCHANGED <<setVars, loopVars, shareVars, threadVars, stopped>>
                /\ UNCHANGED <<ids, numCreated, now, quit>>

LoopStep == \/ Continue \/ End \/ Poll \/ ReadEventfd \/ HandleEvent \/ RunNext
            \/ CallbackReturns \/ Reset \/ Dispatched \/ SwapPending \/ RunFunctor
            \/ FunctorsDone
-----------------------------------------------------------------------------
(* Other threads *)

Push(f) == /\ pc # "dead"
           /\ Len(pendingFunctors) < MaxPending
           /\ pendingFunctors' = Append(pendingFunctors, f)

\* add_timer: new Timer, then queue the insertion under m_mutex.
ThreadAdd(t) == /\ threadPc[t] = "idle"
                /\ \E a \in Addr, q \in Requests :
                      /\ NewTimer(a, q[1], q[2])
                      /\ Push([op |-> "insert", timer |-> a])
                      /\ made' = [made EXCEPT ![t] = <<a, numCreated + 1>>]
                /\ threadPc' = [threadPc EXCEPT ![t] = "writeAdd"]
                /\ UNCHANGED <<timers, activeTimers, cancelingTimers, alarm, loopVars>>
                /\ UNCHANGED <<stopped, eventfd, ids, now, quit, pc>>

ThreadCancel(t) == /\ threadPc[t] = "idle"
                   /\ \E id \in ids : Push([op |-> "cancel", id |-> id])
                   /\ threadPc' = [threadPc EXCEPT ![t] = "write"]
                   /\ UNCHANGED <<setVars, loopVars, stopped, made, eventfd>>
                   /\ UNCHANGED <<ids, numCreated, now, quit, pc>>

\* quit() from another thread: m_quit, then the eventfd.
ThreadQuit(t) == /\ threadPc[t] = "idle" /\ pc # "dead" /\ ~quit
                 /\ quit' = TRUE
                 /\ threadPc' = [threadPc EXCEPT ![t] = "write"]
                 /\ UNCHANGED <<setVars, loopVars, shareVars, stopped, made>>
                 /\ UNCHANGED <<ids, numCreated, now, pc>>

WakesLoop == TRUE
WakesNobody == eventfd
EventfdAfterWrite == WakesLoop

WriteEventfd(t) == /\ threadPc[t] \in {"writeAdd", "write"}
                   /\ eventfd' = IF pc = "dead" THEN eventfd ELSE EventfdAfterWrite
                   /\ threadPc' = [threadPc EXCEPT ![t] =
                                     IF threadPc[t] = "writeAdd" THEN "readSeq" ELSE "idle"]
                   /\ UNCHANGED <<setVars, loopVars, stopped, pendingFunctors, made>>
                   /\ UNCHANGED <<ids, numCreated, now, quit, pc>>

\* return TimerId(timer, timer->get_sequence()): the timer may be gone by now.
\* What is read is then what its bytes or a new timer left there, or garbage:
\* an id of nothing, as good as none.
ReadsId(a) == {ids \union {Id(a)}} \union (IF heap[a].live THEN {} ELSE {ids})

ReadSeq(t) == /\ threadPc[t] = "readSeq"
              /\ ids' \in ReadsId(made[t][1])
              /\ threadPc' = [threadPc EXCEPT ![t] = "idle"]
              /\ made' = [made EXCEPT ![t] = NoId]
              /\ UNCHANGED <<setVars, loopVars, shareVars, stopped>>
              /\ UNCHANGED <<numCreated, now, quit, pc>>

ThreadUser(t) == ThreadAdd(t) \/ ThreadCancel(t) \/ ThreadQuit(t)
ThreadStep(t) == WriteEventfd(t) \/ ReadSeq(t)
-----------------------------------------------------------------------------
\* Past MaxTime the clock only runs on for an armed alarm of a timer due by
\* MaxTime, so that the bound hides no expiry.
Tick == /\ \/ now < MaxTime
           \/ alarm # NoAlarm /\ alarm > now /\ \E x \in timers : x[1] <= MaxTime
        /\ pc # "dead"
        /\ now' = now + 1
        /\ UNCHANGED <<setVars, loopVars, shareVars, threadVars, stopped>>
        /\ UNCHANGED <<ids, numCreated, quit, pc>>

Next == \/ LoopUser \/ Start \/ LoopStep \/ PollTimeout \/ Tick
        \/ \E t \in Threads : ThreadUser(t) \/ ThreadStep(t)

Spec == Init /\ [][Next]_vars

\* The loop thread and the callers keep running, callbacks return and time
\* passes.  Poll's own timeout is not relied on, nor is any call.
FairSpec == /\ Spec
            /\ WF_vars(Start \/ LoopStep) /\ WF_vars(Tick)
            /\ \A t \in Threads : WF_vars(ThreadStep(t))
-----------------------------------------------------------------------------
(* Safety *)

\* m_timers and m_activeTimers hold the same timers: what every assert of the
\* code says of their sizes, and what cancel_timer relies on to erase an entry.
SetsAgree == /\ activeTimers = {Id(x[2]) : x \in timers}
             /\ \A x \in timers : x[1] = heap[x[2]].exp
             /\ \A x, y \in timers : x[2] = y[2] => x = y

Queued == InFunctors(pendingFunctors) \union InFunctors(functors)

\* A Timer is deleted only when nothing points to it any more: every timer
\* reachable from the sets, the expired batch or a queued insertion is alive.
NoDangling == \A a \in {x[2] : x \in timers \union batch} \union Queued : heap[a].live

\* When the loop goes to sleep the timerfd is armed for the earliest timer, or
\* one tick ahead if that is overdue.
AlarmCovers == pc = "poll" /\ timers # {} =>
    /\ alarm # NoAlarm
    /\ \A x \in timers : alarm <= x[1] \/ alarm <= now + 1

\* When the loop goes to sleep with functors pending, the eventfd is readable
\* or the thread that queued the last one is about to write it.
WakeupNotLost == pc = "poll" /\ pendingFunctors # <<>> =>
    eventfd \/ \E t \in Threads : threadPc[t] \in {"writeAdd", "write"}

\* A timer that was scheduled, or had just expired, when cancel_timer ran on
\* it is never scheduled again, even if its address is reused.
CancelStands == stopped \intersect activeTimers = {}

\* A timer is deleted only by a cancel of its own id, after it ran as a
\* one-shot, or with the scheduler.
DeletedForAReason == [][\A a \in Addr : heap[a].live /\ ~heap'[a].live =>
    \/ Id(a) \in stopped'
    \/ ~heap[a].rep /\ \E x \in batch \ todo : x[2] = a
    \/ pc' = "dead"]_vars
-----------------------------------------------------------------------------
(* Liveness, under FairSpec *)

Scheduled(a) == \E x \in timers : x[2] = a /\ x[1] <= MaxTime

\* A scheduled timer expires, unless it is cancelled or the loop is told to quit.
TimerExpires == \A a \in Addr : Scheduled(a) ~> ~Scheduled(a) \/ quit

\* quit() on a running loop ends it.
QuitEndsLoop == quit /\ pc # "setup" ~> pc = "dead"
-----------------------------------------------------------------------------
(* What the code does not keep *)

\* The TimerId add_timer returns names the timer it made.
IdNamesItsTimer == [][\A t \in Threads :
    threadPc[t] = "readSeq" /\ threadPc'[t] = "idle" => made[t] \in ids']_vars
=============================================================================
