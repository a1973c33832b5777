------------------------ MODULE TimerSchedulerProofs ------------------------
(***************************************************************************)
(* Theorems about TimerScheduler for any addresses, threads, delays and     *)
(* bounds.                                                                  *)
(*                                                                         *)
(* The invariant has four parts.  TypeInv stands alone.  HeapInv gives each *)
(* live timer one place (PlaceInv, OnceInv) and says which ids a cancel has *)
(* stopped (SeqInv, StoppedInv); SetsAgree, NoDangling and CancelStands are *)
(* inductive only together with these.  WakeInv and AlarmInv say of every   *)
(* point of the loop what WakeupNotLost and AlarmCovers say of its poll.    *)
(***************************************************************************)
EXTENDS TimerScheduler, WellFoundedInduction, TLAPS

\* A thread that has queued an insertion remembers the timer it made.
MadeInv == \A t \in Threads : threadPc[t] \in {"writeAdd", "readSeq"} => made[t] \in TimerIds

TypeInv == TypeOK /\ MadeInv

AddrsOf(S) == {x[2] : x \in S}

\* A timer is in one place: m_timers, the expired batch or a queued insertion.
PlaceInv == /\ AddrsOf(timers) \intersect AddrsOf(batch) = {}
            /\ Queued \intersect AddrsOf(timers \union batch) = {}
            /\ InFunctors(pendingFunctors) \intersect InFunctors(functors) = {}
            /\ batch # {} => Calling

\* An insertion is queued once.
Once(s) == \A i, j \in DOMAIN s :
    s[i].op = "insert" /\ s[j].op = "insert" /\ s[i].timer = s[j].timer => i = j
OnceInv == Once(pendingFunctors) /\ Once(functors)

\* Sequences are given out in order.
SeqInv == /\ \A a \in Addr : heap[a].seq <= numCreated
          /\ \A id \in stopped : id[2] <= numCreated

\* A timer that a cancel has stopped waits for no insertion, and of the expired
\* batch those are stopped that m_cancelingTimers holds.
StoppedInv == /\ \A a \in Queued : Id(a) \notin stopped
              /\ stopped \intersect Expired = cancelingTimers \intersect Expired

HeapInv == /\ SetsAgree /\ NoDangling /\ CancelStands
           /\ PlaceInv /\ OnceInv /\ SeqInv /\ StoppedInv
-----------------------------------------------------------------------------
(* Types *)

LEMMA LessIsWellFounded == IsWellFoundedOn({ss \in Nat \X Nat : ss[1] < ss[2]}, Nat)
  BY NatLessThanWellFounded DEF OpToRel

\* Of some timers one is the first to expire.
LEMMA EarliestExists ==
  ASSUME NEW T \in SUBSET (Times \X Addr), T # {}
  PROVE  \E x \in SomeEarliest(T) : TRUE
<1> DEFINE R == {ss \in Nat \X Nat : ss[1] < ss[2]}
           S == {x[1] : x \in T}
<1>1. S \in SUBSET Nat /\ S # {}
  BY DEF Times
<1>2. PICK k \in S : \A j \in S : <<j, k>> \notin R
  <2>1. IsWellFoundedOn(R, Nat)
    BY LessIsWellFounded
  <2> HIDE DEF R, S
  <2> QED BY <1>1, <2>1, WFMin
<1>3. PICK x \in T : x[1] = k
  OBVIOUS
<1>4. \A y \in T : x[1] <= y[1]
  <2> TAKE y \in T
  <2>1. y[1] \in S /\ y[1] \in Nat /\ k \in Nat
    BY <1>1
  <2>2. <<y[1], k>> \notin R
    BY <1>2, <2>1
  <2> QED BY <1>3, <2>1, <2>2
<1> QED BY <1>4 DEF SomeEarliest
-----------------------------------------------------------------------------
LEMMA InitTypes == Init => TypeInv
<1> SUFFICES ASSUME Init PROVE TypeInv
  OBVIOUS
<1>1. NoCell \in Cell
  BY TimerAssumption DEF NoCell, Cell, Seqs, Times
<1>2. <<>> \in Seq(Functor) /\ 0 \in Seqs
  BY TimerAssumption DEF Seqs
<1>3. TypeOK
  BY <1>1, <1>2 DEF Init, TypeOK, Times
<1>4. MadeInv
  BY DEF Init, MadeInv
<1> QED BY <1>3, <1>4 DEF TypeInv

\* Deleting a timer keeps the heap a heap.
LEMMA DeletedType ==
  ASSUME TypeOK, NEW a \in Addr PROVE Deleted(a) \in [Addr -> Cell]
<1>1. [heap[a] EXCEPT !.live = FALSE] \in Cell
  BY DEF TypeOK, Cell
<1> QED BY <1>1 DEF TypeOK, Deleted

\* A cancel takes from the sets and adds to m_cancelingTimers.
LEMMA CancelTypes ==
  ASSUME TypeOK, NEW id \in TimerIds, CancelTimer(id)
  PROVE  /\ heap' \in [Addr -> Cell]
         /\ timers' \subseteq timers /\ activeTimers' \subseteq activeTimers
         /\ cancelingTimers' \subseteq TimerIds /\ stopped' \subseteq TimerIds
         /\ alarm' = alarm
<1>1. id[1] \in Addr
  BY DEF TimerIds
<1>2. CASE CancelActive(id)
  BY <1>1, <1>2, DeletedType DEF CancelActive, TimersWithout, DropsEntry, TypeOK
<1>3. CASE CancelExpired(id)
  BY <1>3 DEF CancelExpired, TypeOK
<1>4. CASE CancelUnknown(id)
  BY <1>4 DEF CancelUnknown, setVars, TypeOK
<1> QED BY <1>2, <1>3, <1>4 DEF CancelTimer

LEMMA ArmedTypes ==
  ASSUME NEW e \in Times, now \in Times PROVE ArmedFor(e) \in Times
BY DEF ArmedFor, Times

\* An insertion and a new timer are of the right types.
LEMMA InsertTypes ==
  ASSUME TypeOK, NEW a \in Addr, NEW c \in Cell, InsertCell(a, c)
  PROVE  /\ timers' \subseteq Times \X Addr /\ activeTimers' \subseteq TimerIds
         /\ alarm' \in Times \union {NoAlarm}
<1>1. c.exp \in Times /\ c.seq \in Seqs
  BY DEF Cell
<1>2. ArmedFor(c.exp) \in Times
  BY <1>1, ArmedTypes DEF TypeOK
<1>3. <<c.exp, a>> \in Times \X Addr /\ <<a, c.seq>> \in TimerIds
  BY <1>1 DEF TimerIds
<1> QED BY <1>2, <1>3 DEF InsertCell, TypeOK

LEMMA NewTypes ==
  ASSUME TypeOK, NEW a \in Addr, NEW q \in Requests, NewTimer(a, q[1], q[2])
  PROVE  /\ New(a, q[1], q[2]) \in Cell /\ heap' \in [Addr -> Cell]
         /\ numCreated' \in Seqs /\ <<a, numCreated + 1>> \in TimerIds
<1>1. numCreated + 1 \in Seqs
  BY TimerAssumption DEF TypeOK, NewTimer, Seqs
<1>2. q[1] \in Times /\ q[2] \in BOOLEAN
  <2>1. now \in Nat
    BY DEF TypeOK, Times
  <2>2. ASSUME NEW d \in Delays, q = <<now + d, FALSE>> PROVE q[1] \in Nat /\ q[2] \in BOOLEAN
    BY <2>1, <2>2, TimerAssumption
  <2>3. CASE q = <<now + Interval, TRUE>>
    BY <2>1, <2>3, TimerAssumption DEF Times
  <2>4. (\E d \in Delays : q = <<now + d, FALSE>>) \/ q = <<now + Interval, TRUE>>
    BY DEF Requests
  <2> QED BY <2>2, <2>3, <2>4 DEF Times
<1>3. New(a, q[1], q[2]) \in Cell
  BY <1>1, <1>2 DEF New, Cell
<1> QED BY <1>1, <1>3 DEF NewTimer, TypeOK, TimerIds

\* Steps that leave alone what the types are not obvious of.
LEMMA QuietTypes ==
  ASSUME TypeInv,
         \/ LoopQuit \/ Start \/ Continue \/ Poll \/ PollTimeout \/ ReadEventfd
         \/ CallbackReturns \/ Dispatched \/ FunctorsDone \/ RunNext \/ SwapPending
         \/ Tick \/ \E t \in Threads : ThreadQuit(t) \/ WriteEventfd(t)
         \/ UNCHANGED vars
  PROVE  TypeInv'
<1> USE DEF TypeInv, TypeOK, MadeInv
<1>1. CASE LoopQuit \/ Start \/ Continue \/ PollTimeout
  BY <1>1 DEF LoopQuit, Start, Continue, PollTimeout, setVars, loopVars, shareVars, threadVars
<1>2. CASE Poll
  BY <1>2 DEF Poll, Readable, setVars, shareVars, threadVars
<1>3. CASE ReadEventfd \/ RunNext
  BY <1>3 DEF ReadEventfd, RunNext, setVars, shareVars, threadVars
<1>4. CASE CallbackReturns \/ Dispatched \/ FunctorsDone
  BY <1>4 DEF CallbackReturns, Dispatched, FunctorsDone, setVars, loopVars, shareVars, threadVars
<1>5. CASE SwapPending
  <2>1. <<>> \in Seq(Functor)
    OBVIOUS
  <2> QED BY <1>5, <2>1 DEF SwapPending, setVars, threadVars
<1>6. CASE Tick
  BY <1>6 DEF Tick, Times, setVars, loopVars, shareVars, threadVars
<1>7. ASSUME NEW t \in Threads, ThreadQuit(t) PROVE TypeInv'
  BY <1>7 DEF ThreadQuit, setVars, loopVars, shareVars
<1>8. ASSUME NEW t \in Threads, WriteEventfd(t) PROVE TypeInv'
  BY <1>8 DEF WriteEventfd, EventfdAfterWrite, WakesLoop, setVars, loopVars
<1>9. CASE UNCHANGED vars
  BY <1>9 DEF vars, setVars, loopVars, shareVars, threadVars
<1> QED BY <1>1, <1>2, <1>3, <1>4, <1>5, <1>6, <1>7, <1>8, <1>9

\* Steps of the loop thread that change the sets or the heap.
LEMMA LoopTypes ==
  ASSUME TypeInv, LoopAdd \/ LoopCancel \/ End \/ HandleEvent \/ Reset \/ RunFunctor
  PROVE  TypeInv'
<1>1. CASE LoopAdd
  <2>1. PICK a \in Addr, q \in Requests :
           /\ NewTimer(a, q[1], q[2]) /\ InsertCell(a, New(a, q[1], q[2]))
           /\ ids' = ids \union {<<a, numCreated + 1>>}
    BY <1>1 DEF LoopAdd
  <2>2. /\ heap' \in [Addr -> Cell] /\ numCreated' \in Seqs /\ ids' \subseteq TimerIds
        /\ New(a, q[1], q[2]) \in Cell
    BY <2>1, NewTypes DEF TypeInv, TypeOK
  <2>3. /\ timers' \subseteq Times \X Addr /\ activeTimers' \subseteq TimerIds
        /\ alarm' \in Times \union {NoAlarm}
    BY <2>1, <2>2, InsertTypes DEF TypeInv
  <2> QED BY <1>1, <2>2, <2>3 DEF LoopAdd, TypeInv, TypeOK, MadeInv, loopVars, shareVars, threadVars
<1>2. CASE LoopCancel
  <2>1. PICK id \in ids : CancelTimer(id)
    BY <1>2 DEF LoopCancel
  <2>2. id \in TimerIds
    BY DEF TypeInv, TypeOK
  <2>3. /\ heap' \in [Addr -> Cell]
        /\ timers' \subseteq timers /\ activeTimers' \subseteq activeTimers
        /\ cancelingTimers' \subseteq TimerIds /\ stopped' \subseteq TimerIds
        /\ alarm' = alarm
    BY <2>1, <2>2, CancelTypes DEF TypeInv
  <2> QED BY <1>2, <2>3 DEF LoopCancel, TypeInv, TypeOK, MadeInv, loopVars, shareVars, threadVars
<1>3. CASE End
  <2>1. \A a \in Addr : [heap[a] EXCEPT !.live = FALSE] \in Cell
    BY DEF TypeInv, TypeOK, Cell
  <2>2. heap' \in [Addr -> Cell]
    BY <1>3, <2>1 DEF End, TypeInv, TypeOK
  <2> QED BY <1>3, <2>2 DEF End, TypeInv, TypeOK, MadeInv, loopVars, shareVars, threadVars
<1>4. CASE HandleEvent
  <2>1. \A x \in timers : Id(x[2]) \in TimerIds
    BY DEF TypeInv, TypeOK, Id, TimerIds, Cell
  <2>2. /\ timers' \subseteq Times \X Addr /\ batch' \subseteq Times \X Addr
        /\ todo' \subseteq batch' /\ activeTimers' \subseteq TimerIds
    BY <1>4 DEF HandleEvent, ExpiredAt, TypeInv, TypeOK
  <2> QED BY <1>4, <2>2 DEF HandleEvent, TypeInv, TypeOK, MadeInv, shareVars, threadVars
<1>5. CASE Reset
  <2>1. Restarted \in Times
    BY TimerAssumption DEF Restarted, TypeInv, TypeOK, Times
  <2>2. Again \subseteq Addr
    BY DEF Again, TypeInv, TypeOK
  <2>3. heap' \in [Addr -> Cell]
    <3>1. \A a \in Addr : /\ [heap[a] EXCEPT !.live = FALSE] \in Cell
                          /\ [heap[a] EXCEPT !.exp = Restarted] \in Cell
      BY <2>1 DEF TypeInv, TypeOK, Cell
    <3> QED BY <1>5, <3>1 DEF Reset, TypeInv, TypeOK
  <2>4. timers' \subseteq Times \X Addr
    BY <1>5, <2>1, <2>2 DEF Reset, TypeInv, TypeOK
  <2>5. activeTimers' \subseteq TimerIds
    <3>1. \A a \in Addr : Id(a) \in TimerIds
      BY DEF TypeInv, TypeOK, Id, TimerIds, Cell
    <3> QED BY <1>5, <2>2, <3>1 DEF Reset, TypeInv, TypeOK
  <2>6. alarm' \in Times \union {NoAlarm}
    <3>1. alarm' = Rearms(timers')
      BY <1>5 DEF Reset, Rearmed
    <3>2. CASE timers' = {}
      BY <3>1, <3>2 DEF Rearms, TypeInv, TypeOK
    <3>3. CASE timers' # {}
      <4>1. \E x \in SomeEarliest(timers') : TRUE
        BY <2>4, <3>3, EarliestExists
      <4>2. PICK x \in timers' : alarm' = ArmedFor(x[1])
        BY <3>1, <3>3, <4>1 DEF Rearms, SomeEarliest
      <4> QED BY <2>4, <4>2, ArmedTypes DEF TypeInv, TypeOK
    <3> QED BY <3>2, <3>3
  <2> QED BY <1>5, <2>3, <2>4, <2>5, <2>6
           DEF Reset, TypeInv, TypeOK, MadeInv, Times, shareVars, threadVars
<1>6. CASE RunFunctor
  <2>1. functors # <<>> /\ functors \in Seq(Functor) /\ functors' = Tail(functors)
    BY <1>6 DEF RunFunctor, TypeInv, TypeOK
  <2>2. Head(functors) \in Functor /\ functors' \in Seq(Functor)
    BY <2>1
  <2>3. /\ heap' \in [Addr -> Cell]
        /\ timers' \subseteq Times \X Addr /\ activeTimers' \subseteq TimerIds
        /\ cancelingTimers' \subseteq TimerIds /\ stopped' \subseteq TimerIds
        /\ alarm' \in Times \union {NoAlarm}
    <3>1. CASE RunInsert
      <4>1. Head(functors).timer \in Addr
        BY <2>2, <3>1 DEF RunInsert, Functor
      <4>2. heap[Head(functors).timer] \in Cell
        BY <4>1 DEF TypeInv, TypeOK
      <4> QED BY <3>1, <4>1, <4>2, InsertTypes DEF RunInsert, TypeInv, TypeOK
    <3>2. CASE RunCancel
      <4>1. Head(functors).id \in TimerIds
        BY <2>2, <3>2 DEF RunCancel, Functor
      <4> QED BY <3>2, <4>1, CancelTypes DEF RunCancel, TypeInv, TypeOK
    <3> QED BY <1>6, <3>1, <3>2 DEF RunFunctor
  <2> QED BY <1>6, <2>2, <2>3 DEF RunFunctor, TypeInv, TypeOK, MadeInv, shareVars, threadVars
<1> QED BY <1>1, <1>2, <1>3, <1>4, <1>5, <1>6

LEMMA PushTypes ==
  ASSUME TypeOK, NEW f \in Functor, Push(f)
  PROVE  pendingFunctors' \in Seq(Functor)
BY DEF Push, TypeOK

\* Steps of another thread that queue a functor or read an id.
LEMMA ThreadTypes ==
  ASSUME TypeInv, NEW t \in Threads, ThreadAdd(t) \/ ThreadCancel(t) \/ ReadSeq(t)
  PROVE  TypeInv'
<1>1. CASE ThreadAdd(t)
  <2>1. PICK a \in Addr, q \in Requests :
           /\ NewTimer(a, q[1], q[2]) /\ Push([op |-> "insert", timer |-> a])
           /\ made' = [made EXCEPT ![t] = <<a, numCreated + 1>>]
    BY <1>1 DEF ThreadAdd
  <2>2. [op |-> "insert", timer |-> a] \in Functor
    BY DEF Functor
  <2>3. pendingFunctors' \in Seq(Functor)
    BY <2>1, <2>2, PushTypes DEF TypeInv
  <2>4. heap' \in [Addr -> Cell] /\ numCreated' \in Seqs /\ <<a, numCreated + 1>> \in TimerIds
    BY <2>1, NewTypes DEF TypeInv
  <2>5. /\ made' \in [Threads -> TimerIds \union {NoId}] /\ made'[t] \in TimerIds
        /\ \A u \in Threads : u # t => made'[u] = made[u]
    BY <2>1, <2>4 DEF TypeInv, TypeOK
  <2> QED BY <1>1, <2>3, <2>4, <2>5 DEF ThreadAdd, TypeInv, TypeOK, MadeInv, loopVars
<1>2. CASE ThreadCancel(t)
  <2>1. PICK id \in ids : Push([op |-> "cancel", id |-> id])
    BY <1>2 DEF ThreadCancel
  <2>2. [op |-> "cancel", id |-> id] \in Functor
    BY DEF Functor, TypeInv, TypeOK
  <2>3. pendingFunctors' \in Seq(Functor)
    BY <2>1, <2>2, PushTypes DEF TypeInv
  <2> QED BY <1>2, <2>3 DEF ThreadCancel, TypeInv, TypeOK, MadeInv, setVars, loopVars
<1>3. CASE ReadSeq(t)
  <2>1. made[t] \in TimerIds
    BY <1>3 DEF ReadSeq, TypeInv, MadeInv
  <2>2. Id(made[t][1]) \in TimerIds
    BY <2>1 DEF TypeInv, TypeOK, Id, TimerIds, Cell
  <2>3. ids' \subseteq TimerIds
    BY <1>3, <2>2 DEF ReadSeq, ReadsId, TypeInv, TypeOK
  <2> QED BY <1>3, <2>3 DEF ReadSeq, TypeInv, TypeOK, MadeInv, setVars, loopVars, shareVars
<1> QED BY <1>1, <1>2, <1>3

LEMMA StepTypes == TypeInv /\ [Next]_vars => TypeInv'
<1> SUFFICES ASSUME TypeInv, [Next]_vars PROVE TypeInv'
  OBVIOUS
<1>1. CASE LoopUser
  BY <1>1, QuietTypes, LoopTypes DEF LoopUser
<1>2. CASE LoopStep
  BY <1>2, QuietTypes, LoopTypes DEF LoopStep
<1>3. ASSUME NEW t \in Threads, ThreadUser(t) \/ ThreadStep(t) PROVE TypeInv'
  BY <1>3, QuietTypes, ThreadTypes DEF ThreadUser, ThreadStep
<1>4. CASE Start \/ PollTimeout \/ Tick \/ UNCHANGED vars
  BY <1>4, QuietTypes
<1> QED BY <1>1, <1>2, <1>3, <1>4 DEF Next

\* The variables of TimerScheduler keep to their types: the sequences stay
\* within the timers created, the alarm is a time or none.
THEOREM TimerTypes == Spec => []TypeOK
<1>1. Spec => []TypeInv
  BY InitTypes, StepTypes, PTL DEF Spec
<1>2. TypeInv => TypeOK
  BY DEF TypeInv
<1> QED BY <1>1, <1>2, PTL
-----------------------------------------------------------------------------
(* Queues of functors *)

LEMMA InsertsAppend ==
  ASSUME NEW s \in Seq(Functor), NEW f
  PROVE  InFunctors(Append(s, f)) = InFunctors(s) \union (IF f.op = "insert" THEN {f.timer} ELSE {})
<1>1. /\ DOMAIN Append(s, f) = DOMAIN s \union {Len(s) + 1}
      /\ Len(s) + 1 \notin DOMAIN s
      /\ Append(s, f)[Len(s) + 1] = f
      /\ \A i \in DOMAIN s : Append(s, f)[i] = s[i]
  OBVIOUS
<1> DEFINE t == Append(s, f)
<1> HIDE DEF t
<1>2. InFunctors(t) = InFunctors(s) \union (IF f.op = "insert" THEN {f.timer} ELSE {})
  BY <1>1 DEF InFunctors, t
<1> QED BY <1>2 DEF t

LEMMA OnceAppend ==
  ASSUME NEW s \in Seq(Functor), NEW f, Once(s),
         f.op = "insert" => f.timer \notin InFunctors(s)
  PROVE  Once(Append(s, f))
<1>1. /\ DOMAIN Append(s, f) = DOMAIN s \union {Len(s) + 1}
      /\ Append(s, f)[Len(s) + 1] = f
      /\ \A i \in DOMAIN s : Append(s, f)[i] = s[i]
  OBVIOUS
<1>2. \A i \in DOMAIN s : s[i].op = "insert" /\ f.op = "insert" => s[i].timer # f.timer
  BY DEF InFunctors
<1> QED BY <1>1, <1>2 DEF Once

LEMMA InsertsTail ==
  ASSUME NEW s \in Seq(Functor), s # <<>>, Once(s)
  PROVE  /\ Once(Tail(s))
         /\ InFunctors(Tail(s)) = IF Head(s).op = "insert" THEN InFunctors(s) \ {Head(s).timer}
                                  ELSE InFunctors(s)
         /\ Head(s).op = "insert" => Head(s).timer \in InFunctors(s)
<1>1. /\ Len(s) \in Nat \ {0} /\ DOMAIN s = 1 .. Len(s) /\ Head(s) = s[1]
      /\ DOMAIN Tail(s) = 1 .. Len(s) - 1
      /\ \A i \in DOMAIN Tail(s) : i + 1 \in DOMAIN s /\ Tail(s)[i] = s[i + 1]
  OBVIOUS
<1>2. \A i \in DOMAIN s : i # 1 => i - 1 \in DOMAIN Tail(s) /\ Tail(s)[i - 1] = s[i]
  <2> TAKE i \in DOMAIN s
  <2> HAVE i # 1
  <2>1. i - 1 \in DOMAIN Tail(s) /\ (i - 1) + 1 = i
    BY <1>1
  <2> QED BY <1>1, <2>1
<1>3. Once(Tail(s))
  <2> SUFFICES ASSUME NEW i \in DOMAIN Tail(s), NEW j \in DOMAIN Tail(s),
                      Tail(s)[i].op = "insert", Tail(s)[j].op = "insert",
                      Tail(s)[i].timer = Tail(s)[j].timer
               PROVE  i = j
    BY DEF Once
  <2>1. i + 1 = j + 1
    BY <1>1 DEF Once
  <2> QED BY <1>1, <2>1
<1> DEFINE t == Tail(s)
<1> HIDE DEF t
<1>4. \A i \in DOMAIN s : i = 1 \/ \E j \in DOMAIN t : t[j] = s[i]
  BY <1>2 DEF t
<1>5. \A j \in DOMAIN t : \E i \in DOMAIN s : i # 1 /\ t[j] = s[i]
  <2> TAKE j \in DOMAIN t
  <2>1. j + 1 \in DOMAIN s /\ j + 1 # 1 /\ t[j] = s[j + 1]
    BY <1>1 DEF t
  <2> QED BY <2>1
<1>6. 1 \in DOMAIN s
  BY <1>1
<1>7. InFunctors(t) = IF Head(s).op = "insert" THEN InFunctors(s) \ {Head(s).timer}
                      ELSE InFunctors(s)
  <2>1. CASE Head(s).op = "insert"
    <3>1. ASSUME NEW a \in InFunctors(t) PROVE a \in InFunctors(s) /\ a # Head(s).timer
      <4>1. PICK j \in DOMAIN t : t[j].op = "insert" /\ t[j].timer = a
        BY DEF InFunctors
      <4>2. PICK i \in DOMAIN s : i # 1 /\ t[j] = s[i]
        BY <1>5
      <4> QED BY <1>1, <1>6, <2>1, <4>1, <4>2 DEF InFunctors, Once
    <3>2. ASSUME NEW a \in InFunctors(s), a # Head(s).timer PROVE a \in InFunctors(t)
      <4>1. PICK i \in DOMAIN s : s[i].op = "insert" /\ s[i].timer = a
        BY DEF InFunctors
      <4>2. PICK j \in DOMAIN t : t[j] = s[i]
        BY <1>1, <1>4, <3>2, <4>1
      <4> QED BY <4>1, <4>2 DEF InFunctors
    <3> QED BY <2>1, <3>1, <3>2
  <2>2. CASE Head(s).op # "insert"
    <3>1. \A i \in DOMAIN s : s[i].op = "insert" => i # 1
      BY <1>1, <2>2
    <3> QED BY <1>4, <1>5, <2>2, <3>1 DEF InFunctors
  <2> QED BY <2>1, <2>2
<1>8. Head(s).op = "insert" => Head(s).timer \in InFunctors(s)
  BY <1>1, <1>6 DEF InFunctors
<1> QED BY <1>3, <1>7, <1>8 DEF t

LEMMA InsertsAreAddrs ==
  ASSUME pendingFunctors \in Seq(Functor), functors \in Seq(Functor)
  PROVE  /\ InFunctors(pendingFunctors) \subseteq Addr /\ InFunctors(functors) \subseteq Addr
<1>1. ASSUME NEW f \in Functor, f.op = "insert" PROVE f.timer \in Addr
  BY <1>1 DEF Functor
<1>2. ASSUME NEW s \in Seq(Functor) PROVE InFunctors(s) \subseteq Addr
  <2>1. \A i \in DOMAIN s : s[i] \in Functor
    OBVIOUS
  <2> QED BY <1>1, <2>1 DEF InFunctors
<1> QED BY <1>2
-----------------------------------------------------------------------------
(* One place for each timer *)

LEMMA InitHeap == Init => HeapInv
<1> SUFFICES ASSUME Init PROVE HeapInv
  OBVIOUS
<1>1. /\ timers = {} /\ activeTimers = {} /\ cancelingTimers = {} /\ batch = {} /\ stopped = {}
      /\ pendingFunctors = <<>> /\ functors = <<>> /\ numCreated = 0
      /\ \A a \in Addr : heap[a].seq = 0
  BY DEF Init, NoCell
<1>2. InFunctors(<<>>) = {} /\ Once(<<>>)
  BY DEF InFunctors, Once
<1>3. Queued = {} /\ Expired = {}
  BY <1>1, <1>2 DEF Queued, Expired
<1> QED BY <1>1, <1>2, <1>3
        DEF HeapInv, SetsAgree, NoDangling, CancelStands, PlaceInv, OnceInv, SeqInv, StoppedInv,
            AddrsOf

\* Steps that move no timer.
LEMMA QuietHeap ==
  ASSUME HeapInv, batch # {} => Calling',
         UNCHANGED <<heap, timers, activeTimers, cancelingTimers, batch>>,
         UNCHANGED <<pendingFunctors, functors, stopped, numCreated>>
  PROVE  HeapInv'
<1>1. Queued' = Queued /\ Expired' = Expired /\ AddrsOf(timers)' = AddrsOf(timers)
      /\ AddrsOf(batch)' = AddrsOf(batch) /\ AddrsOf(timers \union batch)' = AddrsOf(timers \union batch)
  BY DEF Queued, Expired, AddrsOf, Id, InFunctors
<1>2. SetsAgree' /\ NoDangling' /\ CancelStands'
  BY <1>1 DEF HeapInv, SetsAgree, NoDangling, CancelStands, Id
<1>3. PlaceInv'
  <2>1. InFunctors(pendingFunctors)' = InFunctors(pendingFunctors)
        /\ InFunctors(functors)' = InFunctors(functors)
    BY DEF InFunctors
  <2> QED BY <1>1, <2>1 DEF HeapInv, PlaceInv
<1>4. OnceInv' /\ SeqInv' /\ StoppedInv'
  BY <1>1 DEF HeapInv, OnceInv, Once, SeqInv, StoppedInv, Id
<1> QED BY <1>2, <1>3, <1>4 DEF HeapInv

LEMMA QuietStepsHeap ==
  ASSUME TypeInv, HeapInv,
         \/ LoopQuit \/ Start \/ Continue \/ Poll \/ PollTimeout \/ ReadEventfd
         \/ CallbackReturns \/ Dispatched \/ FunctorsDone \/ RunNext
         \/ Tick \/ \E t \in Threads : ThreadQuit(t) \/ WriteEventfd(t) \/ ReadSeq(t)
         \/ UNCHANGED vars
  PROVE  HeapInv'
<1>1. batch # {} => Calling
  BY DEF HeapInv, PlaceInv
<1>2. CASE LoopQuit \/ Start \/ Continue \/ Poll \/ PollTimeout \/ ReadEventfd
  BY <1>1, <1>2, QuietHeap
     DEF LoopQuit, Start, Continue, Poll, PollTimeout, ReadEventfd, Calling,
         setVars, loopVars, shareVars, threadVars
<1>3. CASE CallbackReturns \/ Dispatched \/ FunctorsDone \/ RunNext
  BY <1>1, <1>3, QuietHeap
     DEF CallbackReturns, Dispatched, FunctorsDone, RunNext, Calling,
         setVars, loopVars, shareVars, threadVars
<1>4. CASE Tick \/ UNCHANGED vars
  BY <1>1, <1>4, QuietHeap DEF Tick, Calling, vars, setVars, loopVars, shareVars, threadVars
<1>5. ASSUME NEW t \in Threads, ThreadQuit(t) \/ WriteEventfd(t) \/ ReadSeq(t) PROVE HeapInv'
  BY <1>1, <1>5, QuietHeap
     DEF ThreadQuit, WriteEventfd, ReadSeq, Calling, setVars, loopVars, shareVars, threadVars
<1> QED BY <1>2, <1>3, <1>4, <1>5

\* cancel_timer takes a timer out of both sets, or marks an expired one.
LEMMA CancelHeap ==
  ASSUME TypeInv, HeapInv, NEW id \in TimerIds, CancelTimer(id),
         UNCHANGED <<batch, pendingFunctors, numCreated, pc>>,
         InFunctors(functors') = InFunctors(functors), Once(functors')
  PROVE  HeapInv'
<1>1. /\ Queued' = Queued /\ InFunctors(pendingFunctors)' = InFunctors(pendingFunctors)
      /\ InFunctors(functors)' = InFunctors(functors) /\ OnceInv'
  BY DEF Queued, InFunctors, HeapInv, OnceInv, Once
<1>2. id[1] \in Addr
  BY DEF TimerIds
<1>3. CASE CancelActive(id)
  <2>1. /\ id \in activeTimers /\ timers' = timers \ {Entry(id[1])}
        /\ activeTimers' = activeTimers \ {id} /\ stopped' = stopped \union {id}
        /\ UNCHANGED <<cancelingTimers, alarm>>
        /\ heap' = [heap EXCEPT ![id[1]].live = FALSE]
    BY <1>3 DEF CancelActive, TimersWithout, DropsEntry, Deleted
  <2>2. PICK x \in timers : id = Id(x[2])
    BY <2>1 DEF HeapInv, SetsAgree
  <2>3. id[1] = x[2] /\ x[1] = heap[x[2]].exp /\ x \in Times \X Addr /\ Entry(id[1]) = x
        /\ id = Id(id[1])
    BY <2>2 DEF HeapInv, SetsAgree, Id, Entry, TypeInv, TypeOK
  <2>4. /\ timers' = timers \ {x} /\ \A y \in timers' : y[2] # id[1]
    BY <2>1, <2>3 DEF HeapInv, SetsAgree
  <2>5. /\ \A a \in Addr : /\ heap'[a].seq = heap[a].seq /\ heap'[a].exp = heap[a].exp
                           /\ a # id[1] => heap'[a] = heap[a]
    BY <2>1, <1>2 DEF TypeInv, TypeOK, Cell
  <2>6. AddrsOf(timers') \subseteq AddrsOf(timers) \ {id[1]} /\ id[1] \in AddrsOf(timers)
        /\ AddrsOf(timers') \subseteq Addr /\ AddrsOf(batch) \subseteq Addr
    BY <2>2, <2>3, <2>4 DEF AddrsOf, TypeInv, TypeOK
  <2>7. id[1] \notin AddrsOf(batch) /\ id[1] \notin Queued
    BY <2>6 DEF HeapInv, PlaceInv, AddrsOf
  <2>8. Queued \subseteq Addr
    BY InsertsAreAddrs DEF TypeInv, TypeOK, Queued
  <2>9. \A a \in Addr : Id(a)' = Id(a)
    BY <2>5 DEF Id
  <2>10. Expired' = Expired /\ id \notin Expired
    BY <2>3, <2>6, <2>7, <2>9 DEF Expired, AddrsOf, Id
  <2>11. SetsAgree'
    <3>1. activeTimers' = {Id(y[2])' : y \in timers'}
      <4>1. \A y \in timers : Id(y[2]) = id <=> y = x
        BY <2>2, <2>3 DEF Id, HeapInv, SetsAgree
      <4>2. \A y \in timers : y[2] \in Addr
        BY DEF TypeInv, TypeOK
      <4> QED BY <2>1, <2>4, <2>9, <4>1, <4>2 DEF HeapInv, SetsAgree
    <3>2. \A y \in timers' : y \in timers /\ y[2] \in Addr
      BY <2>4 DEF TypeInv, TypeOK
    <3> QED BY <2>5, <3>1, <3>2 DEF HeapInv, SetsAgree
  <2>12. NoDangling'
    <3>1. \A a \in AddrsOf(timers') \union AddrsOf(batch) \union Queued :
             a \in Addr /\ a # id[1] /\ heap[a].live
      BY <2>6, <2>7, <2>8 DEF HeapInv, NoDangling, AddrsOf
    <3> QED BY <1>1, <2>5, <3>1 DEF NoDangling, AddrsOf
  <2>13. CancelStands'
    BY <2>1 DEF HeapInv, CancelStands
  <2>14. PlaceInv'
    <3>1. Calling' = Calling
      BY DEF Calling
    <3>2. AddrsOf(timers' \union batch) \subseteq AddrsOf(timers \union batch)
      BY <2>4 DEF AddrsOf
    <3> QED BY <1>1, <2>6, <3>1, <3>2 DEF HeapInv, PlaceInv, AddrsOf
  <2>15. SeqInv'
    <3>1. id[2] <= numCreated
      BY <1>2, <2>3 DEF HeapInv, SeqInv, Id
    <3> QED BY <2>1, <2>5, <3>1 DEF HeapInv, SeqInv
  <2>16. StoppedInv'
    <3>1. \A a \in Queued : a \in Addr /\ Id(a) # id
      BY <2>3, <2>7, <2>8 DEF Id
    <3> QED BY <1>1, <2>1, <2>9, <2>10, <3>1 DEF HeapInv, StoppedInv
  <2> QED BY <1>1, <2>11, <2>12, <2>13, <2>14, <2>15, <2>16 DEF HeapInv
<1>4. CASE CancelExpired(id)
  <2>1. /\ id \notin activeTimers /\ Calling
        /\ cancelingTimers' = cancelingTimers \union {id}
        /\ stopped' = stopped \union (Expired \intersect {id})
        /\ UNCHANGED <<timers, activeTimers, heap>>
    BY <1>4 DEF CancelExpired
  <2>2. Expired' = Expired /\ Calling' /\ \A a : Id(a)' = Id(a)
    BY <2>1 DEF Expired, Calling, Id
  <2>3. SetsAgree' /\ NoDangling' /\ CancelStands'
    BY <1>1, <2>1, <2>2 DEF HeapInv, SetsAgree, NoDangling, CancelStands
  <2>4. PlaceInv'
    BY <1>1, <2>1, <2>2 DEF HeapInv, PlaceInv, AddrsOf
  <2>5. \A y \in batch : y[2] \in Addr
    BY DEF TypeInv, TypeOK
  <2>6. \A i \in Expired : \E a \in AddrsOf(batch) : a \in Addr /\ i = Id(a) /\ i[2] = heap[a].seq
                                                     /\ i[1] = a
    BY <2>5 DEF Expired, Id, AddrsOf
  <2>7. SeqInv'
    BY <2>1, <2>6 DEF HeapInv, SeqInv
  <2>8. StoppedInv'
    <3>1. \A a \in Queued : a \notin AddrsOf(batch)
      BY DEF HeapInv, PlaceInv, AddrsOf
    <3>2. \A a \in Queued : Id(a) \notin Expired
      BY <2>6, <3>1 DEF Id
    <3> QED BY <1>1, <2>1, <2>2, <3>2 DEF HeapInv, StoppedInv
  <2> QED BY <1>1, <2>3, <2>4, <2>7, <2>8 DEF HeapInv
<1>5. CASE CancelUnknown(id)
  <2>1. UNCHANGED <<timers, activeTimers, heap, cancelingTimers, stopped>>
    BY <1>5 DEF CancelUnknown, setVars
  <2>2. Expired' = Expired /\ Calling' = Calling /\ \A a : Id(a)' = Id(a)
    BY <2>1 DEF Expired, Calling, Id
  <2>3. SetsAgree' /\ NoDangling' /\ CancelStands' /\ SeqInv' /\ StoppedInv'
    BY <1>1, <2>1, <2>2 DEF HeapInv, SetsAgree, NoDangling, CancelStands, SeqInv, StoppedInv
  <2>4. PlaceInv'
    BY <1>1, <2>1, <2>2 DEF HeapInv, PlaceInv, AddrsOf
  <2> QED BY <1>1, <2>3, <2>4 DEF HeapInv
<1> QED BY <1>3, <1>4, <1>5 DEF CancelTimer

\* A new timer lies where no other one is, and has a number no id has.
LEMMA NewHeap ==
  ASSUME TypeInv, HeapInv, NEW a \in Addr, NEW q \in Requests, NewTimer(a, q[1], q[2])
  PROVE  /\ a \notin AddrsOf(timers) /\ a \notin AddrsOf(batch) /\ a \notin Queued
         /\ heap'[a] = New(a, q[1], q[2]) /\ heap'[a].live
         /\ heap'[a].exp = q[1] /\ Id(a)' = <<a, numCreated + 1>>
         /\ \A b \in Addr : b # a => heap'[b] = heap[b] /\ Id(b)' = Id(b)
         /\ numCreated' = numCreated + 1 /\ <<a, numCreated + 1>> \notin stopped
         /\ (stopped' = stopped => SeqInv')
<1>1. /\ heap' = [heap EXCEPT ![a] = New(a, q[1], q[2])] /\ ~heap[a].live
      /\ numCreated' = numCreated + 1 /\ numCreated \in Nat
  BY DEF NewTimer, TypeInv, TypeOK, Seqs
<1>2. heap'[a] = New(a, q[1], q[2]) /\ \A b \in Addr : b # a => heap'[b] = heap[b]
  BY <1>1 DEF TypeInv, TypeOK
<1>3. a \notin AddrsOf(timers) /\ a \notin AddrsOf(batch) /\ a \notin Queued
  BY <1>1 DEF HeapInv, NoDangling, AddrsOf
<1>4. heap'[a].live /\ heap'[a].exp = q[1] /\ heap'[a].seq = numCreated + 1
  BY <1>2 DEF New
<1>5. Id(a)' = <<a, numCreated + 1>> /\ \A b \in Addr : b # a => Id(b)' = Id(b)
  BY <1>2, <1>4 DEF Id
<1>6. <<a, numCreated + 1>> \notin stopped
  BY <1>1 DEF HeapInv, SeqInv
<1>7. stopped' = stopped => SeqInv'
  <2> HAVE stopped' = stopped
  <2>1. \A b \in Addr : heap'[b].seq <= numCreated'
    <3>1. \A b \in Addr : heap[b].seq \in Nat /\ heap[b].seq <= numCreated
      BY DEF HeapInv, SeqInv, TypeInv, TypeOK, Cell, Seqs
    <3> QED BY <1>1, <1>2, <1>4, <3>1
  <2>2. \A id \in stopped : id[2] \in Nat /\ id[2] <= numCreated
    BY DEF HeapInv, SeqInv, TypeInv, TypeOK, TimerIds, Seqs
  <2> QED BY <1>1, <2>1, <2>2 DEF SeqInv
<1> QED BY <1>1, <1>2, <1>3, <1>4, <1>5, <1>6, <1>7

LEMMA LoopAddHeap ==
  ASSUME TypeInv, HeapInv, LoopAdd
  PROVE  HeapInv'
<1>1. PICK a \in Addr, q \in Requests :
         NewTimer(a, q[1], q[2]) /\ InsertCell(a, New(a, q[1], q[2]))
  BY DEF LoopAdd
<1>2. /\ a \notin AddrsOf(timers) /\ a \notin AddrsOf(batch) /\ a \notin Queued
      /\ heap'[a].live /\ heap'[a].exp = q[1] /\ Id(a)' = <<a, numCreated + 1>>
      /\ \A b \in Addr : b # a => heap'[b] = heap[b] /\ Id(b)' = Id(b)
      /\ <<a, numCreated + 1>> \notin stopped /\ (stopped' = stopped => SeqInv')
  BY <1>1, NewHeap
<1>3. /\ timers' = timers \union {<<q[1], a>>}
      /\ activeTimers' = activeTimers \union {<<a, numCreated + 1>>}
      /\ UNCHANGED <<batch, pendingFunctors, functors, cancelingTimers, stopped, pc>>
  BY <1>1 DEF LoopAdd, InsertCell, New, loopVars, shareVars
<1>4. /\ \A y \in timers \union batch : y[2] \in Addr /\ y[2] # a
      /\ \A b \in Queued : b \in Addr /\ b # a
  BY <1>2, InsertsAreAddrs DEF AddrsOf, TypeInv, TypeOK, Queued
<1>5. /\ Queued' = Queued /\ InFunctors(pendingFunctors)' = InFunctors(pendingFunctors)
      /\ InFunctors(functors)' = InFunctors(functors) /\ OnceInv'
  BY <1>3 DEF Queued, InFunctors, HeapInv, OnceInv, Once
<1>6. Expired' = Expired
  BY <1>2, <1>3, <1>4 DEF Expired
<1>7. SetsAgree'
  <2>1. activeTimers' = {Id(y[2])' : y \in timers'}
    <3>1. \A y \in timers : Id(y[2])' = Id(y[2])
      BY <1>2, <1>4
    <3> DEFINE x == <<q[1], a>>
    <3>2. x[2] = a /\ timers' = timers \union {x} /\ Id(x[2])' = <<a, numCreated + 1>>
      BY <1>2, <1>3
    <3>3. activeTimers' = {Id(y[2]) : y \in timers} \union {Id(x[2])'}
      BY <1>3, <3>2 DEF HeapInv, SetsAgree
    <3> HIDE DEF x
    <3> QED BY <3>1, <3>2, <3>3
  <2>2. \A y \in timers' : y[1] = heap'[y[2]].exp
    BY <1>2, <1>3, <1>4 DEF HeapInv, SetsAgree
  <2>3. \A x, y \in timers' : x[2] = y[2] => x = y
    BY <1>3, <1>4 DEF HeapInv, SetsAgree
  <2> QED BY <2>1, <2>2, <2>3 DEF SetsAgree
<1>8. NoDangling'
  <2>1. \A b \in Queued : heap'[b].live
    BY <1>2, <1>4 DEF HeapInv, NoDangling
  <2>2. \A y \in timers \union batch : heap'[y[2]].live
    BY <1>2, <1>4 DEF HeapInv, NoDangling
  <2> QED BY <1>2, <1>3, <1>5, <2>1, <2>2 DEF NoDangling
<1>9. CancelStands'
  BY <1>2, <1>3 DEF HeapInv, CancelStands
<1>10. PlaceInv'
  <2>1. Calling' = Calling
    BY <1>3 DEF Calling
  <2>2. AddrsOf(timers') = AddrsOf(timers) \union {a}
        /\ AddrsOf(timers' \union batch) = AddrsOf(timers \union batch) \union {a}
    <3> DEFINE x == <<q[1], a>>
    <3>1. x[2] = a /\ timers' = timers \union {x}
      BY <1>3
    <3> HIDE DEF x
    <3> QED BY <3>1 DEF AddrsOf
  <2> QED BY <1>2, <1>3, <1>5, <2>1, <2>2 DEF HeapInv, PlaceInv
<1>11. StoppedInv'
  BY <1>2, <1>3, <1>4, <1>5, <1>6 DEF HeapInv, StoppedInv
<1> QED BY <1>2, <1>3, <1>5, <1>7, <1>8, <1>9, <1>10, <1>11 DEF HeapInv

LEMMA ThreadAddHeap ==
  ASSUME TypeInv, HeapInv, NEW t \in Threads, ThreadAdd(t)
  PROVE  HeapInv'
<1>1. PICK a \in Addr, q \in Requests :
         NewTimer(a, q[1], q[2]) /\ Push([op |-> "insert", timer |-> a])
  BY DEF ThreadAdd
<1>2. /\ a \notin AddrsOf(timers) /\ a \notin AddrsOf(batch) /\ a \notin Queued
      /\ heap'[a].live /\ Id(a)' = <<a, numCreated + 1>>
      /\ \A b \in Addr : b # a => heap'[b] = heap[b] /\ Id(b)' = Id(b)
      /\ <<a, numCreated + 1>> \notin stopped /\ (stopped' = stopped => SeqInv')
  BY <1>1, NewHeap
<1>3. /\ pendingFunctors' = Append(pendingFunctors, [op |-> "insert", timer |-> a])
      /\ UNCHANGED <<timers, activeTimers, batch, functors, cancelingTimers, stopped, pc>>
  BY <1>1 DEF ThreadAdd, Push, loopVars
<1>4. /\ \A y \in timers \union batch : y[2] \in Addr /\ y[2] # a
      /\ \A b \in Queued : b \in Addr /\ b # a
  BY <1>2, InsertsAreAddrs DEF AddrsOf, TypeInv, TypeOK, Queued
<1>5. /\ InFunctors(pendingFunctors)' = InFunctors(pendingFunctors) \union {a}
      /\ InFunctors(functors)' = InFunctors(functors) /\ Queued' = Queued \union {a}
  <2>1. InFunctors(pendingFunctors') = InFunctors(pendingFunctors) \union {a}
    BY <1>3, InsertsAppend DEF TypeInv, TypeOK
  <2> QED BY <1>3, <2>1 DEF Queued, InFunctors
<1>6. OnceInv'
  <2>1. Once(pendingFunctors) /\ Once(functors) /\ a \notin InFunctors(pendingFunctors)
    BY <1>2 DEF HeapInv, OnceInv, Queued
  <2>2. Once(pendingFunctors')
    BY <1>3, <2>1, OnceAppend DEF TypeInv, TypeOK
  <2> QED BY <1>3, <2>1, <2>2 DEF OnceInv, Once
<1>7. Expired' = Expired /\ \A y \in timers : Id(y[2])' = Id(y[2])
  BY <1>2, <1>3, <1>4 DEF Expired
<1>8. SetsAgree'
  BY <1>2, <1>3, <1>4, <1>7 DEF HeapInv, SetsAgree
<1>9. NoDangling'
  <2>1. \A b \in Queued : heap'[b].live
    BY <1>2, <1>4 DEF HeapInv, NoDangling
  <2>2. \A y \in timers \union batch : heap'[y[2]].live
    BY <1>2, <1>4 DEF HeapInv, NoDangling
  <2> QED BY <1>2, <1>3, <1>5, <2>1, <2>2 DEF NoDangling
<1>10. CancelStands'
  BY <1>3 DEF HeapInv, CancelStands
<1>11. PlaceInv'
  <2>1. Calling' = Calling
    BY <1>3 DEF Calling
  <2>2. a \notin AddrsOf(timers \union batch) /\ a \notin InFunctors(functors)
    BY <1>2 DEF AddrsOf, Queued
  <2> QED BY <1>3, <1>5, <2>1, <2>2 DEF HeapInv, PlaceInv, AddrsOf
<1>12. StoppedInv'
  BY <1>2, <1>3, <1>4, <1>5, <1>7 DEF HeapInv, StoppedInv
<1> QED BY <1>2, <1>3, <1>6, <1>8, <1>9, <1>10, <1>11, <1>12 DEF HeapInv

LEMMA ThreadCancelHeap ==
  ASSUME TypeInv, HeapInv, NEW t \in Threads, ThreadCancel(t)
  PROVE  HeapInv'
<1>1. PICK id \in ids : Push([op |-> "cancel", id |-> id])
  BY DEF ThreadCancel
<1>2. /\ pendingFunctors' = Append(pendingFunctors, [op |-> "cancel", id |-> id])
      /\ UNCHANGED <<heap, timers, activeTimers, cancelingTimers, batch>>
      /\ UNCHANGED <<functors, stopped, numCreated, pc>>
  BY <1>1 DEF ThreadCancel, Push, setVars, loopVars
<1>3. /\ InFunctors(pendingFunctors)' = InFunctors(pendingFunctors)
      /\ InFunctors(functors)' = InFunctors(functors) /\ Queued' = Queued
  <2>1. InFunctors(pendingFunctors') = InFunctors(pendingFunctors)
    BY <1>2, InsertsAppend DEF TypeInv, TypeOK
  <2> QED BY <1>2, <2>1 DEF Queued, InFunctors
<1>4. OnceInv'
  <2>1. Once(pendingFunctors')
    BY <1>2, OnceAppend DEF TypeInv, TypeOK, HeapInv, OnceInv
  <2> QED BY <1>2, <2>1 DEF HeapInv, OnceInv, Once
<1>5. Expired' = Expired /\ Calling' = Calling /\ \A a : Id(a)' = Id(a)
  BY <1>2 DEF Expired, Calling, Id
<1>6. SetsAgree' /\ NoDangling' /\ CancelStands' /\ SeqInv' /\ StoppedInv'
  BY <1>2, <1>3, <1>5 DEF HeapInv, SetsAgree, NoDangling, CancelStands, SeqInv, StoppedInv
<1>7. PlaceInv'
  BY <1>2, <1>3, <1>5 DEF HeapInv, PlaceInv, AddrsOf
<1> QED BY <1>4, <1>6, <1>7 DEF HeapInv

\* The expired timers leave both sets for the batch.
LEMMA HandleEventHeap ==
  ASSUME TypeInv, HeapInv, HandleEvent
  PROVE  HeapInv'
<1> DEFINE expired == ExpiredAt(now)
<1>1. /\ timers' = timers \ expired /\ batch' = expired /\ cancelingTimers' = {}
      /\ activeTimers' = activeTimers \ {Id(x[2]) : x \in expired}
      /\ UNCHANGED <<heap, pendingFunctors, functors, stopped, numCreated>>
      /\ Calling' /\ expired \subseteq timers
  BY DEF HandleEvent, ExpiredAt, Calling, shareVars
<1> HIDE DEF expired
<1>2. /\ InFunctors(pendingFunctors)' = InFunctors(pendingFunctors)
      /\ InFunctors(functors)' = InFunctors(functors) /\ Queued' = Queued
      /\ \A a : Id(a)' = Id(a)
  BY <1>1 DEF Queued, InFunctors, Id
<1>3. \A x, y \in timers : Id(x[2]) = Id(y[2]) => x = y
  BY DEF HeapInv, SetsAgree, Id
<1>4. SetsAgree'
  <2>1. activeTimers' = {Id(x[2]) : x \in timers'}
    BY <1>1, <1>3 DEF HeapInv, SetsAgree
  <2> QED BY <1>1, <1>2, <2>1 DEF HeapInv, SetsAgree
<1>5. NoDangling'
  BY <1>1, <1>2 DEF HeapInv, NoDangling
<1>6. CancelStands'
  BY <1>1 DEF HeapInv, CancelStands
<1>7. PlaceInv'
  <2>1. AddrsOf(timers') \intersect AddrsOf(batch') = {}
    BY <1>1 DEF HeapInv, SetsAgree, AddrsOf
  <2>2. AddrsOf(timers' \union batch') \subseteq AddrsOf(timers \union batch)
    BY <1>1 DEF AddrsOf
  <2> QED BY <1>1, <1>2, <2>1, <2>2 DEF HeapInv, PlaceInv, AddrsOf
<1>8. OnceInv' /\ SeqInv'
  BY <1>1 DEF HeapInv, OnceInv, Once, SeqInv
<1>9. StoppedInv'
  <2>1. Expired' = {Id(x[2]) : x \in expired}
    BY <1>1, <1>2 DEF Expired
  <2>2. stopped \intersect {Id(x[2]) : x \in expired} = {}
    BY <1>1 DEF HeapInv, CancelStands, SetsAgree
  <2> QED BY <1>1, <1>2, <2>1, <2>2 DEF HeapInv, StoppedInv
<1> QED BY <1>4, <1>5, <1>6, <1>7, <1>8, <1>9 DEF HeapInv

\* What repeats goes back into both sets, the rest is deleted.
LEMMA ResetHeap ==
  ASSUME TypeInv, HeapInv, Reset
  PROVE  HeapInv'
<1>1. /\ timers' = timers \union {<<Restarted, a>> : a \in Again} /\ batch' = {}
      /\ activeTimers' = activeTimers \union {Id(a) : a \in Again}
      /\ UNCHANGED <<cancelingTimers, pendingFunctors, functors, stopped, numCreated>>
      /\ heap' = [a \in Addr |->
                    IF a \in Again THEN [heap[a] EXCEPT !.exp = Restarted]
                    ELSE IF a \in Done THEN [heap[a] EXCEPT !.live = FALSE]
                    ELSE heap[a]]
  BY DEF Reset, shareVars
<1>2. /\ Again \subseteq AddrsOf(batch) /\ Done = AddrsOf(batch) \ Again
      /\ AddrsOf(batch) \subseteq Addr /\ AddrsOf(timers) \subseteq Addr /\ Queued \subseteq Addr
      /\ \A a \in Again : Id(a) \notin cancelingTimers
  BY InsertsAreAddrs
     DEF Again, Done, AddrsOf, Repeats, RepeatsUncancelled, TypeInv, TypeOK, Queued
<1>3. /\ \A a \in Addr : heap'[a].seq = heap[a].seq /\ Id(a)' = Id(a)
      /\ \A a \in Again : heap'[a].exp = Restarted /\ heap'[a].live = heap[a].live
      /\ \A a \in Addr \ AddrsOf(batch) : heap'[a] = heap[a]
  BY <1>1, <1>2 DEF TypeInv, TypeOK, Cell, Id
<1>4. /\ InFunctors(pendingFunctors)' = InFunctors(pendingFunctors)
      /\ InFunctors(functors)' = InFunctors(functors) /\ Queued' = Queued
  BY <1>1 DEF Queued, InFunctors
<1>5. /\ \A x \in timers : x[2] \notin AddrsOf(batch) /\ x[2] \in Addr
      /\ \A a \in Queued : a \notin AddrsOf(batch) /\ a \notin AddrsOf(timers) /\ a \in Addr
  BY <1>2 DEF HeapInv, PlaceInv, AddrsOf
<1>6. \A x \in timers' : \/ x \in timers
                         \/ x[2] \in Again /\ x = <<Restarted, x[2]>> /\ x[1] = Restarted
  BY <1>1
<1>7. AddrsOf(timers') = AddrsOf(timers) \union Again
  <2>1. \A a \in Again : <<Restarted, a>> \in timers' /\ <<Restarted, a>>[2] = a
    BY <1>1
  <2>2. timers \subseteq timers'
    BY <1>1
  <2> QED BY <1>6, <2>1, <2>2 DEF AddrsOf
<1>8. SetsAgree'
  <2>1. activeTimers' = {Id(x[2])' : x \in timers'}
    <3>1. activeTimers = {Id(a) : a \in AddrsOf(timers)}
      BY DEF HeapInv, SetsAgree, AddrsOf
    <3>2. {Id(x[2])' : x \in timers'} = {Id(a)' : a \in AddrsOf(timers')}
      BY DEF AddrsOf
    <3>3. activeTimers' = {Id(a) : a \in AddrsOf(timers')}
      BY <1>1, <1>7, <3>1
    <3>4. \A a \in AddrsOf(timers') : Id(a)' = Id(a)
      BY <1>2, <1>3, <1>7
    <3> QED BY <3>2, <3>3, <3>4
  <2>2. \A x \in timers' : x[1] = heap'[x[2]].exp
    BY <1>3, <1>5, <1>6 DEF HeapInv, SetsAgree
  <2>3. \A x, y \in timers' : x[2] = y[2] => x = y
    BY <1>2, <1>5, <1>6 DEF HeapInv, SetsAgree
  <2> QED BY <2>1, <2>2, <2>3 DEF SetsAgree
<1>9. NoDangling'
  <2>1. \A a \in AddrsOf(timers) \union AddrsOf(batch) \union Queued : heap[a].live
    BY DEF HeapInv, NoDangling, AddrsOf
  <2>2. \A x \in timers' : heap'[x[2]].live
    BY <1>2, <1>3, <1>5, <1>6, <2>1 DEF AddrsOf
  <2>3. \A a \in Queued : heap'[a].live
    BY <1>3, <1>5, <2>1
  <2> QED BY <1>1, <1>4, <2>2, <2>3 DEF NoDangling
<1>10. CancelStands'
  <2>1. \A a \in Again : Id(a) \notin stopped
    <3>1. \A a \in Again : Id(a) \in Expired
      BY <1>2 DEF Expired, AddrsOf
    <3> QED BY <1>2, <3>1 DEF HeapInv, StoppedInv
  <2> QED BY <1>1, <2>1 DEF HeapInv, CancelStands
<1>11. PlaceInv'
  <2>1. AddrsOf({}) = {} /\ AddrsOf(timers' \union {}) = AddrsOf(timers')
    BY DEF AddrsOf
  <2> QED BY <1>1, <1>2, <1>4, <1>5, <1>7, <2>1 DEF HeapInv, PlaceInv
<1>12. OnceInv' /\ SeqInv'
  BY <1>1, <1>3 DEF HeapInv, OnceInv, Once, SeqInv
<1>13. StoppedInv'
  <2>1. Expired' = {}
    BY <1>1 DEF Expired
  <2> QED BY <1>1, <1>3, <1>4, <1>5, <2>1 DEF HeapInv, StoppedInv
<1> QED BY <1>8, <1>9, <1>10, <1>11, <1>12, <1>13 DEF HeapInv

\* ~TimerScheduler deletes what m_timers holds.
LEMMA EndHeap ==
  ASSUME TypeInv, HeapInv, End
  PROVE  HeapInv'
<1>1. /\ heap' = [a \in Addr |-> IF \E x \in timers : x[2] = a
                                 THEN [heap[a] EXCEPT !.live = FALSE] ELSE heap[a]]
      /\ timers' = {} /\ activeTimers' = {} /\ batch = {} /\ batch' = {}
      /\ UNCHANGED <<cancelingTimers, pendingFunctors, functors, stopped, numCreated>>
  BY DEF End, HeapInv, PlaceInv, Calling, loopVars, shareVars
<1>2. /\ \A a \in Addr : heap'[a].seq = heap[a].seq /\ Id(a)' = Id(a)
      /\ \A a \in Addr \ AddrsOf(timers) : heap'[a] = heap[a]
  BY <1>1 DEF TypeInv, TypeOK, Cell, Id, AddrsOf
<1>3. /\ InFunctors(pendingFunctors)' = InFunctors(pendingFunctors)
      /\ InFunctors(functors)' = InFunctors(functors) /\ Queued' = Queued /\ Expired' = {}
  BY <1>1 DEF Queued, InFunctors, Expired
<1>4. \A a \in Queued : a \in Addr /\ a \notin AddrsOf(timers)
  BY InsertsAreAddrs DEF TypeInv, TypeOK, Queued, HeapInv, PlaceInv, AddrsOf
<1>5. SetsAgree' /\ CancelStands' /\ NoDangling'
  BY <1>1, <1>2, <1>3, <1>4 DEF HeapInv, SetsAgree, CancelStands, NoDangling
<1>6. PlaceInv'
  <2>1. AddrsOf({}) = {} /\ AddrsOf({} \union {}) = {}
    BY DEF AddrsOf
  <2> QED BY <1>1, <1>3, <2>1 DEF HeapInv, PlaceInv
<1>7. OnceInv' /\ SeqInv' /\ StoppedInv'
  BY <1>1, <1>2, <1>3, <1>4 DEF HeapInv, OnceInv, Once, SeqInv, StoppedInv
<1> QED BY <1>5, <1>6, <1>7 DEF HeapInv

\* The swap hands all queued insertions to the loop thread.
LEMMA SwapHeap ==
  ASSUME TypeInv, HeapInv, SwapPending
  PROVE  HeapInv'
<1>1. /\ functors' = pendingFunctors /\ pendingFunctors' = <<>>
      /\ UNCHANGED <<heap, timers, activeTimers, cancelingTimers, batch, stopped, numCreated>>
      /\ batch = {}
  BY DEF SwapPending, HeapInv, PlaceInv, Calling, setVars
<1>2. InFunctors(<<>>) = {} /\ Once(<<>>)
  BY DEF InFunctors, Once
<1>3. /\ InFunctors(pendingFunctors)' = {} /\ InFunctors(functors)' = InFunctors(pendingFunctors)
      /\ Queued' \subseteq Queued
  <2>1. InFunctors(pendingFunctors') = {} /\ InFunctors(functors') = InFunctors(pendingFunctors)
    BY <1>1, <1>2
  <2> QED BY <2>1 DEF Queued, InFunctors
<1>4. Expired' = Expired /\ \A a : Id(a)' = Id(a)
  BY <1>1 DEF Expired, Id
<1>5. SetsAgree' /\ CancelStands' /\ NoDangling' /\ SeqInv' /\ StoppedInv'
  BY <1>1, <1>3, <1>4 DEF HeapInv, SetsAgree, CancelStands, NoDangling, SeqInv, StoppedInv
<1>6. PlaceInv'
  BY <1>1, <1>3 DEF HeapInv, PlaceInv, AddrsOf
<1>7. OnceInv'
  BY <1>1, <1>2 DEF HeapInv, OnceInv, Once
<1> QED BY <1>5, <1>6, <1>7 DEF HeapInv

\* A queued insertion or cancel is carried out.
LEMMA RunFunctorHeap ==
  ASSUME TypeInv, HeapInv, RunFunctor
  PROVE  HeapInv'
<1>1. /\ functors # <<>> /\ functors \in Seq(Functor) /\ functors' = Tail(functors)
      /\ pc = "functors" /\ UNCHANGED <<batch, pendingFunctors, numCreated, pc>>
  BY DEF RunFunctor, TypeInv, TypeOK, shareVars
<1>2. /\ Once(Tail(functors))
      /\ InFunctors(Tail(functors)) = IF Head(functors).op = "insert"
                                      THEN InFunctors(functors) \ {Head(functors).timer}
                                      ELSE InFunctors(functors)
      /\ Head(functors).op = "insert" => Head(functors).timer \in InFunctors(functors)
      /\ Head(functors) \in Functor
  BY <1>1, InsertsTail DEF HeapInv, OnceInv
<1>3. CASE RunCancel
  <2>1. Head(functors).op = "cancel" /\ CancelTimer(Head(functors).id)
        /\ Head(functors).id \in TimerIds
    BY <1>2, <1>3 DEF RunCancel, Functor
  <2> QED BY <1>1, <1>2, <2>1, CancelHeap
<1>4. CASE RunInsert
  <2> DEFINE a == Head(functors).timer
  <2>1. /\ Head(functors).op = "insert" /\ InsertCell(a, heap[a])
        /\ UNCHANGED <<heap, cancelingTimers, stopped>>
    BY <1>4 DEF RunInsert
  <2>2. a \in InFunctors(functors) /\ a \in Addr
    BY <1>2, <2>1, InsertsAreAddrs DEF TypeInv, TypeOK
  <2> HIDE DEF a
  <2>3. /\ timers' = timers \union {Entry(a)} /\ activeTimers' = activeTimers \union {Id(a)}
        /\ Entry(a)[2] = a /\ Entry(a)[1] = heap[a].exp
    BY <2>1 DEF InsertCell, Entry, Id
  <2>4. /\ InFunctors(pendingFunctors)' = InFunctors(pendingFunctors)
        /\ InFunctors(functors)' = InFunctors(functors) \ {a}
        /\ Queued' = InFunctors(pendingFunctors) \union (InFunctors(functors) \ {a})
    <3>1. InFunctors(functors') = InFunctors(functors) \ {a}
      BY <1>1, <1>2, <2>1 DEF a
    <3> QED BY <1>1, <3>1 DEF Queued, InFunctors
  <2>5. /\ a \in Queued /\ Queued' \subseteq Queued \ {a} /\ a \notin AddrsOf(timers)
        /\ a \notin AddrsOf(batch) /\ heap[a].live
    BY <2>2, <2>4 DEF Queued, HeapInv, PlaceInv, AddrsOf, NoDangling
  <2>6. Expired' = Expired /\ Calling' = Calling /\ \A b : Id(b)' = Id(b)
    BY <1>1, <2>1 DEF Expired, Calling, Id
  <2>7. SetsAgree'
    <3>1. activeTimers' = {Id(x[2]) : x \in timers'}
      BY <2>3 DEF HeapInv, SetsAgree
    <3>2. \A x \in timers : x[2] # a
      BY <2>5 DEF AddrsOf
    <3> QED BY <2>1, <2>3, <2>6, <3>1, <3>2 DEF HeapInv, SetsAgree
  <2>8. NoDangling'
    BY <1>1, <2>1, <2>3, <2>5 DEF HeapInv, NoDangling
  <2>9. CancelStands'
    BY <2>1, <2>3, <2>5 DEF HeapInv, CancelStands, StoppedInv
  <2>10. PlaceInv'
    <3>1. AddrsOf(timers') = AddrsOf(timers) \union {a}
          /\ AddrsOf(timers' \union batch) = AddrsOf(timers \union batch) \union {a}
      BY <2>3 DEF AddrsOf
    <3> QED BY <1>1, <2>4, <2>5, <2>6, <3>1 DEF HeapInv, PlaceInv
  <2>11. OnceInv' /\ SeqInv' /\ StoppedInv'
    BY <1>1, <1>2, <2>1, <2>5, <2>6 DEF HeapInv, OnceInv, Once, SeqInv, StoppedInv
  <2> QED BY <2>7, <2>8, <2>9, <2>10, <2>11 DEF HeapInv
<1> QED BY <1>3, <1>4 DEF RunFunctor

LEMMA StepHeap == TypeInv /\ HeapInv /\ [Next]_vars => HeapInv'
<1> SUFFICES ASSUME TypeInv, HeapInv, [Next]_vars PROVE HeapInv'
  OBVIOUS
<1>1. CASE LoopCancel
  <2>1. PICK id \in ids : CancelTimer(id)
    BY <1>1 DEF LoopCancel
  <2>2. /\ id \in TimerIds
        /\ UNCHANGED <<batch, pendingFunctors, functors, numCreated, pc>>
    BY <1>1 DEF LoopCancel, TypeInv, TypeOK, loopVars, shareVars
  <2> QED BY <2>1, <2>2, CancelHeap DEF HeapInv, OnceInv
<1>2. CASE LoopUser
  BY <1>1, <1>2, LoopAddHeap, QuietStepsHeap DEF LoopUser
<1>3. CASE LoopStep
  BY <1>3, EndHeap, HandleEventHeap, ResetHeap, SwapHeap, RunFunctorHeap, QuietStepsHeap
     DEF LoopStep
<1>4. ASSUME NEW t \in Threads, ThreadUser(t) \/ ThreadStep(t) PROVE HeapInv'
  BY <1>4, ThreadAddHeap, ThreadCancelHeap, QuietStepsHeap DEF ThreadUser, ThreadStep
<1>5. CASE Start \/ PollTimeout \/ Tick \/ UNCHANGED vars
  BY <1>5, QuietStepsHeap
<1> QED BY <1>2, <1>3, <1>4, <1>5 DEF Next
-----------------------------------------------------------------------------
(* The eventfd *)

\* Functors wait behind an eventfd that is, or is about to be, readable, but
\* where the loop comes to its swap before it polls again.
WakeInv == pendingFunctors # <<>> /\ pc \notin {"dispatch", "callbacks", "callback", "swap", "dead"}
             => eventfd \/ \E t \in Threads : threadPc[t] \in {"writeAdd", "write"}

LEMMA StepWake == TypeInv /\ WakeInv /\ [Next]_vars => WakeInv'
<1> SUFFICES ASSUME TypeInv, WakeInv, [Next]_vars PROVE WakeInv'
  OBVIOUS
<1> USE DEF WakeInv
<1>1. CASE LoopUser
  BY <1>1 DEF LoopUser, LoopAdd, LoopCancel, LoopQuit, shareVars, threadVars
<1>2. CASE Start \/ PollTimeout \/ Tick \/ UNCHANGED vars
  BY <1>2 DEF Start, PollTimeout, Tick, vars, shareVars, threadVars
<1>3. CASE Continue \/ End \/ Poll \/ HandleEvent \/ RunNext \/ CallbackReturns \/ Dispatched
  BY <1>3 DEF Continue, End, Poll, HandleEvent, RunNext, CallbackReturns, Dispatched,
              shareVars, threadVars
<1>4. CASE Reset \/ RunFunctor \/ FunctorsDone \/ SwapPending \/ ReadEventfd
  BY <1>4 DEF Reset, RunFunctor, FunctorsDone, SwapPending, ReadEventfd, shareVars, threadVars
<1>5. ASSUME NEW t \in Threads, ThreadAdd(t) \/ ThreadCancel(t) \/ ThreadQuit(t)
      PROVE  WakeInv'
  <2>1. threadPc'[t] \in {"writeAdd", "write"}
    BY <1>5 DEF ThreadAdd, ThreadCancel, ThreadQuit, TypeInv, TypeOK
  <2> QED BY <2>1
<1>6. ASSUME NEW t \in Threads, WriteEventfd(t) PROVE WakeInv'
  BY <1>6 DEF WriteEventfd, EventfdAfterWrite, WakesLoop
<1>7. ASSUME NEW t \in Threads, ReadSeq(t) PROVE WakeInv'
  <2>1. UNCHANGED <<pendingFunctors, pc, eventfd>> /\ threadPc[t] = "readSeq"
        /\ threadPc' = [threadPc EXCEPT ![t] = "idle"]
    BY <1>7 DEF ReadSeq, shareVars
  <2>2. \A u \in Threads : threadPc[u] \in {"writeAdd", "write"} => threadPc'[u] = threadPc[u]
    BY <2>1 DEF TypeInv, TypeOK
  <2> QED BY <2>1, <2>2
<1> QED BY <1>1, <1>2, <1>3, <1>4, <1>5, <1>6, <1>7
        DEF Next, LoopStep, ThreadUser, ThreadStep
-----------------------------------------------------------------------------
(* The timerfd *)

\* The alarm goes off for each timer of T, or in the next tick.
Covers(T) == T # {} => /\ alarm # NoAlarm
                       /\ \A x \in T : alarm <= x[1] \/ alarm <= now + 1

\* Only while a batch is handled may timers wait without an alarm.
AlarmInv == pc \notin {"callbacks", "callback", "dead"} => Covers(timers)

\* An insertion arms for its timer if that is the first to expire.
LEMMA InsertCovers ==
  ASSUME TypeInv, NEW a \in Addr, NEW c \in Cell, Covers(timers), InsertCell(a, c), now' = now
  PROVE  Covers(timers)'
<1>1. /\ c.exp \in Nat /\ now \in Nat /\ alarm \in Nat \union {NoAlarm} /\ NoAlarm \notin Nat
      /\ \A x \in timers : x[1] \in Nat
  BY TimerAssumption DEF TypeInv, TypeOK, Cell, Times
<1>2. /\ timers' = timers \union {<<c.exp, a>>}
      /\ alarm' = IF EarliestIn(timers, c.exp) THEN ArmedFor(c.exp) ELSE alarm
  BY DEF InsertCell, ArmsFor
<1>3. CASE EarliestIn(timers, c.exp)
  <2>1. alarm' \in Nat /\ (alarm' = c.exp \/ alarm' = now + 1)
    BY <1>1, <1>2, <1>3 DEF ArmedFor
  <2>2. \A x \in timers' : x[1] \in Nat /\ c.exp <= x[1]
    BY <1>1, <1>2, <1>3 DEF EarliestIn
  <2> QED BY <1>1, <2>1, <2>2 DEF Covers
<1>4. CASE ~EarliestIn(timers, c.exp)
  <2>1. PICK x \in timers : x[1] <= c.exp
    BY <1>1, <1>4 DEF EarliestIn
  <2>2. alarm \in Nat /\ alarm' = alarm /\ \A y \in timers : alarm <= y[1] \/ alarm <= now + 1
    BY <1>1, <1>2, <1>4, <2>1 DEF Covers
  <2>3. alarm <= c.exp \/ alarm <= now + 1
    BY <1>1, <2>1, <2>2
  <2> QED BY <1>1, <1>2, <2>2, <2>3 DEF Covers
<1> QED BY <1>3, <1>4

LEMMA CancelCovers ==
  ASSUME TypeInv, NEW id \in TimerIds, Covers(timers), CancelTimer(id), now' = now
  PROVE  Covers(timers)'
BY CancelTypes DEF TypeInv, Covers

LEMMA StepAlarm == TypeInv /\ AlarmInv /\ [Next]_vars => AlarmInv'
<1> SUFFICES ASSUME TypeInv, AlarmInv, [Next]_vars PROVE AlarmInv'
  OBVIOUS
<1>1. CASE LoopAdd
  <2>1. PICK a \in Addr, q \in Requests :
           NewTimer(a, q[1], q[2]) /\ InsertCell(a, New(a, q[1], q[2]))
    BY <1>1 DEF LoopAdd
  <2>2. New(a, q[1], q[2]) \in Cell /\ now' = now /\ pc' = pc
    BY <1>1, <2>1, NewTypes DEF TypeInv, LoopAdd
  <2> QED BY <2>1, <2>2, InsertCovers DEF AlarmInv
<1>2. CASE LoopCancel
  <2>1. PICK id \in TimerIds : CancelTimer(id)
    BY <1>2 DEF LoopCancel, TypeInv, TypeOK
  <2> QED BY <1>2, <2>1, CancelCovers DEF AlarmInv, LoopCancel
<1>3. CASE LoopQuit \/ Start \/ PollTimeout \/ UNCHANGED vars
  BY <1>3 DEF LoopQuit, Start, PollTimeout, vars, setVars, AlarmInv, Covers
<1>4. CASE Continue \/ End \/ Poll \/ HandleEvent \/ RunNext \/ CallbackReturns \/ Dispatched
  BY <1>4 DEF Continue, End, Poll, HandleEvent, RunNext, CallbackReturns, Dispatched,
              setVars, AlarmInv, Covers
<1>5. CASE FunctorsDone \/ SwapPending \/ ReadEventfd
  BY <1>5 DEF FunctorsDone, SwapPending, ReadEventfd, setVars, AlarmInv, Covers
<1>6. CASE RunFunctor
  <2>1. /\ functors # <<>> /\ functors \in Seq(Functor) /\ pc = "functors"
        /\ UNCHANGED <<pc, now>>
    BY <1>6 DEF RunFunctor, TypeInv, TypeOK
  <2>2. Head(functors) \in Functor /\ Covers(timers)
    BY <2>1 DEF AlarmInv
  <2>3. CASE RunInsert
    <3>1. Head(functors).timer \in Addr
      BY <2>2, <2>3 DEF RunInsert, Functor
    <3>2. heap[Head(functors).timer] \in Cell
      BY <3>1 DEF TypeInv, TypeOK
    <3> QED BY <2>1, <2>2, <2>3, <3>1, <3>2, InsertCovers DEF RunInsert, AlarmInv
  <2>4. CASE RunCancel
    <3>1. Head(functors).id \in TimerIds
      BY <2>2, <2>4 DEF RunCancel, Functor
    <3> QED BY <2>1, <2>2, <2>4, <3>1, CancelCovers DEF RunCancel, AlarmInv
  <2> QED BY <1>6, <2>3, <2>4 DEF RunFunctor
<1>7. CASE Reset
  <2>1. alarm' = Rearms(timers') /\ now' = now /\ now \in Nat
    BY <1>7 DEF Reset, Rearmed, TypeInv, TypeOK, Times
  <2>2. timers' \subseteq Times \X Addr
    BY <1>7, LoopTypes DEF TypeInv, TypeOK
  <2>3. ASSUME timers' # {} PROVE Covers(timers)'
    <3>1. \E x \in SomeEarliest(timers') : TRUE
      BY <2>2, <2>3, EarliestExists
    <3>2. PICK x \in SomeEarliest(timers') : alarm' = ArmedFor(x[1])
      BY <2>1, <2>3, <3>1 DEF Rearms
    <3>3. x[1] \in Nat /\ \A y \in timers' : y[1] \in Nat /\ x[1] <= y[1]
      BY <2>2, <3>2 DEF SomeEarliest, Times
    <3>4. alarm' \in Nat /\ (alarm' = x[1] \/ alarm' = now + 1)
      BY <2>1, <3>2, <3>3 DEF ArmedFor
    <3> QED BY <2>1, <3>3, <3>4, TimerAssumption DEF Covers
  <2> QED BY <2>3 DEF AlarmInv, Covers
<1>8. CASE Tick
  <2>1. now' = now + 1 /\ now \in Nat /\ UNCHANGED <<timers, alarm, pc>>
        /\ alarm \in Nat \union {NoAlarm}
    BY <1>8 DEF Tick, setVars, TypeInv, TypeOK, Times
  <2>2. alarm # NoAlarm /\ alarm <= now + 1 => alarm <= now' + 1
    BY <2>1
  <2> QED BY <2>1, <2>2 DEF AlarmInv, Covers
<1>9. ASSUME NEW t \in Threads, ThreadUser(t) \/ ThreadStep(t) PROVE AlarmInv'
  BY <1>9 DEF ThreadUser, ThreadStep, ThreadAdd, ThreadCancel, ThreadQuit, WriteEventfd, ReadSeq,
              setVars, AlarmInv, Covers
<1> QED BY <1>1, <1>2, <1>3, <1>4, <1>5, <1>6, <1>7, <1>8, <1>9 DEF Next, LoopUser, LoopStep
-----------------------------------------------------------------------------
(* The theorems *)

IInv == TypeInv /\ HeapInv /\ WakeInv /\ AlarmInv

\* All four parts are invariants of every behaviour.
THEOREM TimerInvariance == Spec => []IInv
<1>1. Init => WakeInv /\ AlarmInv
  BY DEF Init, WakeInv, AlarmInv, Covers
<1>2. Init => IInv
  BY <1>1, InitTypes, InitHeap DEF IInv
<1>3. IInv /\ [Next]_vars => IInv'
  BY StepTypes, StepHeap, StepWake, StepAlarm DEF IInv
<1> QED BY <1>2, <1>3, PTL DEF Spec

\* m_timers and m_activeTimers hold the same timers.
THEOREM BothSetsAgree == Spec => []SetsAgree
<1>1. IInv => SetsAgree
  BY DEF IInv, HeapInv
<1> QED BY <1>1, TimerInvariance, PTL

\* Nothing that is still reachable has been deleted, however addresses are
\* reused and ids outlive their timers.
THEOREM NothingDangles == Spec => []NoDangling
<1>1. IInv => NoDangling
  BY DEF IInv, HeapInv
<1> QED BY <1>1, TimerInvariance, PTL

\* A cancelled timer does not come back: not from the batch it was cancelled
\* in, and not by another timer at its address.
THEOREM CancelsStand == Spec => []CancelStands
<1>1. IInv => CancelStands
  BY DEF IInv, HeapInv
<1> QED BY <1>1, TimerInvariance, PTL

\* A loop that polls is woken for what other threads have queued.
THEOREM NoWakeupIsLost == Spec => []WakeupNotLost
<1>1. IInv => WakeupNotLost
  BY DEF IInv, WakeInv, WakeupNotLost
<1> QED BY <1>1, TimerInvariance, PTL

\* A loop that polls has its alarm set for the first timer to expire.
THEOREM AlarmIsSet == Spec => []AlarmCovers
<1>1. IInv => AlarmCovers
  BY DEF IInv, AlarmInv, Covers, AlarmCovers
<1> QED BY <1>1, TimerInvariance, PTL

Reasons == \A a \in Addr : heap[a].live /\ ~heap'[a].live =>
    \/ Id(a) \in stopped'
    \/ ~heap[a].rep /\ \E x \in batch \ todo : x[2] = a
    \/ pc' = "dead"

LEMMA CancelHasReason ==
  ASSUME IInv, NEW id \in TimerIds, CancelTimer(id)
  PROVE  Reasons
<1>1. CASE CancelActive(id)
  <2>1. id[1] \in Addr /\ heap' = [heap EXCEPT ![id[1]].live = FALSE] /\ id \in stopped'
        /\ id \in activeTimers
    BY <1>1 DEF CancelActive, Deleted, TimerIds
  <2>2. id = Id(id[1])
    BY <2>1 DEF IInv, HeapInv, SetsAgree, Id
  <2>3. \A a \in Addr : a # id[1] => heap'[a] = heap[a]
    BY <2>1 DEF IInv, TypeInv, TypeOK
  <2> QED BY <2>1, <2>2, <2>3 DEF Reasons
<1>2. CASE CancelExpired(id) \/ CancelUnknown(id)
  BY <1>2 DEF CancelExpired, CancelUnknown, setVars, Reasons
<1> QED BY <1>1, <1>2 DEF CancelTimer

LEMMA StepHasReason == IInv /\ [Next]_vars => Reasons
<1> SUFFICES ASSUME IInv, [Next]_vars PROVE Reasons
  OBVIOUS
<1>1. ASSUME heap' = heap PROVE Reasons
  BY <1>1 DEF Reasons
<1>2. ASSUME NEW a \in Addr, NEW q \in Requests, NewTimer(a, q[1], q[2]) PROVE Reasons
  BY <1>2 DEF NewTimer, New, Reasons, IInv, TypeInv, TypeOK
<1>3. CASE LoopUser
  <2>1. CASE LoopCancel
    <3>1. PICK id \in TimerIds : CancelTimer(id)
      BY <2>1 DEF LoopCancel, IInv, TypeInv, TypeOK
    <3> QED BY <3>1, CancelHasReason
  <2>2. CASE LoopAdd \/ LoopQuit
    BY <1>1, <1>2, <2>2 DEF LoopAdd, LoopQuit, setVars
  <2> QED BY <1>3, <2>1, <2>2 DEF LoopUser
<1>4. CASE Continue \/ Poll \/ ReadEventfd \/ HandleEvent \/ RunNext \/ CallbackReturns
             \/ Dispatched \/ SwapPending \/ FunctorsDone
  BY <1>1, <1>4 DEF Continue, Poll, ReadEventfd, HandleEvent, RunNext, CallbackReturns,
                    Dispatched, SwapPending, FunctorsDone, setVars
<1>5. CASE End
  BY <1>5 DEF End, Reasons
<1>6. CASE Reset
  <2> SUFFICES ASSUME NEW a \in Addr, heap[a].live, ~heap'[a].live
               PROVE  Id(a) \in stopped' \/ (~heap[a].rep /\ \E x \in batch \ todo : x[2] = a)
    BY DEF Reasons
  <2>1. a \in Done /\ todo = {} /\ stopped' = stopped
    BY <1>6 DEF Reset, IInv, TypeInv, TypeOK, Cell
  <2>2. PICK x \in batch : x[2] = a /\ ~Repeats(a)
    BY <2>1 DEF Done, Again
  <2>3. heap[a].rep => Id(a) \in cancelingTimers /\ Id(a) \in Expired
    BY <2>2 DEF Repeats, RepeatsUncancelled, Expired
  <2> QED BY <2>1, <2>2, <2>3 DEF IInv, HeapInv, StoppedInv
<1>7. CASE RunFunctor
  <2>1. functors # <<>> /\ functors \in Seq(Functor)
    BY <1>7 DEF RunFunctor, IInv, TypeInv, TypeOK
  <2>2. Head(functors) \in Functor
    BY <2>1
  <2>3. CASE RunCancel
    <3>1. Head(functors).id \in TimerIds
      BY <2>2, <2>3 DEF RunCancel, Functor
    <3> QED BY <2>3, <3>1, CancelHasReason DEF RunCancel
  <2> QED BY <1>1, <1>7, <2>3 DEF RunFunctor, RunInsert
<1>8. ASSUME NEW t \in Threads, ThreadUser(t) \/ ThreadStep(t) PROVE Reasons
  BY <1>1, <1>2, <1>8 DEF ThreadUser, ThreadStep, ThreadAdd, ThreadCancel, ThreadQuit,
                          WriteEventfd, ReadSeq, setVars
<1>9. CASE Start \/ PollTimeout \/ Tick \/ UNCHANGED vars
  BY <1>1, <1>9 DEF Start, PollTimeout, Tick, vars, setVars
<1> QED BY <1>3, <1>4, <1>5, <1>6, <1>7, <1>8, <1>9 DEF Next, LoopStep

\* A timer dies by a cancel of its own id, after its one run, or with the
\* scheduler.
THEOREM EachDeathHasAReason == Spec => DeletedForAReason
<1>1. IInv /\ [Next]_vars => [Reasons]_vars
  BY StepHasReason
<1> QED BY <1>1, TimerInvariance, PTL DEF Spec, DeletedForAReason, Reasons
=============================================================================
