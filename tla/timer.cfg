\* Two timers over two addresses, one-shot or repeating, and one other thread; no
\* symmetry: liveness.
SPECIFICATION FairSpec
CONSTANTS
    a1 = a1
    a2 = a2
    p1 = p1
    p2 = p2
    Addr <- TwoAddr
    Threads <- OneThread
    Delays = {2}
    Interval = 1
    MaxTimers = 2
    MaxTime = 3
    MaxPending = 1
    NoAlarm = NoAlarm
INVARIANTS
    TypeOK
    SetsAgree
    NoDangling
    AlarmCovers
    WakeupNotLost
    CancelStands
PROPERTIES
    DeletedForAReason
    TimerExpires
    QuitEndsLoop
\* The loop may end, and the bounds may stop it.
CHECK_DEADLOCK FALSE
