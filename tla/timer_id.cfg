\* Two timers over two addresses, one other thread.
SPECIFICATION Spec
CONSTANTS
    a1 = a1
    a2 = a2
    p1 = p1
    p2 = p2
    Addr <- TwoAddr
    Threads <- OneThread
    Delays = {2}
    Interval = 1
    MaxTimers = 2
    MaxTime = 3
    MaxPending = 2
    NoAlarm = NoAlarm
PROPERTY IdNamesItsTimer
CHECK_DEADLOCK FALSE
