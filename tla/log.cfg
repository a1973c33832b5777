\* Two threads that log by every macro.
SPECIFICATION Spec
CONSTANTS
    p1 = p1
    p2 = p2
    Threads <- TwoThreads
    Lengths = {1, 2}
    rollSize = 3
    flushInterval = 1
    checkEveryN = 3
    SecondsPerDay = 2
    MaxLines = 4
    MaxTime = 4
SYMMETRY Symmetry
INVARIANTS
    TypeOK
    NothingLost
    FilesBounded
    FatalOnDisk
PROPERTIES
    NothingStale
\* An abort or undefined behaviour ends everything, and the bounds may stop it.
CHECK_DEADLOCK FALSE
