\* Three coroutines; no symmetry: liveness.
SPECIFICATION FairSpec
CONSTANTS
    t1 = t1
    t2 = t2
    t3 = t3
    Tasks <- ThreeTasks
INVARIANTS
    TypeOK
    ScanServesAll
    TasksConserved
PROPERTIES
    QueuedRuns
    YieldedResumes
    RunningLoopIsJoined
\* The thread ends, and the owner may wait for it for ever.
CHECK_DEADLOCK FALSE
