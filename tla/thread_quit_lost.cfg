\* Three coroutines; no symmetry: liveness.
SPECIFICATION FairSpec
CONSTANTS
    t1 = t1
    t2 = t2
    t3 = t3
    Tasks <- ThreeTasks
PROPERTY DestructorReturns
CHECK_DEADLOCK FALSE
